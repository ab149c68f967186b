------------------------- MODULE QueueDeliveryProofs -------------------------
(*****************************************************************************)
(* What a QueueManager delivers, proved on top of IndInv for every value of  *)
(* the constants: that it implements DeliveryContract (each call, sync and   *)
(* crash is a step of the contract on the copies that QueueContract reads    *)
(* off the trees, or changes none of them); which messages retention expires,*)
(* which the contract leaves open; when, how often and in which order a      *)
(* message is delivered, how many copies of it are stored and how much space *)
(* they take.                                                                *)
(*****************************************************************************)
EXTENDS QueueManagerProofs, QueueContract

\* The fields of a copy, read through the mapping.
LEMMA CopyFields ==
  ASSUME NEW e
  PROVE  /\ CopyOf(e).id = e.id /\ CopyOf(e).uid = e.msg.uid
         /\ CopyOf(e).queue = e.queue /\ CopyOf(e).place = PlaceOf(e.tree)
BY DEF CopyOf

\* Which copies the mapping puts in each place.
LEMMA Places ==
  /\ PlaceOf("main") = "ready" /\ PlaceOf("scheduled") = "scheduled"
  /\ PlaceOf("inflight") = "unacked" /\ PlaceOf("dlq") = "dead"
BY DEF PlaceOf

\* In a store, an entry can be told by its copy.
LEMMA CopiesDiffer ==
  ASSUME IndInv, NEW e \in db.msgs, NEW f \in db.msgs, CopyOf(e) = CopyOf(f)
  PROVE  e = f
<1>1. CopyOf(e).id = e.id /\ CopyOf(f).id = f.id
  BY CopyFields
<1> QED
  BY <1>1, InvFacts DEF StoreOK

\* A step that replaces the entries D by the entries N replaces their copies.
LEMMA CopiesStep ==
  ASSUME IndInv, NEW D \in SUBSET db.msgs, NEW N, db'.msgs = (db.msgs \ D) \cup N
  PROVE  /\ CopiesOf(db.msgs)' = (CopiesOf(db.msgs) \ CopiesOf(D)) \cup CopiesOf(N)
         /\ CopiesOf(D) \subseteq CopiesOf(db.msgs)
<1>1. \A e, f \in db.msgs : CopyOf(e) = CopyOf(f) => e = f
  BY CopiesDiffer
<1>2. CopiesOf(db.msgs)' = CopiesOf(db'.msgs)
  BY DEF CopiesOf, CopyOf, PlaceOf
<1>3. CopiesOf(db'.msgs) = (CopiesOf(db.msgs) \ CopiesOf(D)) \cup CopiesOf(N)
  BY <1>1 DEF CopiesOf
<1>4. CopiesOf(D) \subseteq CopiesOf(db.msgs)
  BY DEF CopiesOf
<1> QED
  BY <1>2, <1>3, <1>4, Zenon

\* An id the generator has not handed out is fresh in the contract's sense.
LEMMA NewIdFresh ==
  ASSUME IndInv, NEW id, nextId <= id, id \in Nat
  PROVE  Contract!Fresh(id)
<1>1. \A e \in db.msgs : e.id # id
  BY InvFacts DEF StoreOK, Store, EntryType
<1>2. \A c \in CopiesOf(db.msgs) : c.id # id
  BY <1>1, CopyFields DEF CopiesOf
<1>3. \A h \in handed : h.tag # id
  BY DEF IndInv, TagsOwned, TypeOK
<1> QED
  BY <1>2, <1>3 DEF Contract!Fresh

\* A publish that stores is the contract's Accept.
LEMMA PublishAccepts ==
  ASSUME IndInv, NEW q \in Queues, NEW p \in Priorities, NEW at \in DeliverAts,
         NEW key \in DedupKeys \cup {None}, NEW ts \in {now} \cup ClientStamps,
         Publish(q, p, at, key, ts)
  PROVE  Contract!ContractNext
<1>pick. PICK e \in EntryType, s1 \in Store : Publishing(e, s1, q, NewMessage(p, at, key, ts))
  BY PublishEffect, Zenon
<1>1. /\ e \in EntryType /\ s1 \in Store
      /\ e.tree \in {"main", "scheduled"} /\ e.id = nextId
      /\ e.msg.uid = published /\ db'.msgs = db.msgs \cup {e}
  BY <1>pick, Zenon DEF Publishing
<1>2. /\ published' = published + 1 /\ published \in Nat /\ nextId \in Nat
      /\ UNCHANGED <<safe, acked, expired, handed, crashes>>
  BY DEF Publish, IndInv, TypeOK
<1> DEFINE c == CopyOf(e)
<1>3. /\ c.place \in {"ready", "scheduled"} /\ c.uid = published /\ c.id = nextId
  BY <1>1, CopyFields, Places, Zenon
<1>4. CopiesOf({e}) = {c} /\ CopiesOf({}) = {}
  BY DEF CopiesOf
<1>5. CopiesOf(db.msgs)' = CopiesOf(db.msgs) \cup {c}
  <2>1. db'.msgs = (db.msgs \ {}) \cup {e}
    BY <1>1
  <2> QED
    BY <1>4, <2>1, CopiesStep
<1>6. Contract!Fresh(c.id)
  BY <1>2, <1>3, NewIdFresh
<1> HIDE DEF c
<1>7. c \notin CopiesOf(db.msgs)
  BY <1>6 DEF Contract!Fresh
<1>8. (0..(published - 1))' = (0..(published - 1)) \cup {c.uid} /\ c.uid \notin 0..(published - 1)
  BY <1>2, <1>3
<1>9. Contract!Accept(c)
  BY <1>2, <1>3, <1>5, <1>6, <1>8, Zenon DEF Contract!Accept
<1> QED
  BY <1>5, <1>7, <1>9 DEF Contract!ContractNext

\* A consume that finds a message is the contract's Deliver.
LEMMA ConsumeDelivers ==
  ASSUME IndInv, NEW q \in Queues, Consume(q)
  PROVE  Contract!ContractNext
<1>pick. PICK e \in db.msgs, f \in EntryType : Consuming(e, f, q)
  BY ConsumeEffect, Zenon
<1>1. /\ e \in db.msgs /\ f \in EntryType
      /\ e.tree = "main" /\ e.queue = q
      /\ f.tree = "inflight" /\ f.queue = q /\ f.id = e.id /\ f.msg = e.msg
      /\ db'.msgs = (db.msgs \ {e}) \cup {f}
      /\ handed' = handed \cup {[queue |-> q, tag |-> e.id, uid |-> e.msg.uid]}
  BY <1>pick, Zenon DEF Consuming
<1>2. UNCHANGED <<published, safe, acked, expired, crashes>>
  BY DEF Consume
<1> DEFINE c == CopyOf(e)
           d == [c EXCEPT !.place = "unacked"]
<1>3. c.place = "ready" /\ c.queue = q /\ c.id = e.id /\ c.uid = e.msg.uid
  BY <1>1, CopyFields, Places
<1>4. CopyOf(f) = d
  BY <1>1, Places DEF CopyOf
<1>5. CopiesOf({e}) = {c} /\ CopiesOf({f}) = {d} /\ c \in CopiesOf(db.msgs)
  BY <1>4 DEF CopiesOf
<1>6. CopiesOf(db.msgs)' = (CopiesOf(db.msgs) \ {c}) \cup {d}
  <2> DEFINE D == {e}
             N == {f}
  <2>1. D \in SUBSET db.msgs /\ db'.msgs = (db.msgs \ D) \cup N
    BY <1>1
  <2> HIDE DEF D, N
  <2>2. CopiesOf(db.msgs)' = (CopiesOf(db.msgs) \ CopiesOf(D)) \cup CopiesOf(N)
    BY <2>1, CopiesStep
  <2> QED
    BY <1>5, <2>2, Zenon DEF D, N
<1> HIDE DEF c
<1>7. Contract!Deliver(c)
  BY <1>1, <1>2, <1>3, <1>5, <1>6, Zenon DEF Contract!Deliver, Contract!At
<1> QED
  BY <1>5, <1>7 DEF Contract!ContractNext

\* An ack is the contract's Settle.
LEMMA AckSettles ==
  ASSUME IndInv, NEW q \in Queues, NEW tag, Ack(q, tag)
  PROVE  Contract!ContractNext
<1>1. PICK e \in In(db, "inflight", q) :
        db' = RemoveAll(db, {e}) /\ acked' = acked \cup {e.msg.uid}
  BY ZenonT(40) DEF Ack, Write
<1>2. UNCHANGED <<published, safe, expired, handed, crashes>>
  BY DEF Ack
<1>3. e \in db.msgs /\ e.tree = "inflight"
  BY DEF In
<1>4. db'.msgs = (db.msgs \ {e}) \cup {}
  BY <1>1, InvFacts, RemoveOK
<1> DEFINE c == CopyOf(e)
<1>5. c.place = "unacked" /\ c.uid = e.msg.uid
  BY <1>3, CopyFields, Places
<1>6. CopiesOf({e}) = {c} /\ CopiesOf({}) = {} /\ c \in CopiesOf(db.msgs)
  BY <1>3 DEF CopiesOf
<1>7. CopiesOf(db.msgs)' = CopiesOf(db.msgs) \ {c}
  BY <1>3, <1>4, <1>6, CopiesStep
<1> HIDE DEF c
<1>8. Contract!Settle(c)
  BY <1>1, <1>2, <1>5, <1>6, <1>7, Zenon DEF Contract!Settle, Contract!At
<1> QED
  BY <1>6, <1>8 DEF Contract!ContractNext

\* A nack is the contract's Return.
LEMMA NackReturns ==
  ASSUME IndInv, NEW q \in Queues, NEW tag, Nack(q, tag)
  PROVE  Contract!ContractNext
<1>pick. PICK e \in db.msgs, f \in EntryType : Nacking(e, f, q)
  BY NackEffect, Zenon
<1>1. /\ e \in db.msgs /\ f \in EntryType
      /\ e.tree = "inflight" /\ e.queue = q
      /\ f.tree \in {"main", "dlq"} /\ f.queue = q /\ f.id = nextId
      /\ f.msg.uid = e.msg.uid
      /\ db'.msgs = (db.msgs \ {e}) \cup {f}
  BY <1>pick, Zenon DEF Nacking
<1>2. UNCHANGED <<published, safe, acked, expired, handed, crashes>> /\ nextId \in Nat
  BY DEF Nack, history, IndInv, TypeOK
<1> DEFINE c == CopyOf(e)
           d == CopyOf(f)
<1>3. /\ c.place = "unacked" /\ d.place \in {"ready", "dead"}
      /\ d.queue = c.queue /\ d.uid = c.uid /\ d.id = nextId
  BY <1>1, CopyFields, Places, Zenon
<1>4. CopiesOf({e}) = {c} /\ CopiesOf({f}) = {d} /\ c \in CopiesOf(db.msgs)
  BY DEF CopiesOf
<1>5. CopiesOf(db.msgs)' = (CopiesOf(db.msgs) \ {c}) \cup {d}
  <2> DEFINE D == {e}
             N == {f}
  <2>1. D \in SUBSET db.msgs /\ db'.msgs = (db.msgs \ D) \cup N
    BY <1>1
  <2> HIDE DEF D, N
  <2>2. CopiesOf(db.msgs)' = (CopiesOf(db.msgs) \ CopiesOf(D)) \cup CopiesOf(N)
    BY <2>1, CopiesStep
  <2> QED
    BY <1>4, <2>2 DEF D, N
<1>6. Contract!Fresh(d.id)
  BY <1>2, <1>3, NewIdFresh
<1> HIDE DEF c, d
<1>7. d \notin CopiesOf(db.msgs)
  BY <1>6 DEF Contract!Fresh
<1>8. Contract!Return(c, d)
  BY <1>2, <1>3, <1>4, <1>5, <1>6, Zenon DEF Contract!Return, Contract!At
<1> QED
  BY <1>4, <1>5, <1>7, <1>8, Zenon DEF Contract!ContractNext

\* apply_retention is the contract's Expire.
LEMMA RetentionExpires ==
  ASSUME IndInv, NEW q \in Queues, ApplyRetention(q)
  PROVE  Contract!ContractNext
<1> DEFINE D == Expired(db, q, now) \cup Excess(db, q, now)
<1>1. /\ db' = RemoveAll(db, D) /\ expired' = expired \cup Uids(D)
      /\ UNCHANGED <<published, safe, acked, handed, crashes>>
  BY DEF ApplyRetention, Write
<1>2. D \in SUBSET db.msgs /\ \A e \in D : e.tree = "main"
  BY Zenon DEF Expired, Excess, In
<1> HIDE DEF D
<1>3. db'.msgs = (db.msgs \ D) \cup {}
  BY <1>1, InvFacts, RemoveOK
<1> DEFINE E == CopiesOf(D)
<1>4. \A c \in E : c.place = "ready"
  BY <1>2, CopyFields, Places, Zenon DEF CopiesOf
<1>5. Contract!UidsOf(E) = Uids(D)
  BY CopyFields DEF Contract!UidsOf, Uids, CopiesOf
<1>6. CopiesOf(db.msgs)' = CopiesOf(db.msgs) \ E /\ E \subseteq CopiesOf(db.msgs)
  <2>1. CopiesOf({}) = {}
    BY DEF CopiesOf
  <2> QED
    BY <1>2, <1>3, <2>1, CopiesStep
<1> HIDE DEF E
<1>7. CopiesOf(db.msgs) \ CopiesOf(db.msgs)' = E
  BY <1>6
<1>8. Contract!Expire(E)
  BY <1>1, <1>4, <1>5, <1>6, Zenon DEF Contract!Expire, Contract!At
<1> QED
  BY <1>7, <1>8, Zenon DEF Contract!ContractNext

\* promote_scheduled is the contract's Release.
LEMMA PromoteReleases ==
  ASSUME IndInv, NEW q \in Queues, PromoteScheduled(q)
  PROVE  Contract!ContractNext
<1> DEFINE S == Due(db, q, now)
           N == RequeuedSet(S, S, nextId)
           C == CopiesOf(S)
           R == CopiesOf(N)
<1>0. nextId \in Nat /\ db \in disk /\ StoreOK(db, nextId)
  BY InvFacts
<1>1. /\ db' = Promote(db, S, S, nextId)
      /\ UNCHANGED <<published, safe, acked, expired, handed, crashes>>
  BY DEF PromoteScheduled, Write, history
<1>2. S \in SUBSET db.msgs /\ \A e \in S : e.tree = "scheduled"
  BY Zenon DEF Due, In
<1> HIDE DEF S
<1>3. /\ N \in SUBSET EntryType /\ IsFiniteSet(N)
      /\ \A f \in N : nextId <= f.id
      /\ \A f, g \in N : f.id = g.id => f = g
  BY <1>0, <1>2, RenumberedFacts, Zenon
<1>4. db'.msgs = (db.msgs \ S) \cup N
  <2> DEFINE r == RemoveAll(db, S)
  <2>1. StoreOK(r, nextId) /\ r.msgs = db.msgs \ S
    BY <1>0, RemoveOK
  <2>2. db' = InsertAll(r, N)
    BY <1>1 DEF Promote, RequeuedSet
  <2> HIDE DEF r, N
  <2> QED
    BY <1>0, <1>3, <2>1, <2>2, InsertFresh
<1>5. \A f \in N : f.tree = "main" /\ \E e \in S : f.queue = e.queue /\ f.msg = e.msg
  BY RequeuedFields DEF RequeuedSet
<1>6. \A e \in S : \E f \in N : f.queue = e.queue /\ f.msg = e.msg
  BY RequeuedFields DEF RequeuedSet
<1> HIDE DEF N
<1>7. CopiesOf(db.msgs)' = (CopiesOf(db.msgs) \ C) \cup R /\ C \subseteq CopiesOf(db.msgs)
  BY <1>2, <1>4, CopiesStep, Zenon
<1>8. \A c \in C : c.place = "scheduled"
  BY <1>2, CopyFields, Places, Zenon DEF CopiesOf
<1>9. \A d \in R : d.place = "ready" /\ Contract!Fresh(d.id)
  <2>1. \A f \in N : Contract!Fresh(f.id)
    BY <1>3, NewIdFresh, Zenon DEF EntryType
  <2> QED
    BY <1>5, <2>1, CopyFields, Places DEF CopiesOf
<1>10. \A c \in C : \E d \in R : d.uid = c.uid /\ d.queue = c.queue
  BY <1>6, CopyFields DEF CopiesOf
<1>11. \A d \in R : \E c \in C : d.uid = c.uid /\ d.queue = c.queue
  BY <1>5, CopyFields DEF CopiesOf
<1>12. \A d, e \in R : d.id = e.id => d = e
  BY <1>3, CopyFields DEF CopiesOf
<1> HIDE DEF C, R
<1>13. \A d \in R : d \notin CopiesOf(db.msgs)
  BY <1>9 DEF Contract!Fresh
<1>14. /\ CopiesOf(db.msgs) \ CopiesOf(db.msgs)' = C
       /\ CopiesOf(db.msgs)' \ CopiesOf(db.msgs) = R
  BY <1>7, <1>13, Zenon
<1>15. Contract!Release(C, R)
  BY <1>1, <1>7, <1>8, <1>9, <1>10, <1>11, <1>12, Zenon DEF Contract!Release, Contract!At
<1> QED
  BY <1>14, <1>15, Zenon DEF Contract!ContractNext

\* A flush is the contract's Persist.
LEMMA SyncPersists ==
  ASSUME IndInv, Sync
  PROVE  Contract!ContractNext
<1>1. /\ safe' = safe \cup Uids(db.msgs)
      /\ UNCHANGED <<db, published, acked, expired, handed, crashes>>
  BY DEF Sync
<1>2. Contract!UidsOf(CopiesOf(db.msgs)) = Uids(db.msgs)
  BY CopyFields DEF Contract!UidsOf, Uids, CopiesOf
<1>3. CopiesOf(db.msgs)' = CopiesOf(db.msgs)
  BY <1>1 DEF CopiesOf, CopyOf, PlaceOf
<1>4. Contract!Persist
  BY <1>1, <1>2, <1>3 DEF Contract!Persist
<1> QED
  BY <1>4 DEF Contract!ContractNext

\* No message is in flight in the store that open returns.
LEMMA RecoveredNoneInflight ==
  ASSUME IndInv, Restart
  PROVE  \A e \in db'.msgs : e.tree # "inflight"
<1>1. PICK s \in disk : db' = Recover(s, Inflight(s), Inflight(s), nextId)
  BY DEF Restart
<1>2. StoreOK(s, nextId) /\ nextId \in Nat
  BY DEF IndInv, TypeOK
<1> DEFINE I == Inflight(s)
           N == RequeuedSet(I, I, nextId)
           v == InsertAll(s, N)
<1>3. I \in SUBSET s.msgs /\ \A e \in s.msgs \ I : e.tree # "inflight"
  BY <1>2 DEF Inflight, StoreOK
<1> HIDE DEF I
<1>4. /\ N \in SUBSET EntryType /\ IsFiniteSet(N)
      /\ \A f \in N : nextId <= f.id
  BY <1>3, RenumberedFacts
<1>5. \A f \in N : f.tree = "main"
  BY RequeuedFields DEF RequeuedSet
<1>6. db' = RemoveAll(v, I)
  BY <1>1, Zenon DEF Recover, RequeuedSet, I
<1> HIDE DEF N
<1>7. v \in Store /\ v.msgs = s.msgs \cup N
  BY <1>2, <1>4, InsertFresh
<1> HIDE DEF v
<1>8. db'.msgs = (s.msgs \cup N) \ I
  BY <1>6, <1>7, Zenon DEF RemoveAll, Store
<1> QED
  BY <1>3, <1>5, <1>8, Zenon

\* A crash with its recovery is the contract's Crash.
LEMMA RestartCrashes ==
  ASSUME IndInv, Restart
  PROVE  Contract!ContractNext
<1> DEFINE K == CopiesOf(db'.msgs)
<1>0. CopiesOf(db.msgs)' = K
  BY DEF CopiesOf, CopyOf, PlaceOf
<1>1. IndInv'
  BY RestartStep
<1>2. /\ crashes' = crashes + 1
      /\ UNCHANGED <<published, safe, acked, expired, handed>>
  BY Zenon DEF Restart
<1>3. /\ db' \in disk' /\ db' \in Store /\ StoreOK(db', nextId')
      /\ \A e \in db'.msgs : e.msg.uid \in Nat /\ e.msg.uid < published
      /\ published \in Nat
  BY <1>1, <1>2, Zenon DEF IndInv, TypeOK, OnlyAccepted, Store, EntryType, Message
<1>4. \A c \in K : c.place # "unacked"
  <2>1. \A e \in db'.msgs : e.tree \in {"main", "scheduled", "dlq"}
    BY <1>3, RecoveredNoneInflight, Zenon DEF Store, EntryType, Trees
  <2> QED
    BY <2>1, CopyFields, Places, Zenon DEF CopiesOf
<1>5. Contract!UidsOf(K) = Uids(db'.msgs)
  <2>1. \A e \in db'.msgs : CopyOf(e).uid = e.msg.uid
    BY CopyFields
  <2> QED
    BY <2>1, SMTT(40) DEF Contract!UidsOf, Uids, CopiesOf
<1>6. safe \ (acked \cup expired) \subseteq Uids(db'.msgs)
  BY <1>1, <1>2, <1>3, Zenon DEF IndInv, NoLossOnceSynced, Uids
<1>7. Uids(db'.msgs) \subseteq 0..(published - 1)
  BY <1>3 DEF Uids
<1>8. \A c \in K, h \in handed : c.id = h.tag => c.uid = h.uid
  <2>1. \A e \in db'.msgs, h \in handed : e.id = h.tag => e.msg.uid = h.uid
    BY <1>1, <1>2, <1>3, Zenon DEF IndInv, TagsOwned
  <2> QED
    BY <2>1, CopyFields DEF CopiesOf
<1>9. \A c, d \in K : c.id = d.id => c = d
  <2>1. \A e, f \in db'.msgs : e.id = f.id => e = f
    BY <1>3 DEF StoreOK
  <2> QED
    BY <2>1, CopyFields DEF CopiesOf
<1> HIDE DEF K
<1>10. Contract!Crash
  BY <1>0, <1>2, <1>4, <1>5, <1>6, <1>7, <1>8, <1>9, Zenon DEF Contract!Crash, Contract!UidsOf
<1> QED
  BY <1>10 DEF Contract!ContractNext

\* A call that leaves the messages and the history of the contract alone.
LEMMA Stutters ==
  ASSUME db'.msgs = db.msgs, UNCHANGED <<published, safe, acked, expired, handed, crashes>>
  PROVE  UNCHANGED Contract!contractVars
<1>1. CopiesOf(db.msgs)' = CopiesOf(db.msgs)
  BY DEF CopiesOf, CopyOf, PlaceOf
<1> QED
  BY <1>1 DEF Contract!contractVars

\* Every step of the engine is a step of the contract or none.
LEMMA NextImplements ==
  IndInv /\ [Next]_vars => [Contract!ContractNext]_(Contract!contractVars)
<1> SUFFICES ASSUME IndInv, [Next]_vars
             PROVE  Contract!ContractNext \/ UNCHANGED Contract!contractVars
  OBVIOUS
<1>1. ASSUME NEW q \in Queues, NEW policy \in Policies, Declare(q, policy)
      PROVE  UNCHANGED Contract!contractVars
  <2>1. db'.msgs = db.msgs
    BY <1>1, InvFacts DEF Declare, Write, DeclareMeta, DeclareRetention, Store
  <2> QED
    BY <1>1, <2>1, Stutters DEF Declare, history
<1>2. ASSUME NEW q \in Queues, NEW p \in Priorities, NEW at \in DeliverAts,
             NEW key \in DedupKeys \cup {None}, NEW ts \in {now} \cup ClientStamps,
             Publish(q, p, at, key, ts)
      PROVE  Contract!ContractNext
  BY <1>2, PublishAccepts
<1>3. ASSUME NEW q \in Queues, Consume(q) PROVE Contract!ContractNext
  BY <1>3, ConsumeDelivers
<1>4. ASSUME NEW q \in Queues, NEW tag \in 0..(nextId - 1), Ack(q, tag) \/ Nack(q, tag)
      PROVE  Contract!ContractNext
  BY <1>4, AckSettles, NackReturns, Zenon
<1>5. ASSUME NEW q \in Queues, PromoteScheduled(q) PROVE Contract!ContractNext
  BY <1>5, PromoteReleases
<1>6. ASSUME NEW q \in Queues, ApplyRetention(q) PROVE Contract!ContractNext
  BY <1>6, RetentionExpires
<1>7. CASE Sync
  BY <1>7, SyncPersists
<1>8. CASE Restart
  BY <1>8, RestartCrashes
<1>9. ASSUME \/ UNCHANGED vars
             \/ Tick
             \/ \E q \in Queues, tag \in 0..(nextId - 1) : NackInvalidTag(q, tag)
      PROVE  UNCHANGED Contract!contractVars
  <2>1. db' = db /\ UNCHANGED <<published, safe, acked, expired, handed, crashes>>
    BY <1>9 DEF Tick, NackInvalidTag, vars, history
  <2> QED
    BY <2>1, Stutters, Zenon
<1> QED
  BY <1>1, <1>2, <1>3, <1>4, <1>5, <1>6, <1>7, <1>8, <1>9, Zenon DEF Next

\* The queue manager keeps the contract the front ends rely on: whatever the
\* queues, policies, clients and crashes, publish, consume, ack, nack,
\* promote_scheduled, apply_retention, a sync and open after a crash are steps
\* that DeliveryContract allows.
THEOREM Refinement == Spec => ImplementsContract
<1>1. Init => Contract!ContractInit
  BY DEF Init, EmptyStore, Contract!ContractInit, CopiesOf
<1> QED
  BY <1>1, Invariance, NextImplements, PTL
     DEF Spec, ImplementsContract, Contract!ContractSpec

-----------------------------------------------------------------------------
(* Retention *)

\* Exactly m entries of S have a rank below m.
LEMMA LowRanks ==
  ASSUME NEW S \in SUBSET EntryType, IsFiniteSet(S),
         \A e, f \in S : e.id = f.id => e = f,
         NEW m \in Nat, m <= Cardinality(S)
  PROVE  Cardinality({e \in S : Rank(e, S) < m}) = m
<1> DEFINE n == Cardinality(S)
           F == [e \in S |-> Rank(e, S)]
           L == {e \in S : Rank(e, S) < m}
           G == [e \in L |-> Rank(e, S)]
<1>1. /\ n \in Nat
      /\ \A e \in S : Rank(e, S) \in Nat /\ Rank(e, S) < n
      /\ \A e, f \in S : Rank(e, S) = Rank(f, S) => e = f
  BY RankFacts
<1>2. /\ IsFiniteSet(0..(n - 1)) /\ Cardinality(0..(n - 1)) = n
      /\ IsFiniteSet(0..(m - 1)) /\ Cardinality(0..(m - 1)) = m
  <2> HIDE DEF n
  <2>1. n - 1 \in Int /\ m - 1 \in Int /\ 0 \in Int
    BY <1>1
  <2> QED
    BY <1>1, <2>1, FS_Interval
<1>3. F \in Surjection(S, 0..(n - 1))
  <2>1. F \in [S -> 0..(n - 1)]
    BY <1>1
  <2>2. \A e, f \in S : F[e] = F[f] => e = f
    BY <1>1
  <2> HIDE DEF F
  <2>3. F \in Injection(S, 0..(n - 1))
    BY <2>1, <2>2 DEF Injection, IsInjective
  <2> QED
    BY <1>2, <2>3, FS_Injection
<1>4. G \in Bijection(L, 0..(m - 1))
  <2>1. G \in [L -> 0..(m - 1)]
    BY <1>1
  <2>2. \A e, f \in L : G[e] = G[f] => e = f
    BY <1>1
  <2>3. ASSUME NEW i \in 0..(m - 1) PROVE \E e \in L : G[e] = i
    <3>1. i \in 0..(n - 1)
      BY <1>1
    <3>2. PICK e \in S : F[e] = i
      BY <1>3, <3>1, Zenon DEF Surjection
    <3>3. Rank(e, S) = i /\ i < m
      BY <3>2
    <3> QED
      BY <3>3
  <2> HIDE DEF G, L
  <2> QED
    BY <2>1, <2>2, <2>3, Zenon DEF Bijection, Injection, Surjection, IsInjective
<1>5. IsFiniteSet(L)
  BY FS_Subset
<1> HIDE DEF L, G
<1>6. Cardinality(0..(m - 1)) = Cardinality(L)
  BY <1>4, <1>5, FS_Bijection, Zenon DEF ExistsBijection
<1> QED
  BY <1>2, <1>6 DEF L

\* What is left of S without the first entries beyond max.
LEMMA LeftOver ==
  ASSUME NEW S \in SUBSET EntryType, IsFiniteSet(S),
         \A e, f \in S : e.id = f.id => e = f,
         NEW max \in OptNat
  PROVE  Cardinality({e \in S : ~(max # None /\ Rank(e, S) < Cardinality(S) - max)}) =
           IF max # None /\ max < Cardinality(S) THEN max ELSE Cardinality(S)
<1> DEFINE n == Cardinality(S)
           Left == {e \in S : ~(max # None /\ Rank(e, S) < Cardinality(S) - max)}
<1>1. n \in Nat /\ \A e \in S : Rank(e, S) \in Nat /\ Rank(e, S) < n
  BY RankFacts
<1>2. CASE max # None /\ max < n
  <2> DEFINE m == n - max
             L == {e \in S : Rank(e, S) < m}
  <2>1. max \in Nat
    BY <1>2 DEF OptNat
  <2> HIDE DEF n
  <2>2. m \in Nat /\ m <= n
    BY <1>1, <1>2, <2>1
  <2>3. Cardinality(L) = m
    <3> HIDE DEF m
    <3> QED
      BY <2>2, LowRanks, Zenon DEF n
  <2>4. Left = S \ L /\ S \cap L = L
    BY <1>2 DEF n
  <2> HIDE DEF L, Left
  <2>5. Cardinality(Left) = n - m
    <3> HIDE DEF m
    <3>1. Cardinality(S \ L) = Cardinality(S) - Cardinality(S \cap L)
      BY FS_Difference, Zenon
    <3> QED
      BY <2>3, <2>4, <3>1, Zenon DEF n
  <2>6. n - m = max
    BY <1>1, <2>1
  <2> QED
    BY <1>2, <2>5, <2>6 DEF n, Left
<1>3. CASE ~(max # None /\ max < n)
  <2>1. max # None => max \in Nat
    BY DEF OptNat
  <2> HIDE DEF n
  <2>2. \A e \in S : ~(max # None /\ Rank(e, S) < n - max)
    BY <1>1, <1>3, <2>1
  <2>3. Left = S
    BY <2>2 DEF n
  <2>4. Cardinality(Left) = n
    BY <2>3, Zenon DEF n
  <2> HIDE DEF Left
  <2>5. Cardinality(Left) = IF max # None /\ max < n THEN max ELSE n
    BY <1>3, <2>4, Zenon
  <2> QED
    BY <2>5 DEF n, Left
<1> QED
  BY <1>2, <1>3

\* Only a retention pass expires messages.
LEMMA OnlyRetentionExpires ==
  ASSUME [Next]_vars, expired' # expired
  PROVE  \E q \in Queues : ApplyRetention(q)
<1>1. ASSUME NEW q \in Queues, NEW policy \in Policies, Declare(q, policy)
      PROVE  expired' = expired
  BY <1>1, Zenon DEF Declare, history
<1>2. ASSUME NEW q \in Queues, NEW p \in Priorities, NEW at \in DeliverAts,
             NEW key \in DedupKeys \cup {None}, NEW ts \in {now} \cup ClientStamps,
             Publish(q, p, at, key, ts)
      PROVE  expired' = expired
  BY <1>2, Zenon DEF Publish
<1>3. ASSUME NEW q \in Queues, NEW tag \in 0..(nextId - 1),
             Ack(q, tag) \/ Nack(q, tag) \/ NackInvalidTag(q, tag)
      PROVE  expired' = expired
  BY <1>3, Zenon DEF Ack, Nack, NackInvalidTag, history
<1>4. ASSUME NEW q \in Queues, Consume(q) \/ PromoteScheduled(q)
      PROVE  expired' = expired
  BY <1>4, Zenon DEF Consume, PromoteScheduled, history
<1>5. CASE Sync \/ Restart \/ Tick \/ UNCHANGED vars
  BY <1>5, Zenon DEF Sync, Restart, Tick, vars, history
<1> QED
  BY <1>1, <1>2, <1>3, <1>4, <1>5, Zenon DEF Next

\* The entries that are not expired are the young ones.
LEMMA YoungRest ==
  ASSUME IndInv, NEW q \in Queues
  PROVE  /\ Young(q) = In(db, "main", q) \ Expired(db, q, now)
         /\ Young(q) \in SUBSET EntryType /\ IsFiniteSet(Young(q))
         /\ \A e, f \in Young(q) : e.id = f.id => e = f
         /\ PolicyOf(db, q).max_messages \in OptNat
<1>0. StoreOK(db, nextId) /\ IsFiniteSet(db.msgs) /\ db \in Store /\ now \in Int
  BY InvFacts DEF IndInv, TypeOK
<1> DEFINE age == PolicyOf(db, q).max_age_secs
           A == In(db, "main", q)
<1>1. PolicyOf(db, q).max_messages \in OptNat /\ age \in OptNat
  BY <1>0, StoreAssumption, ManagerAssumption, Zenon DEF PolicyOf, Store, PolicyType, DefaultPolicy, OptNat
<1>2. A \in SUBSET db.msgs /\ db.msgs \in SUBSET EntryType
  BY <1>0, Zenon DEF In, Store
<1>3. \A e \in A : e.msg.timestamp \in Int
  BY <1>2, Zenon DEF EntryType, Message
<1>4. age # None => age * MsPerSec \in Int
  BY <1>1, StoreAssumption DEF OptNat
<1> HIDE DEF A
<1>5. ASSUME NEW e \in A
      PROVE  (age # None => now - e.msg.timestamp < age * MsPerSec)
               <=> ~(age # None /\ now - e.msg.timestamp >= age * MsPerSec)
  BY <1>0, <1>3, <1>4
<1>6. Young(q) = A \ Expired(db, q, now)
  BY <1>5, Zenon DEF Young, Expired, A
<1>7. Young(q) \in SUBSET db.msgs
  BY <1>2, <1>6, Zenon
<1>8. IsFiniteSet(Young(q)) /\ \A e, f \in Young(q) : e.id = f.id => e = f
  BY <1>0, <1>7, FS_Subset, Zenon DEF StoreOK
<1> QED
  BY <1>1, <1>2, <1>6, <1>7, <1>8, Zenon DEF A

\* A retention pass leaves of its queue's ready messages the young ones that
\* are not among the first beyond max_messages.
LEMMA RetentionLeaves ==
  ASSUME IndInv, NEW q \in Queues, ApplyRetention(q)
  PROVE  LET max == PolicyOf(db, q).max_messages
         IN  /\ db.msgs \ db'.msgs \subseteq In(db, "main", q)
             /\ In(db', "main", q) =
                  {e \in Young(q) :
                     ~(max # None /\ Rank(e, Young(q)) < Cardinality(Young(q)) - max)}
<1> DEFINE X == Expired(db, q, now)
           Y == Excess(db, q, now)
           A == In(db, "main", q)
           max == PolicyOf(db, q).max_messages
<1>0. StoreOK(db, nextId) /\ nextId \in Nat
  BY InvFacts, Zenon
<1>1. db' = RemoveAll(db, X \cup Y)
  BY Zenon DEF ApplyRetention, Write
<1>2. db'.msgs = db.msgs \ (X \cup Y)
  BY <1>0, <1>1, RemoveOK
<1>3. Young(q) = A \ X
  BY YoungRest
<1>4. Y = {e \in A \ X : max # None /\ Rank(e, A \ X) < Cardinality(A \ X) - max}
  BY DEF Excess
<1>5. X \subseteq A
  BY DEF Expired
<1>6. In(db', "main", q) = (A \ X) \ Y
  <2> HIDE DEF X, Y
  <2> QED
    BY <1>2, Zenon DEF In
<1>7. db.msgs \ db'.msgs \subseteq A
  <2> HIDE DEF X, A, max
  <2> QED
    BY <1>2, <1>4, <1>5, Zenon
<1> HIDE DEF X, Y, A, max
<1>8. In(db', "main", q) =
        {e \in Young(q) :
           ~(max # None /\ Rank(e, Young(q)) < Cardinality(Young(q)) - max)}
  BY <1>3, <1>4, <1>6
<1> QED
  BY <1>7, <1>8, Zenon DEF A, max

\* A retention pass leaves of a queue's ready messages none that is too old,
\* and of the others exactly max_messages or all of them.
THEOREM RetainsPolicy == Spec => RetentionExact
<1>1. IndInv /\ [Next]_vars => [RetainsExactly]_vars
  <2> SUFFICES ASSUME IndInv, [Next]_vars, expired' # expired,
                      NEW r \in {e.queue : e \in db.msgs \ db'.msgs}
               PROVE  LET max  == PolicyOf(db, r).max_messages
                          left == In(db', "main", r)
                      IN  /\ left \subseteq Young(r)
                          /\ Cardinality(left) =
                               IF max # None /\ max < Cardinality(Young(r))
                                 THEN max ELSE Cardinality(Young(r))
    BY Zenon DEF RetainsExactly
  <2>1. PICK q \in Queues : ApplyRetention(q)
    BY OnlyRetentionExpires, Zenon
  <2> DEFINE max  == PolicyOf(db, q).max_messages
             left == In(db', "main", q)
             Y == Young(q)
  <2>2. /\ db.msgs \ db'.msgs \subseteq In(db, "main", q)
        /\ left = {e \in Y : ~(max # None /\ Rank(e, Y) < Cardinality(Y) - max)}
    BY <2>1, RetentionLeaves, Zenon
  <2>3. r = q
    BY <2>2, Zenon DEF In
  <2>4. /\ Y \in SUBSET EntryType /\ IsFiniteSet(Y) /\ max \in OptNat
        /\ \A e, f \in Y : e.id = f.id => e = f
    BY YoungRest, Zenon
  <2> HIDE DEF max, left, Y
  <2>5. Cardinality(left) = IF max # None /\ max < Cardinality(Y) THEN max ELSE Cardinality(Y)
    BY <2>2, <2>4, LeftOver, Zenon
  <2>6. left \subseteq Y
    BY <2>2, Zenon
  <2> QED
    BY <2>3, <2>5, <2>6, Zenon DEF max, left, Y
<1> QED
  BY <1>1, Invariance, PTL DEF Spec, RetentionExact

-----------------------------------------------------------------------------
(* When, how often and in which order *)

\* Not scheduled, and not among the deliveries H.
FreshIn(e, H) == e.msg.deliver_at = None /\ \A h \in H : h.uid # e.msg.uid

\* What holds of an entry e of store s at time t, when H was handed out: its
\* key is that of its tree, it is not early, it has the attempts its tree
\* stands for, and it was handed out if it ever left the main tree.
EntryOK(e, s, t, H) ==
  /\ e.tree = "scheduled" => e.msg.deliver_at # None /\ e.hi = e.msg.deliver_at
  /\ e.tree = "main" => e.hi = KeyByte(e.msg.priority)
  /\ e.tree # "scheduled" /\ e.msg.deliver_at # None => e.msg.deliver_at <= t
  /\ LET max == PolicyOf(s, e.queue).max_delivery_attempts
     IN  IF e.tree = "dlq"
           THEN max # None /\ e.msg.delivery_attempts = max
           ELSE (max # None /\ max > 0) => e.msg.delivery_attempts < max
  /\ e.tree \in {"inflight", "dlq"} => \E h \in H : h.uid = e.msg.uid

\* Fresh messages have ids in the order in which they were published.
FreshInOrder(s, H) ==
  \A e, f \in s.msgs : FreshIn(e, H) /\ FreshIn(f, H) =>
    /\ e.msg.uid < f.msg.uid => e.id < f.id
    /\ e.msg.uid = f.msg.uid => e = f

OneRecordPerKey(s) ==
  \A c, d \in s.dedup : c.queue = d.queue /\ c.key = d.key => c = d

StoreGood(s, t, H) ==
  /\ \A e \in s.msgs : EntryOK(e, s, t, H)
  /\ FreshInOrder(s, H)
  /\ OneRecordPerKey(s)

\* Every store a crash may leave is good.
DiskGood == \A s \in disk : StoreGood(s, now, handed)

-----------------------------------------------------------------------------
(* Stores stay good *)

\* A store that is good stays so as time passes and messages are handed out.
LEMMA GoodLater ==
  ASSUME NEW s \in Store, NEW t \in Nat, NEW u \in Nat, t <= u,
         NEW H, NEW K, H \subseteq K, StoreGood(s, t, H)
  PROVE  StoreGood(s, u, K)
<1>1. ASSUME NEW e \in s.msgs PROVE EntryOK(e, s, u, K)
  <2>1. EntryOK(e, s, t, H)
    BY DEF StoreGood
  <2>2. e.msg.deliver_at # None => e.msg.deliver_at \in Int
    BY Zenon DEF Store, EntryType, Message
  <2>3. e.tree # "scheduled" /\ e.msg.deliver_at # None => e.msg.deliver_at <= u
    BY <2>1, <2>2 DEF EntryOK
  <2> QED
    BY <2>1, <2>3, Zenon DEF EntryOK
<1>2. \A e : FreshIn(e, K) => FreshIn(e, H)
  BY DEF FreshIn
<1>3. FreshInOrder(s, K)
  BY <1>2, Zenon DEF StoreGood, FreshInOrder
<1> QED
  BY <1>1, <1>3 DEF StoreGood

\* An entry keeps its standing in a store with the same policy for its queue.
LEMMA SamePolicy ==
  ASSUME NEW s, NEW w, NEW e, NEW t, NEW H, EntryOK(e, s, t, H),
         w.retention[e.queue] = s.retention[e.queue]
  PROVE  EntryOK(e, w, t, H)
<1>1. PolicyOf(w, e.queue) = PolicyOf(s, e.queue)
  BY Zenon DEF PolicyOf
<1> QED
  BY <1>1, Zenon DEF EntryOK

\* A write that puts only messages handed out before, or scheduled ones, under
\* new entries, and touches no dedup record, leaves a good store.
LEMMA GoodMove ==
  ASSUME NEW s, NEW w, NEW t, NEW H, StoreGood(s, t, H),
         \A e \in s.msgs : w.retention[e.queue] = s.retention[e.queue],
         \A f \in w.msgs \ s.msgs : EntryOK(f, w, t, H) /\ ~FreshIn(f, H),
         w.dedup = s.dedup
  PROVE  StoreGood(w, t, H)
<1>1. \A e \in w.msgs : EntryOK(e, w, t, H)
  BY SamePolicy DEF StoreGood
<1>2. FreshInOrder(w, H)
  BY Zenon DEF StoreGood, FreshInOrder
<1>3. OneRecordPerKey(w)
  BY Zenon DEF StoreGood, OneRecordPerKey
<1> QED
  BY <1>1, <1>2, <1>3, Zenon DEF StoreGood

\* The entry that promotion or recovery makes of e is in order in any store
\* with e's policy, once e's time has come.
LEMMA RequeuedOK ==
  ASSUME NEW s \in Store, NEW w, NEW e \in s.msgs, NEW S, NEW base, NEW t \in Nat, NEW H,
         EntryOK(e, s, t, H), e.tree \in {"inflight", "scheduled"},
         e.tree = "scheduled" => e.hi <= t,
         w.retention[e.queue] = s.retention[e.queue]
  PROVE  /\ EntryOK(Requeued(e, S, base), w, t, H)
         /\ ~FreshIn(Requeued(e, S, base), H)
<1> DEFINE f == Requeued(e, S, base)
<1>1. /\ f.tree = "main" /\ f.queue = e.queue /\ f.msg = e.msg
      /\ f.hi = KeyByte(e.msg.priority)
  BY Zenon DEF Requeued, Entry
<1> HIDE DEF f
<1>2. e.msg.deliver_at # None => e.msg.deliver_at <= t
  BY Zenon DEF EntryOK
<1>3. PolicyOf(w, f.queue) = PolicyOf(s, e.queue)
  BY <1>1 DEF PolicyOf
<1>4. EntryOK(f, w, t, H)
  BY <1>1, <1>2, <1>3, Zenon DEF EntryOK
<1>5. ~FreshIn(f, H)
  BY <1>1 DEF EntryOK, FreshIn
<1> QED
  BY <1>4, <1>5, Zenon DEF f

-----------------------------------------------------------------------------
(* Every action leaves good stores on disk *)

\* The facts about the running store that the steps below start from.
LEMMA GoodFacts ==
  ASSUME IndInv, DiskGood
  PROVE  /\ db \in disk /\ db \in Store /\ disk \subseteq Store
         /\ StoreOK(db, nextId) /\ StoreGood(db, now, handed)
         /\ nextId \in Nat /\ now \in Nat /\ published \in Nat
BY Zenon DEF IndInv, TypeOK, DiskGood

\* Removing messages leaves a good store.
LEMMA GoodRemove ==
  ASSUME NEW s \in Store, NEW t, NEW H, StoreGood(s, t, H), NEW D
  PROVE  StoreGood(RemoveAll(s, D), t, H)
<1> DEFINE w == RemoveAll(s, D)
<1>1. w.retention = s.retention /\ w.dedup = s.dedup /\ w.msgs \subseteq s.msgs
  BY WriteFields
<1> HIDE DEF w
<1>2. StoreGood(w, t, H)
  BY <1>1, GoodMove, Zenon
<1> QED
  BY <1>2, Zenon DEF w

\* declare_queue gives a policy only to a queue that has no message.
LEMMA DeclareGood ==
  ASSUME IndInv, DiskGood, NEW q \in Queues, NEW policy \in Policies, Declare(q, policy)
  PROVE  DiskGood'
<1> DEFINE s1 == DeclareMeta(db, q)
           s2 == DeclareRetention(s1, q, policy)
<1>1. /\ disk' = disk \cup {s1} \cup {s2} /\ now' = now /\ handed' = handed
      /\ q \notin db.queues
  BY DEF Declare, Write, history
<1>2. /\ s1 \in Store /\ s1.msgs = db.msgs /\ s1.dedup = db.dedup
      /\ s1.retention = db.retention
  BY GoodFacts, SMTT(40) DEF DeclareMeta, Store
<1>3. /\ s2.msgs = db.msgs /\ s2.dedup = db.dedup
      /\ \A r \in Queues : r # q => s2.retention[r] = db.retention[r]
  BY <1>2, Zenon DEF DeclareRetention, Store
<1>4. \A e \in db.msgs : e.queue \in Queues /\ e.queue # q
  BY <1>1, GoodFacts, Zenon DEF StoreOK, Store, EntryType
<1> HIDE DEF s1, s2
<1>5. StoreGood(s1, now, handed) /\ StoreGood(s2, now, handed)
  BY <1>2, <1>3, <1>4, GoodFacts, GoodMove, Zenon
<1> QED
  BY <1>1, <1>5, Zenon DEF DiskGood

\* ack leaves good stores.
LEMMA AckGood ==
  ASSUME IndInv, DiskGood, NEW q \in Queues, NEW tag, Ack(q, tag)
  PROVE  DiskGood'
<1>1. PICK e : db' = RemoveAll(db, {e}) /\ disk' = disk \cup {db'}
  BY ZenonT(40) DEF Ack, Write
<1>2. now' = now /\ handed' = handed
  BY DEF Ack
<1>3. StoreGood(db', now, handed)
  BY <1>1, GoodFacts, GoodRemove, Zenon
<1> QED
  BY <1>1, <1>2, <1>3, Zenon DEF DiskGood

\* apply_retention leaves good stores, also when it stops halfway.
LEMMA RetentionGood ==
  ASSUME IndInv, DiskGood, NEW q \in Queues, ApplyRetention(q)
  PROVE  DiskGood'
<1>1. /\ \A w \in disk' : w \in disk \/ \E P : w = RemoveAll(db, P)
      /\ now' = now /\ handed' = handed
  BY ZenonT(40) DEF ApplyRetention, Write
<1>2. \A P : StoreGood(RemoveAll(db, P), now, handed)
  BY GoodFacts, GoodRemove, Zenon
<1> QED
  BY <1>1, <1>2, Zenon DEF DiskGood

\* A flush, the clock and a failed nack leave good stores.
LEMMA IdleGood ==
  ASSUME IndInv, DiskGood, now' \in Nat, now <= now', handed' = handed,
         disk' = disk \/ disk' = {db}
  PROVE  DiskGood'
<1>1. disk' \subseteq disk
  BY GoodFacts, Zenon
<1>2. \A s \in disk : StoreGood(s, now', handed)
  BY GoodFacts, GoodLater, Zenon DEF DiskGood
<1> QED
  BY <1>1, <1>2, Zenon DEF DiskGood

\* A message that publish stores is in order, at once or scheduled.
LEMMA PublishEntryOK ==
  ASSUME NEW q \in Queues, NEW m \in Message, NEW id, NEW t \in Nat, NEW s \in Store, NEW H,
         m.delivery_attempts = 0
  PROVE  EntryOK(PublishEntry(q, m, id, t), s, t, H)
<1> DEFINE e == PublishEntry(q, m, id, t)
<1>1. \/ /\ e.tree = "scheduled" /\ e.hi = m.deliver_at /\ m.deliver_at # None
      \/ /\ e.tree = "main" /\ e.hi = KeyByte(m.priority)
         /\ m.deliver_at # None => ~(m.deliver_at > t)
  BY Zenon DEF PublishEntry, Entry
<1>2. e.msg = m /\ e.queue = q
  BY DEF PublishEntry, Entry
<1>3. m.deliver_at # None => m.deliver_at \in Int
  BY DEF Message
<1> HIDE DEF e
<1> DEFINE max == PolicyOf(s, q).max_delivery_attempts
<1>4. max # None => max \in Nat
  <2>1. PolicyOf(s, q) \in PolicyType
    BY StoreAssumption, Zenon DEF PolicyOf, Store, DefaultPolicy, PolicyType, OptNat
  <2> QED
    BY <2>1, Zenon DEF PolicyType, OptNat
<1> HIDE DEF max
<1>5. (max # None /\ max > 0) => e.msg.delivery_attempts < max
  BY <1>2, <1>4, Zenon
<1>6. e.tree # "scheduled" /\ e.msg.deliver_at # None => e.msg.deliver_at <= t
  BY <1>1, <1>2, <1>3
<1>7. EntryOK(e, s, t, H)
  BY <1>1, <1>2, <1>5, <1>6, Zenon DEF EntryOK, max
<1> QED
  BY <1>7, Zenon DEF e

\* record_dedup_key leaves one record per key.
LEMMA RecordOnce ==
  ASSUME NEW s \in Store, NEW q, NEW m, NEW t, OneRecordPerKey(s)
  PROVE  OneRecordPerKey(RecordDedupKey(s, q, m, t))
<1> DEFINE rec == [queue |-> q, key |-> m.dedup_key, at |-> t, by |-> m.uid]
           kept == {d \in s.dedup : ~(d.queue = q /\ d.key = m.dedup_key)}
           w == RecordDedupKey(s, q, m, t)
<1>1. CASE w = s
  BY <1>1
<1>2. CASE w = [s EXCEPT !.dedup = kept \cup {rec}]
  <2>1. w.dedup = kept \cup {rec}
    BY <1>2 DEF Store
  <2>2. rec.queue = q /\ rec.key = m.dedup_key
    OBVIOUS
  <2>3. \A d \in kept : d \in s.dedup /\ ~(d.queue = q /\ d.key = m.dedup_key)
    OBVIOUS
  <2> HIDE DEF rec, kept, w
  <2>4. OneRecordPerKey(w)
    BY <2>1, <2>2, <2>3, Zenon DEF OneRecordPerKey
  <2> QED
    BY <2>4 DEF w
<1> QED
  BY <1>1, <1>2, Zenon DEF RecordDedupKey

\* A store to which publish added a message is good.
LEMMA GoodPublish ==
  ASSUME IndInv, DiskGood, NEW e \in EntryType, NEW w,
         e.id = nextId, e.msg.uid = published,
         w.msgs = db.msgs \cup {e}, w.retention = db.retention,
         EntryOK(e, w, now, handed), OneRecordPerKey(w)
  PROVE  StoreGood(w, now, handed)
<1>1. \A x \in w.msgs : EntryOK(x, w, now, handed)
  <2>1. \A x \in db.msgs : EntryOK(x, w, now, handed)
    BY GoodFacts, SamePolicy, Zenon DEF StoreGood
  <2> QED
    BY <2>1
<1>2. \A x \in db.msgs : /\ x.id \in Nat /\ x.msg.uid \in Nat
                         /\ x.id < nextId /\ x.msg.uid < published
  BY GoodFacts, Zenon DEF IndInv, OnlyAccepted, StoreOK, Store, EntryType, Message
<1>3. FreshInOrder(w, handed)
  <2> SUFFICES ASSUME NEW x \in w.msgs, NEW y \in w.msgs,
                      FreshIn(x, handed), FreshIn(y, handed)
               PROVE  /\ x.msg.uid < y.msg.uid => x.id < y.id
                      /\ x.msg.uid = y.msg.uid => x = y
    BY Zenon DEF FreshInOrder
  <2>1. CASE x \in db.msgs /\ y \in db.msgs
    BY <2>1, GoodFacts, Zenon DEF StoreGood, FreshInOrder
  <2>2. CASE x = e \/ y = e
    BY <1>2, <2>2, GoodFacts, SMTT(40)
  <2> QED
    BY <2>1, <2>2, Zenon
<1> QED
  BY <1>1, <1>3, Zenon DEF StoreGood

\* publish leaves good stores, also when it stops before the dedup record.
LEMMA PublishGood ==
  ASSUME IndInv, DiskGood, NEW q \in Queues, NEW p \in Priorities, NEW at \in DeliverAts,
         NEW key \in DedupKeys \cup {None}, NEW ts \in {now} \cup ClientStamps,
         Publish(q, p, at, key, ts)
  PROVE  DiskGood'
<1> DEFINE m == NewMessage(p, at, key, ts)
<1>pick. PICK e \in EntryType, s1 \in Store : Publishing(e, s1, q, m)
  BY PublishEffect, Zenon
<1>1. /\ e \in EntryType /\ s1 \in Store
      /\ e.id = nextId /\ e.queue = q /\ e.msg.uid = published
      /\ s1.msgs = db.msgs \cup {e} /\ s1.dedup = db.dedup
      /\ db' \in Store /\ db'.msgs = s1.msgs
      /\ disk' = disk \cup {s1} \cup {db'}
      /\ e = PublishEntry(q, m, nextId, now)
      /\ db' = RecordDedupKey(s1, q, m, now)
      /\ s1.retention = db.retention /\ db'.retention = db.retention
  BY <1>pick, Zenon DEF Publishing
<1>2. now' = now /\ handed' = handed
  BY Zenon DEF Publish
<1>3. m \in Message /\ m.delivery_attempts = 0
  <2>1. now \in Int /\ published \in Nat
    BY GoodFacts
  <2>2. p \in Nat /\ at \in Int \cup {None} /\ ts \in Int
    BY <2>1, ManagerAssumption, Zenon
  <2> QED
    BY <2>1, <2>2, Zenon DEF NewMessage, Message
<1> HIDE DEF m
<1>4. EntryOK(e, s1, now, handed) /\ EntryOK(e, db', now, handed)
  <2>1. now \in Nat /\ s1 \in Store /\ db' \in Store
    BY <1>1, GoodFacts, Zenon
  <2>2. /\ EntryOK(PublishEntry(q, m, nextId, now), s1, now, handed)
        /\ EntryOK(PublishEntry(q, m, nextId, now), db', now, handed)
    BY <1>3, <2>1, PublishEntryOK, Zenon
  <2> QED
    BY <1>1, <2>2, Zenon
<1>5. OneRecordPerKey(s1)
  BY <1>1, GoodFacts, Zenon DEF StoreGood, OneRecordPerKey
<1>6. OneRecordPerKey(db')
  BY <1>1, <1>5, RecordOnce, Zenon
<1>7. StoreGood(s1, now, handed) /\ StoreGood(db', now, handed)
  BY <1>1, <1>4, <1>5, <1>6, GoodPublish, Zenon
<1> QED
  BY <1>1, <1>2, <1>7, Zenon DEF DiskGood

\* A transaction that replaces e by f, for a message that was handed out.
LEMMA GoodReplace ==
  ASSUME NEW s, NEW w, NEW t, NEW H, StoreGood(s, t, H), NEW f, NEW E,
         w.msgs = (s.msgs \ E) \cup {f}, w.dedup = s.dedup, w.retention = s.retention,
         EntryOK(f, w, t, H), \E h \in H : h.uid = f.msg.uid
  PROVE  StoreGood(w, t, H)
<1>1. ~FreshIn(f, H)
  BY Zenon DEF FreshIn
<1>2. \A x \in w.msgs \ s.msgs : EntryOK(x, w, t, H) /\ ~FreshIn(x, H)
  BY <1>1
<1> QED
  BY <1>2, GoodMove, Zenon

\* consume leaves good stores: what it takes is handed out from then on.
LEMMA ConsumeGood ==
  ASSUME IndInv, DiskGood, NEW q \in Queues, Consume(q)
  PROVE  DiskGood'
<1>pick. PICK e \in db.msgs, f \in EntryType : Consuming(e, f, q)
  BY ConsumeEffect, Zenon
<1>1. /\ e \in db.msgs /\ f \in EntryType
      /\ e.tree = "main" /\ e.queue = q
      /\ f.tree = "inflight" /\ f.queue = q /\ f.msg = e.msg
      /\ db'.msgs = (db.msgs \ {e}) \cup {f}
      /\ db'.dedup = db.dedup /\ db'.retention = db.retention
      /\ disk' = disk \cup {db'}
      /\ handed' = handed \cup {[queue |-> q, tag |-> e.id, uid |-> e.msg.uid]}
  BY <1>pick, Zenon DEF Consuming
<1>2. now' = now /\ now <= now
  <2>1. now' = now /\ now \in Nat
    BY GoodFacts, Zenon DEF Consume
  <2> QED
    BY <2>1
<1>3. \A s \in disk : StoreGood(s, now, handed')
  <2>1. handed \subseteq handed'
    BY <1>1
  <2> QED
    BY <1>2, <2>1, GoodFacts, GoodLater, Zenon DEF DiskGood
<1>4. \E h \in handed' : h.uid = f.msg.uid
  <2>1. [queue |-> q, tag |-> e.id, uid |-> e.msg.uid].uid = f.msg.uid
    BY <1>1, Zenon
  <2> QED
    BY <1>1, <2>1, Zenon
<1>5. EntryOK(f, db', now, handed')
  <2>1. EntryOK(e, db, now, handed')
    BY <1>3, GoodFacts, Zenon DEF StoreGood
  <2>2. PolicyOf(db', f.queue) = PolicyOf(db, e.queue)
    BY <1>1, Zenon DEF PolicyOf
  <2> QED
    BY <1>1, <1>4, <2>1, <2>2, Zenon DEF EntryOK
<1>6. StoreGood(db', now, handed')
  <2>1. StoreGood(db, now, handed')
    BY <1>3, GoodFacts, Zenon
  <2> QED
    BY <1>1, <1>4, <1>5, <2>1, GoodReplace, Zenon
<1> QED
  BY <1>1, <1>2, <1>3, <1>6, Zenon DEF DiskGood

\* nack leaves good stores: the threshold is met, not passed.
LEMMA NackGood ==
  ASSUME IndInv, DiskGood, NEW q \in Queues, NEW tag, Nack(q, tag)
  PROVE  DiskGood'
<1>pick. PICK e \in db.msgs, f \in EntryType : Nacking(e, f, q)
  BY NackEffect, Zenon
<1>1. /\ e \in db.msgs /\ f \in EntryType
      /\ e.tree = "inflight" /\ e.queue = q
      /\ f.tree \in {"main", "dlq"} /\ f.queue = q /\ f.msg.uid = e.msg.uid
      /\ f.tree = NackTree(PolicyOf(db, q), f.msg.delivery_attempts)
      /\ f.msg.delivery_attempts = e.msg.delivery_attempts + 1
      /\ f.msg.deliver_at = e.msg.deliver_at
      /\ f.hi = KeyByte(f.msg.priority) /\ db'.retention = db.retention
      /\ db'.msgs = (db.msgs \ {e}) \cup {f}
      /\ db'.dedup = db.dedup
      /\ disk' = disk \cup {db'}
  BY <1>pick, Zenon DEF Nacking
<1>2. now' = now /\ handed' = handed
  BY Zenon DEF Nack, history
<1>3. EntryOK(e, db, now, handed)
  BY GoodFacts DEF StoreGood
<1>4. \E h \in handed : h.uid = f.msg.uid
  BY <1>1, <1>3, Zenon DEF EntryOK
<1> DEFINE max == PolicyOf(db, q).max_delivery_attempts
<1>5. /\ max # None => max \in Nat
      /\ e.msg.delivery_attempts \in Nat
  <2>1. PolicyOf(db, q) \in PolicyType
    BY GoodFacts, StoreAssumption, Zenon DEF PolicyOf, Store, DefaultPolicy, PolicyType, OptNat
  <2>2. e \in EntryType
    BY GoodFacts DEF Store
  <2> QED
    BY <2>1, <2>2, Zenon DEF PolicyType, OptNat, EntryType, Message
<1>6. (max # None /\ max > 0) => e.msg.delivery_attempts < max
  BY <1>1, <1>3, Zenon DEF EntryOK
<1>7. f.tree = IF max # None /\ max > 0 /\ f.msg.delivery_attempts >= max
                 THEN "dlq" ELSE "main"
  BY <1>1, Zenon DEF NackTree
<1> HIDE DEF max
<1>8. IF f.tree = "dlq"
        THEN max # None /\ f.msg.delivery_attempts = max
        ELSE (max # None /\ max > 0) => f.msg.delivery_attempts < max
  BY <1>1, <1>5, <1>6, <1>7
<1>9. PolicyOf(db', f.queue).max_delivery_attempts = max
  BY <1>1, Zenon DEF PolicyOf, max
<1>10. EntryOK(f, db', now, handed)
  BY <1>1, <1>3, <1>4, <1>8, <1>9, Zenon DEF EntryOK
<1>11. StoreGood(db', now, handed)
  BY <1>1, <1>4, <1>10, GoodFacts, GoodReplace, Zenon
<1> QED
  BY <1>1, <1>2, <1>11, Zenon DEF DiskGood

\* promote_scheduled leaves good stores, however far it got.
LEMMA PromoteGood ==
  ASSUME IndInv, DiskGood, NEW q \in Queues, PromoteScheduled(q)
  PROVE  DiskGood'
<1> DEFINE S == Due(db, q, now)
<1>1. /\ \A w \in disk' : w \in disk \/ \E D \in SUBSET S : w = Promote(db, S, D, nextId)
      /\ now' = now /\ handed' = handed
  <2>1. /\ disk' = disk \cup {Promote(db, S, {e \in S : Rank(e, S) < n}, nextId) :
                                n \in 0..Cardinality(S)} \cup {Promote(db, S, S, nextId)}
        /\ now' = now /\ handed' = handed
    BY DEF PromoteScheduled, Write, history
  <2> HIDE DEF S
  <2> QED
    BY <2>1, Zenon
<1>2. \A e \in S : e \in db.msgs /\ e.tree = "scheduled" /\ e.hi <= now
  BY DEF Due, In
<1> HIDE DEF S
<1>3. ASSUME NEW D \in SUBSET S
      PROVE  StoreGood(Promote(db, S, D, nextId), now, handed)
  <2> DEFINE N == RequeuedSet(D, S, nextId)
             w == Promote(db, S, D, nextId)
  <2>1. N \in SUBSET EntryType
    <3>1. RequeuedSet(S, S, nextId) \in SUBSET EntryType
      BY <1>2, GoodFacts, RenumberedFacts, Zenon
    <3> QED
      BY <3>1, Zenon DEF RequeuedSet
  <2>2. /\ w.retention = db.retention /\ w.dedup = db.dedup
        /\ w.msgs \subseteq db.msgs \cup N
    <3>1. w = InsertAll(RemoveAll(db, D), N)
      BY DEF Promote, RequeuedSet
    <3> DEFINE r == RemoveAll(db, D)
    <3> HIDE DEF w, N
    <3>2. /\ r \in Store /\ r.retention = db.retention /\ r.dedup = db.dedup
          /\ r.msgs = db.msgs \ D
      BY <2>1, GoodFacts, WriteFields, Zenon
    <3> HIDE DEF r
    <3>3. /\ InsertAll(r, N).retention = r.retention /\ InsertAll(r, N).dedup = r.dedup
          /\ InsertAll(r, N).msgs \subseteq r.msgs \cup N
      BY <2>1, <3>2, WriteFields, Zenon
    <3> QED
      BY <3>1, <3>2, <3>3, Zenon DEF r
  <2> HIDE DEF w
  <2>3. \A e \in db.msgs : EntryOK(e, db, now, handed)
    BY GoodFacts DEF StoreGood
  <2>4. \A e \in D : /\ EntryOK(Requeued(e, S, nextId), w, now, handed)
                     /\ ~FreshIn(Requeued(e, S, nextId), handed)
    BY <1>2, <2>2, <2>3, GoodFacts, RequeuedOK, Zenon
  <2>5. \A f \in N : EntryOK(f, w, now, handed) /\ ~FreshIn(f, handed)
    BY <2>4, Zenon DEF RequeuedSet
  <2> HIDE DEF N
  <2>6. StoreGood(w, now, handed)
    BY <2>2, <2>5, GoodFacts, GoodMove, Zenon
  <2> QED
    BY <2>6 DEF w
<1> QED
  BY <1>1, <1>3, Zenon DEF DiskGood

\* A crash and the recovery after it leave good stores, however far it got.
LEMMA RestartGood ==
  ASSUME IndInv, DiskGood, Restart
  PROVE  DiskGood'
<1>1. PICK s \in disk :
        disk' = {Recover(s, p[1], p[2], nextId) : p \in RecoveryProgress(s)}
  BY Zenon DEF Restart
<1>2. now' = now /\ handed' = handed
  BY DEF Restart
<1>3. s \in Store /\ StoreGood(s, now, handed) /\ now \in Nat /\ nextId \in Nat
  BY GoodFacts, Zenon DEF DiskGood
<1> DEFINE I == Inflight(s)
<1>4. I \in SUBSET s.msgs /\ \A e \in I : e.tree = "inflight"
  BY DEF Inflight
<1>5. ASSUME NEW C \in SUBSET I, NEW R
      PROVE  StoreGood(Recover(s, C, R, nextId), now, handed)
  <2> DEFINE N == RequeuedSet(C, I, nextId)
             v == InsertAll(s, N)
             w == RemoveAll(v, R)
  <2>1. N \in SUBSET EntryType
    <3>1. RequeuedSet(I, I, nextId) \in SUBSET EntryType
      BY <1>4, RenumberedFacts, Zenon
    <3> QED
      BY <3>1, Zenon DEF RequeuedSet
  <2>2. w = Recover(s, C, R, nextId)
    BY Zenon DEF Recover, RequeuedSet
  <2> HIDE DEF I
  <2>3. /\ v \in Store /\ v.retention = s.retention /\ v.dedup = s.dedup
        /\ v.msgs \subseteq s.msgs \cup N
    BY <1>3, <2>1, WriteFields, Zenon
  <2> HIDE DEF v
  <2>4. \A e \in C : /\ EntryOK(Requeued(e, I, nextId), v, now, handed)
                     /\ ~FreshIn(Requeued(e, I, nextId), handed)
    <3>1. \A e \in s.msgs : EntryOK(e, s, now, handed)
      BY <1>3, Zenon DEF StoreGood
    <3> QED
      BY <1>3, <1>4, <2>3, <3>1, RequeuedOK, Zenon
  <2>5. \A f \in N : EntryOK(f, v, now, handed) /\ ~FreshIn(f, handed)
    BY <2>4, Zenon DEF RequeuedSet
  <2> HIDE DEF N
  <2>6. StoreGood(v, now, handed)
    BY <1>3, <2>3, <2>5, GoodMove, Zenon
  <2>7. StoreGood(w, now, handed)
    BY <2>3, <2>6, GoodRemove, Zenon
  <2> QED
    BY <2>2, <2>7, Zenon
<1>6. \A p \in RecoveryProgress(s) : p[1] \in SUBSET I
  BY DEF RecoveryProgress
<1> HIDE DEF I
<1>7. \A p \in RecoveryProgress(s) : StoreGood(Recover(s, p[1], p[2], nextId), now, handed)
  BY <1>5, <1>6, Zenon
<1> QED
  BY <1>1, <1>2, <1>7, Zenon DEF DiskGood

\* Every step leaves good stores on disk.
LEMMA NextDiskGood == IndInv /\ DiskGood /\ [Next]_vars => DiskGood'
<1> SUFFICES ASSUME IndInv, DiskGood, [Next]_vars PROVE DiskGood'
  OBVIOUS
<1>1. ASSUME NEW q \in Queues, NEW policy \in Policies, Declare(q, policy)
      PROVE  DiskGood'
  BY <1>1, DeclareGood, Zenon
<1>2. ASSUME NEW q \in Queues, NEW p \in Priorities, NEW at \in DeliverAts,
             NEW key \in DedupKeys \cup {None}, NEW ts \in {now} \cup ClientStamps,
             Publish(q, p, at, key, ts)
      PROVE  DiskGood'
  BY <1>2, PublishGood, Zenon
<1>3. ASSUME NEW q \in Queues, Consume(q) PROVE DiskGood'
  BY <1>3, ConsumeGood, Zenon
<1>4. ASSUME NEW q \in Queues, NEW tag \in 0..(nextId - 1), Ack(q, tag) \/ Nack(q, tag)
      PROVE  DiskGood'
  BY <1>4, AckGood, NackGood, Zenon
<1>5. ASSUME NEW q \in Queues, PromoteScheduled(q) PROVE DiskGood'
  BY <1>5, PromoteGood
<1>6. ASSUME NEW q \in Queues, ApplyRetention(q) PROVE DiskGood'
  BY <1>6, RetentionGood
<1>7. CASE Restart
  BY <1>7, RestartGood, Zenon
<1>8. ASSUME \/ UNCHANGED vars
             \/ Tick
             \/ Sync
             \/ \E q \in Queues, tag \in 0..(nextId - 1) : NackInvalidTag(q, tag)
      PROVE  DiskGood'
  <2>0. now \in Nat /\ now <= now
    BY GoodFacts
  <2>1. now' \in Nat /\ now <= now' /\ handed' = handed /\ (disk' = disk \/ disk' = {db})
    <3>1. CASE Tick
      BY <2>0, <3>1 DEF Tick, history
    <3>2. CASE Sync
      BY <2>0, <3>2, Zenon DEF Sync, vars, history
    <3>3. CASE UNCHANGED vars
      BY <2>0, <3>3, Zenon DEF vars, history
    <3>4. ASSUME NEW q \in Queues, NEW tag \in 0..(nextId - 1), NackInvalidTag(q, tag)
          PROVE  now' = now /\ handed' = handed /\ disk' = disk
      BY <3>4, Zenon DEF NackInvalidTag, vars, history
    <3> QED
      BY <1>8, <2>0, <3>1, <3>2, <3>3, <3>4, Zenon
  <2> QED
    BY <2>1, IdleGood, Zenon
<1> QED
  BY <1>1, <1>2, <1>3, <1>4, <1>5, <1>6, <1>7, <1>8, Zenon DEF Next

-----------------------------------------------------------------------------
(* Time, attempts and order *)

\* An empty data directory is good.
LEMMA InitDiskGood == Init => DiskGood
<1>1. EmptyStore.msgs = {} /\ EmptyStore.dedup = {}
  BY DEF EmptyStore
<1>2. ASSUME Init PROVE disk = {EmptyStore}
  BY <1>2, Zenon DEF Init
<1> QED
  BY <1>1, <1>2, Zenon DEF DiskGood, StoreGood, FreshInOrder, OneRecordPerKey

\* Every store a crash may leave is good in every reachable state.
LEMMA AlwaysGood == Spec => []DiskGood
BY InitDiskGood, NextDiskGood, Invariance, PTL DEF Spec

\* A scheduled message does not become ready, deliverable or dead before its
\* time, whatever publish, promote_scheduled, recover_inflight and crashes do.
THEOREM NotBeforeItsTime == Spec => []NeverEarly
<1>1. DiskGood => NeverEarly
  BY Zenon DEF DiskGood, StoreGood, EntryOK, NeverEarly
<1> QED
  BY <1>1, AlwaysGood, PTL

\* nack dead-letters on exactly the max_delivery_attempts-th attempt, although
\* the policy is read again on every nack and crashes undo nacks.
THEOREM DeadLetterExact == Spec => []DeadLetteredOnTime
<1>1. DiskGood => DeadLetteredOnTime
  BY Zenon DEF DiskGood, StoreGood, EntryOK, DeadLetteredOnTime
<1> QED
  BY <1>1, AlwaysGood, PTL

\* A consume takes a message that none of those left behind should precede.
LEMMA ConsumeTakesFirst ==
  ASSUME IndInv, DiskGood, NEW q \in Queues, Consume(q)
  PROVE  TakesFirst
<1>pick. PICK e \in db.msgs, f \in EntryType : Consuming(e, f, q)
  BY ConsumeEffect, Zenon
<1>1. /\ e \in db.msgs /\ f \in EntryType
      /\ e.tree = "main" /\ e.queue = q /\ IsFirst(e, In(db, "main", q))
      /\ f.tree = "inflight"
      /\ db'.msgs = (db.msgs \ {e}) \cup {f}
  BY <1>pick, Zenon DEF Consuming
<1> SUFFICES ASSUME NEW x \in db.msgs \ db'.msgs, NEW g \in In(db', "main", x.queue)
             PROVE  /\ Level(g) <= Level(x)
                    /\ Level(g) = Level(x) /\ Fresh(x) /\ Fresh(g)
                         => x.msg.uid < g.msg.uid
  BY Zenon DEF TakesFirst
<1>2. x = e
  BY <1>1, Zenon
<1>3. g \in db.msgs /\ g # e /\ g.tree = "main" /\ g.queue = q
  BY <1>1, <1>2, Zenon DEF In
<1>4. ~Precedes(g, e)
  BY <1>1, <1>3, Zenon DEF IsFirst, In
<1>5. e.hi = KeyByte(e.msg.priority) /\ g.hi = KeyByte(g.msg.priority)
  BY <1>1, <1>3, GoodFacts, Zenon DEF StoreGood, EntryOK
<1>6. /\ e.msg.priority \in Nat /\ g.msg.priority \in Nat
      /\ e.id \in Nat /\ g.id \in Nat /\ e.msg.uid \in Nat /\ g.msg.uid \in Nat
  BY <1>3, GoodFacts, Zenon DEF Store, EntryType, Message
<1>7. Level(g) <= Level(e)
  BY <1>4, <1>5, <1>6 DEF Precedes, KeyByte, Level
<1>8. ASSUME Level(g) = Level(e), Fresh(e), Fresh(g) PROVE e.msg.uid < g.msg.uid
  <2>1. e.id <= g.id
    BY <1>4, <1>5, <1>6, <1>8 DEF Precedes, KeyByte, Level
  <2>2. FreshIn(e, handed) /\ FreshIn(g, handed)
    BY <1>8, Zenon DEF Fresh, FreshIn
  <2>3. /\ g.msg.uid < e.msg.uid => g.id < e.id
        /\ g.msg.uid = e.msg.uid => g = e
    BY <1>3, <2>2, GoodFacts, Zenon DEF StoreGood, FreshInOrder
  <2> QED
    BY <1>3, <1>6, <2>1, <2>3
<1> QED
  BY <1>2, <1>7, <1>8, Zenon

\* Only consume hands messages out.
LEMMA OnlyConsumeHands ==
  ASSUME [Next]_vars, handed' # handed
  PROVE  \E q \in Queues : Consume(q)
<1>1. ASSUME NEW q \in Queues, NEW policy \in Policies, Declare(q, policy)
      PROVE  handed' = handed
  BY <1>1, Zenon DEF Declare, history
<1>2. ASSUME NEW q \in Queues, NEW p \in Priorities, NEW at \in DeliverAts,
             NEW key \in DedupKeys \cup {None}, NEW ts \in {now} \cup ClientStamps,
             Publish(q, p, at, key, ts)
      PROVE  handed' = handed
  BY <1>2, Zenon DEF Publish
<1>3. ASSUME NEW q \in Queues, NEW tag \in 0..(nextId - 1),
             Ack(q, tag) \/ Nack(q, tag) \/ NackInvalidTag(q, tag)
      PROVE  handed' = handed
  BY <1>3, Zenon DEF Ack, Nack, NackInvalidTag, history
<1>4. ASSUME NEW q \in Queues, PromoteScheduled(q) \/ ApplyRetention(q)
      PROVE  handed' = handed
  BY <1>4, Zenon DEF PromoteScheduled, ApplyRetention, history
<1>5. CASE Sync \/ Restart \/ Tick \/ UNCHANGED vars
  BY <1>5 DEF Sync, Restart, Tick, vars, history
<1> QED
  BY <1>1, <1>2, <1>3, <1>4, <1>5, Zenon DEF Next

\* consume serves priorities in order and fresh messages of one priority in
\* the order of their publishes, however ids were given out, messages were
\* nacked or promoted, and crashes interrupted them.
THEOREM ServedInOrder == Spec => PriorityThenFifo
<1>1. IndInv /\ DiskGood /\ [Next]_vars => [TakesFirst]_vars
  <2> SUFFICES ASSUME IndInv, DiskGood, [Next]_vars, handed' # handed PROVE TakesFirst
    BY Zenon DEF TakesFirst
  <2> QED
    BY OnlyConsumeHands, ConsumeTakesFirst, Zenon
<1> QED
  BY <1>1, Invariance, AlwaysGood, PTL DEF Spec, PriorityThenFifo

-----------------------------------------------------------------------------
(* Counting stored messages *)

\* Taking D out of M and putting as many new elements in leaves M's size.
LEMMA Exchanged ==
  ASSUME NEW M, IsFiniteSet(M), NEW D \in SUBSET M, NEW N, IsFiniteSet(N),
         Cardinality(N) = Cardinality(D), N \cap (M \ D) = {}
  PROVE  /\ IsFiniteSet((M \ D) \cup N)
         /\ Cardinality((M \ D) \cup N) = Cardinality(M)
<1> DEFINE R == M \ D
<1>1. IsFiniteSet(D) /\ IsFiniteSet(R)
  BY FS_Subset, FS_Difference, Zenon
<1>2. R \cap D = {} /\ R \cap N = {} /\ R \cup D = M
  OBVIOUS
<1> HIDE DEF R
<1>3. Cardinality({}) = 0
  BY FS_EmptySet, Zenon
<1>4. Cardinality(M) = Cardinality(R) + Cardinality(D) - 0
  BY <1>1, <1>2, <1>3, FS_Union
<1>5. IsFiniteSet(R \cup N) /\ Cardinality(R \cup N) = Cardinality(R) + Cardinality(N) - 0
  BY <1>1, <1>2, <1>3, FS_Union
<1> QED
  BY <1>4, <1>5, Zenon DEF R

\* The same for one element.
LEMMA ExchangedOne ==
  ASSUME NEW M, IsFiniteSet(M), NEW e \in M, NEW f, f \notin M
  PROVE  /\ IsFiniteSet((M \ {e}) \cup {f})
         /\ Cardinality((M \ {e}) \cup {f}) = Cardinality(M)
<1>1. Cardinality(M) \in Nat
  BY FS_CardinalityType, Zenon
<1>2. IsFiniteSet(M \ {e}) /\ Cardinality(M \ {e}) = Cardinality(M) - 1
  BY FS_RemoveElement
<1>3. f \notin M \ {e}
  OBVIOUS
<1> DEFINE R == M \ {e}
<1> HIDE DEF R
<1>4. IsFiniteSet(R \cup {f}) /\ Cardinality(R \cup {f}) = Cardinality(R) + 1
  BY <1>2, <1>3, FS_AddElement, Zenon DEF R
<1> QED
  BY <1>1, <1>2, <1>4 DEF R

\* What consume and nack do to the set of stored messages.
LEMMA MoveOne ==
  ASSUME IndInv, NEW q \in Queues, NEW tag, Consume(q) \/ Nack(q, tag)
  PROVE  \E e \in db.msgs, f \in EntryType :
           /\ f \notin db.msgs /\ f.msg.uid = e.msg.uid
           /\ db'.msgs = (db.msgs \ {e}) \cup {f}
<1>0. StoreOK(db, nextId) /\ nextId \in Nat /\ db \in Store
  BY InvFacts, Zenon
<1>1. CASE Consume(q)
  <2>pick. PICK e \in db.msgs, f \in EntryType : Consuming(e, f, q)
    BY <1>1, ConsumeEffect, Zenon
  <2>1. /\ e \in db.msgs /\ f \in EntryType
        /\ e.tree = "main" /\ f.tree = "inflight" /\ f.id = e.id /\ f.msg = e.msg
        /\ db'.msgs = (db.msgs \ {e}) \cup {f}
    BY <2>pick, Zenon DEF Consuming
  <2>2. f \notin db.msgs
    BY <1>0, <2>1, Zenon DEF StoreOK
  <2> QED
    BY <2>1, <2>2, Zenon
<1>2. CASE Nack(q, tag)
  <2>pick. PICK e \in db.msgs, f \in EntryType : Nacking(e, f, q)
    BY <1>2, NackEffect, Zenon
  <2>1. /\ e \in db.msgs /\ f \in EntryType
        /\ f.id = nextId /\ f.msg.uid = e.msg.uid
        /\ db'.msgs = (db.msgs \ {e}) \cup {f}
    BY <2>pick, Zenon DEF Nacking
  <2>2. f \notin db.msgs
    BY <1>0, <2>1 DEF StoreOK
  <2> QED
    BY <2>1, <2>2, Zenon
<1> QED
  BY <1>1, <1>2, Zenon

\* What promote_scheduled does to the set of stored messages.
LEMMA PromoteEffect ==
  ASSUME IndInv, NEW q \in Queues, PromoteScheduled(q)
  PROVE  LET S == Due(db, q, now)
             N == RequeuedSet(S, S, nextId)
         IN  /\ S \in SUBSET db.msgs
             /\ IsFiniteSet(N) /\ Cardinality(N) = Cardinality(S)
             /\ N \cap db.msgs = {}
             /\ db'.msgs = (db.msgs \ S) \cup N
<1> DEFINE S == Due(db, q, now)
           N == RequeuedSet(S, S, nextId)
           r == RemoveAll(db, S)
<1>0. StoreOK(db, nextId) /\ nextId \in Nat /\ db \in disk
  BY InvFacts
<1>1. db' = InsertAll(r, N)
  BY Zenon DEF PromoteScheduled, Write, Promote, RequeuedSet
<1>2. S \in SUBSET db.msgs
  BY DEF Due, In
<1> HIDE DEF S
<1>3. /\ N \in SUBSET EntryType /\ IsFiniteSet(N) /\ \A f \in N : nextId <= f.id
  BY <1>0, <1>2, RenumberedFacts, Zenon
<1>4. Cardinality(N) = Cardinality(S)
  <2>1. /\ S \in SUBSET EntryType /\ IsFiniteSet(S)
        /\ \A e, f \in S : e.id = f.id => e = f
    BY <1>0, <1>2, FS_Subset, Zenon DEF StoreOK, Store
  <2> QED
    BY <1>0, <2>1, RequeuedFacts, Zenon
<1> HIDE DEF N
<1>5. N \cap db.msgs = {}
  <2>1. \A e \in db.msgs : e.id < nextId
    BY <1>0, Zenon DEF StoreOK
  <2>2. \A f \in N : f.id \in Nat
    BY <1>3, Zenon DEF EntryType
  <2>3. \A i \in Nat : ~(i < nextId /\ nextId <= i)
    BY <1>0
  <2>4. \A f \in N : f \notin db.msgs
    BY <1>3, <2>1, <2>2, <2>3, Zenon
  <2> QED
    BY <2>4, Zenon
<1>6. StoreOK(r, nextId) /\ r.msgs = db.msgs \ S
  BY <1>0, RemoveOK
<1> HIDE DEF r
<1>7. db'.msgs = (db.msgs \ S) \cup N
  <2>1. With(InsertAll(r, N), r, N)
    BY <1>0, <1>3, <1>6, InsertIs, Zenon
  <2> QED
    BY <1>1, <1>6, <2>1, Zenon DEF With
<1> QED
  BY <1>2, <1>3, <1>4, <1>5, <1>7, Zenon DEF N, S

\* Recovery leaves as many messages as the crash did, and all dedup records.
LEMMA RecoverEffect ==
  ASSUME IndInv, NEW s \in disk
  PROVE  LET I == Inflight(s)
             w == Recover(s, I, I, nextId)
         IN  w.dedup = s.dedup /\ Cardinality(w.msgs) = Cardinality(s.msgs)
<1> DEFINE I == Inflight(s)
           N == RequeuedSet(I, I, nextId)
           v == InsertAll(s, N)
           w == RemoveAll(v, I)
<1>0. StoreOK(s, nextId) /\ nextId \in Nat /\ s \in Store /\ IsFiniteSet(s.msgs)
  BY Zenon DEF IndInv, TypeOK, StoreOK
<1>1. w = Recover(s, I, I, nextId)
  BY DEF Recover, RequeuedSet
<1>2. I \in SUBSET s.msgs
  BY Zenon DEF Inflight
<1> HIDE DEF I
<1>3. /\ N \in SUBSET EntryType /\ IsFiniteSet(N) /\ \A f \in N : nextId <= f.id
  BY <1>2, RenumberedFacts, Zenon
<1>4. Cardinality(N) = Cardinality(I)
  <2>1. /\ I \in SUBSET EntryType /\ IsFiniteSet(I)
        /\ \A e, f \in I : e.id = f.id => e = f
    BY <1>0, <1>2, FS_Subset, Zenon DEF StoreOK, Store
  <2> QED
    BY <1>0, <2>1, RequeuedFacts, Zenon
<1> HIDE DEF N
<1>5. N \cap s.msgs = {}
  <2>1. \A e \in s.msgs : e.id < nextId
    BY <1>0, Zenon DEF StoreOK
  <2>2. \A f \in N : f.id \in Nat
    BY <1>3 DEF EntryType
  <2>3. \A i \in Nat : ~(i < nextId /\ nextId <= i)
    BY <1>0
  <2>4. \A f \in N : f \notin s.msgs
    BY <1>3, <2>1, <2>2, <2>3, Zenon
  <2> QED
    BY <2>4
<1>6. v \in Store /\ v.msgs = s.msgs \cup N /\ v.dedup = s.dedup
  <2>1. With(InsertAll(s, N), s, N)
    BY <1>0, <1>3, InsertIs, Zenon
  <2> QED
    BY <2>1, Zenon DEF With
<1> HIDE DEF v
<1>7. w.msgs = (s.msgs \ I) \cup N /\ w.dedup = s.dedup
  <2>1. w.msgs = (s.msgs \cup N) \ I /\ w.dedup = s.dedup
    BY <1>6, Zenon DEF RemoveAll, Store
  <2> QED
    BY <1>2, <1>5, <2>1, Zenon
<1> HIDE DEF w
<1>8. Cardinality(w.msgs) = Cardinality(s.msgs)
  <2>1. N \cap (s.msgs \ I) = {}
    BY <1>5, Zenon
  <2>2. Cardinality((s.msgs \ I) \cup N) = Cardinality(s.msgs)
    BY <1>0, <1>2, <1>3, <1>4, <2>1, Exchanged, Zenon
  <2> QED
    BY <1>7, <2>2, Zenon
<1> QED
  BY <1>1, <1>7, <1>8, Zenon DEF I

-----------------------------------------------------------------------------
(* The byte counter *)

\* Arithmetic of the lengths.
LEMMA Scaled ==
  ASSUME NEW k \in Nat, NEW n \in Nat
  PROVE  k * n \in Nat /\ k * (n + 1) = k * n + k
OBVIOUS

\* More records take more space.
LEMMA ScaledMore ==
  ASSUME NEW k \in Nat, NEW n \in Nat, NEW m \in Nat, n <= m
  PROVE  k * n <= k * m
<1>1. k * (m - n) \in Nat
  <2>1. m - n \in Nat
    OBVIOUS
  <2> QED
    BY <2>1, Scaled, Zenon
<1>2. k * m = k * n + k * (m - n)
  OBVIOUS
<1>3. k * n \in Nat /\ k * m \in Nat
  BY Scaled, Zenon
<1> QED
  BY <1>1, <1>2, <1>3

\* record_dedup_key replaces a record or adds one.
LEMMA RecordsGrow ==
  ASSUME NEW s \in Store, IsFiniteSet(s.dedup), OneRecordPerKey(s), NEW q, NEW m, NEW t
  PROVE  Cardinality(s.dedup) <= Cardinality(RecordDedupKey(s, q, m, t).dedup)
<1> DEFINE rec == [queue |-> q, key |-> m.dedup_key, at |-> t, by |-> m.uid]
           X == {d \in s.dedup : d.queue = q /\ d.key = m.dedup_key}
           kept == s.dedup \ X
           w == RecordDedupKey(s, q, m, t)
<1>0. Cardinality(s.dedup) \in Nat
  BY FS_CardinalityType, Zenon
<1>1. CASE w = s
  BY <1>0, <1>1
<1>2. CASE w = [s EXCEPT !.dedup = {d \in s.dedup : ~(d.queue = q /\ d.key = m.dedup_key)}
                                      \cup {rec}]
  <2>1. w.dedup = kept \cup {rec}
    BY <1>2, Zenon DEF Store
  <2>2. rec \notin kept
    OBVIOUS
  <2>3. X \in SUBSET s.dedup /\ \A c, d \in X : c = d
    BY Zenon DEF OneRecordPerKey
  <2> HIDE DEF rec, X, w
  <2>4. IsFiniteSet(kept) /\ Cardinality(kept) >= Cardinality(s.dedup) - 1
    <3>1. CASE X = {}
      <4>1. kept = s.dedup
        BY <3>1, Zenon
      <4> HIDE DEF kept
      <4> QED
        BY <1>0, <4>1
    <3>2. CASE X # {}
      <4>1. PICK x \in X : X = {x}
        BY <2>3, <3>2, Zenon
      <4>2. kept = s.dedup \ {x} /\ x \in s.dedup
        BY <2>3, <4>1, Zenon
      <4> QED
        BY <1>0, <4>2, FS_RemoveElement
    <3> QED
      BY <3>1, <3>2, Zenon
  <2> HIDE DEF kept
  <2>5. Cardinality(w.dedup) = Cardinality(kept) + 1
    BY <2>1, <2>2, <2>4, FS_AddElement, Zenon
  <2>6. Cardinality(kept) \in Nat
    BY <2>4, FS_CardinalityType, Zenon
  <2>7. Cardinality(s.dedup) <= Cardinality(w.dedup)
    BY <1>0, <2>4, <2>5, <2>6
  <2> QED
    BY <2>7 DEF w
<1> QED
  BY <1>1, <1>2, Zenon DEF RecordDedupKey

\* recalculate_bytes counts every message and every dedup record.
LEMMA RecalculatedAll ==
  ASSUME NEW s, NEW n, StoreOK(s, n)
  PROVE  RecalculatedBytes(s) = MsgLen * Cardinality(s.msgs) + DedupLen * Cardinality(s.dedup)
<1>1. {e \in s.msgs : e.queue \in s.queues} = s.msgs
  BY Zenon DEF StoreOK
<1>2. {d \in s.dedup : d.queue \in s.queues} = s.dedup
  BY Zenon DEF StoreOK
<1> QED
  BY <1>1, <1>2, Zenon DEF RecalculatedBytes

\* How many messages and records a store holds.
LEMMA Sizes ==
  ASSUME NEW s, NEW n, StoreOK(s, n)
  PROVE  Cardinality(s.msgs) \in Nat /\ Cardinality(s.dedup) \in Nat
BY FS_CardinalityType DEF StoreOK

\* What publish does to the sizes.
LEMMA PublishSizes ==
  ASSUME IndInv, DiskGood, NEW q \in Queues, NEW p \in Priorities, NEW at \in DeliverAts,
         NEW key \in DedupKeys \cup {None}, NEW ts \in {now} \cup ClientStamps,
         Publish(q, p, at, key, ts)
  PROVE  /\ Cardinality(db'.msgs) = Cardinality(db.msgs) + 1
         /\ Cardinality(db.dedup) <= Cardinality(db'.dedup)
<1> DEFINE m == NewMessage(p, at, key, ts)
<1>pick. PICK e \in EntryType, s1 \in Store : Publishing(e, s1, q, m)
  BY PublishEffect, Zenon
<1>1. /\ e \in EntryType /\ s1 \in Store
      /\ e.id = nextId /\ e.msg.uid = published
      /\ s1.dedup = db.dedup /\ db'.msgs = db.msgs \cup {e}
      /\ db' = RecordDedupKey(s1, q, m, now)
  BY <1>pick, Zenon DEF Publishing
<1>2. StoreOK(db, nextId) /\ nextId \in Nat /\ IsFiniteSet(db.msgs) /\ IsFiniteSet(db.dedup)
  BY InvFacts, Zenon
<1>3. e \notin db.msgs
  <2>1. \A f \in db.msgs : f.id < nextId
    BY <1>2, Zenon DEF StoreOK
  <2>2. ~(nextId < nextId)
    BY <1>2
  <2> QED
    BY <1>1, <2>1, <2>2, Zenon
<1>4. Cardinality(db'.msgs) = Cardinality(db.msgs) + 1
  <2>1. Cardinality(db.msgs \cup {e}) = Cardinality(db.msgs) + 1
    BY <1>2, <1>3, FS_AddElement, Zenon
  <2> QED
    BY <1>1, <2>1, Zenon
<1>5. OneRecordPerKey(s1)
  BY <1>1, GoodFacts, Zenon DEF StoreGood, OneRecordPerKey
<1> HIDE DEF m
<1>6. Cardinality(db.dedup) <= Cardinality(db'.dedup)
  BY <1>1, <1>2, <1>5, RecordsGrow, Zenon
<1> QED
  BY <1>4, <1>6, Zenon

\* A step that leaves the counter and both sizes alone.
LEMMA BytesKept ==
  ASSUME BytesTracked, current_bytes' = current_bytes,
         Cardinality(db'.msgs) = Cardinality(db.msgs), db'.dedup = db.dedup
  PROVE  BytesTracked'
BY Zenon DEF BytesTracked

\* A counter that was calculated afresh.
LEMMA BytesFresh ==
  ASSUME NEW s, NEW n, StoreOK(s, n), current_bytes' = RecalculatedBytes(s),
         Cardinality(db'.msgs) = Cardinality(s.msgs), db'.dedup = s.dedup
  PROVE  BytesTracked'
<1> DEFINE a == MsgLen * Cardinality(s.msgs)
           b == DedupLen * Cardinality(s.dedup)
<1>1. a \in Nat /\ b \in Nat
  BY Sizes, Scaled, StoreAssumption, Zenon
<1>2. current_bytes' = a + b
  BY RecalculatedAll, Zenon
<1>3. (MsgLen * Cardinality(db.msgs))' = a /\ (DedupLen * Cardinality(db.dedup))' = b
  OBVIOUS
<1> HIDE DEF a, b
<1> QED
  BY <1>1, <1>2, <1>3 DEF BytesTracked

\* publish adds the length of its message, and perhaps a dedup record.
LEMMA PublishBytes ==
  ASSUME IndInv, DiskGood, BytesTracked, NEW q \in Queues, NEW p \in Priorities,
         NEW at \in DeliverAts, NEW key \in DedupKeys \cup {None},
         NEW ts \in {now} \cup ClientStamps, Publish(q, p, at, key, ts)
  PROVE  BytesTracked' /\ PublishFits
<1> DEFINE n == Cardinality(db.msgs)
           k == Cardinality(db.dedup)
           l == Cardinality(db'.dedup)
<1>0. IndInv'
  BY PublishStep, Zenon
<1>1. n \in Nat /\ k \in Nat /\ l \in Nat
  BY <1>0, InvFacts, Sizes, Zenon DEF IndInv, TypeOK
<1>2. Cardinality(db'.msgs) = n + 1 /\ k <= l
  BY PublishSizes, Zenon
<1>3. /\ current_bytes' = current_bytes + MsgLen
      /\ MaxBytes # None => current_bytes + MsgLen <= MaxBytes
  BY Zenon DEF Publish, Fits
<1>4. MsgLen * n <= current_bytes /\ current_bytes <= MsgLen * n + DedupLen * k
  BY Zenon DEF BytesTracked
<1>5. current_bytes \in Nat /\ MsgLen \in Nat /\ DedupLen \in Nat
      /\ (MaxBytes # None => MaxBytes \in Nat)
  BY StoreAssumption, ManagerAssumption, Zenon DEF IndInv, TypeOK, OptNat
<1> HIDE DEF n, k, l
<1> DEFINE a == MsgLen * n
           b == DedupLen * k
           c == DedupLen * l
<1>6. /\ a \in Nat /\ b \in Nat /\ c \in Nat /\ b <= c
      /\ MsgLen * (n + 1) = a + MsgLen
  BY <1>1, <1>2, <1>5, Scaled, ScaledMore, Zenon
<1> HIDE DEF a, b, c
<1>7. a <= current_bytes /\ current_bytes <= a + b
  BY <1>4, Zenon DEF a, b
<1>8. /\ a + MsgLen <= current_bytes'
      /\ current_bytes' <= (a + MsgLen) + c
      /\ MaxBytes # None => a + MsgLen <= MaxBytes
  BY <1>3, <1>5, <1>6, <1>7
<1>9. /\ MsgLen * Cardinality(db'.msgs) = a + MsgLen
      /\ DedupLen * Cardinality(db'.dedup) = c
  BY <1>2, <1>6, Zenon DEF c, l
<1>10. BytesTracked'
  BY <1>8, <1>9, Zenon DEF BytesTracked
<1>11. PublishFits
  BY <1>8, <1>9, Zenon DEF PublishFits
<1> QED
  BY <1>10, <1>11, Zenon

\* ack takes off what publish added; the subtraction does not saturate.
LEMMA AckBytes ==
  ASSUME IndInv, BytesTracked, NEW q \in Queues, NEW tag, Ack(q, tag)
  PROVE  BytesTracked'
<1>0. IndInv' /\ StoreOK(db, nextId) /\ nextId \in Nat /\ IsFiniteSet(db.msgs)
  BY AckStep, InvFacts, Zenon
<1>1. PICK e \in In(db, "inflight", q) : db' = RemoveAll(db, {e})
  BY ZenonT(40) DEF Ack, Write
<1>2. e \in db.msgs
  BY Zenon DEF In
<1>3. db'.msgs = db.msgs \ {e} /\ db'.dedup = db.dedup
  <2>1. Without(RemoveAll(db, {e}), db, {e})
    BY <1>0, RemoveIs, Zenon
  <2> QED
    BY <1>1, <2>1, Zenon DEF Without
<1> DEFINE n == Cardinality(db'.msgs)
           b == DedupLen * Cardinality(db.dedup)
<1>4. Cardinality(db.msgs) = n + 1 /\ n \in Nat
  <2>1. IsFiniteSet(db'.msgs) /\ n = Cardinality(db.msgs) - 1
    BY <1>0, <1>2, <1>3, FS_RemoveElement, Zenon
  <2>2. Cardinality(db.msgs) \in Nat /\ n \in Nat
    BY <1>0, <2>1, FS_CardinalityType, Zenon
  <2> HIDE DEF n
  <2> QED
    BY <2>1, <2>2
<1>5. b \in Nat /\ MsgLen \in Nat /\ current_bytes \in Nat
  BY <1>0, Sizes, Scaled, StoreAssumption, Zenon DEF IndInv, TypeOK
<1> DEFINE a == MsgLen * n
<1>6. a \in Nat /\ MsgLen * Cardinality(db.msgs) = a + MsgLen
  BY <1>4, <1>5, Scaled, Zenon
<1>7. a + MsgLen <= current_bytes /\ current_bytes <= (a + MsgLen) + b
  BY <1>6, Zenon DEF BytesTracked
<1>8. current_bytes' = SaturatingSub(current_bytes, MsgLen)
  BY Zenon DEF Ack
<1>9. (MsgLen * Cardinality(db.msgs))' = a /\ (DedupLen * Cardinality(db.dedup))' = b
  BY <1>3, Zenon
<1> HIDE DEF a, b, n
<1>10. a <= current_bytes' /\ current_bytes' <= a + b
  BY <1>5, <1>6, <1>7, <1>8 DEF SaturatingSub
<1> QED
  BY <1>9, <1>10, Zenon DEF BytesTracked

\* Every step keeps the counter right.
LEMMA NextBytes ==
  IndInv /\ DiskGood /\ BytesTracked /\ [Next]_vars => BytesTracked'
<1> SUFFICES ASSUME IndInv, DiskGood, BytesTracked, [Next]_vars PROVE BytesTracked'
  OBVIOUS
<1>0. StoreOK(db, nextId) /\ nextId \in Nat /\ IsFiniteSet(db.msgs) /\ db \in Store
  BY InvFacts, Zenon
<1>1. ASSUME NEW q \in Queues, NEW policy \in Policies, Declare(q, policy)
      PROVE  BytesTracked'
  <2>1. /\ db' = DeclareRetention(DeclareMeta(db, q), q, policy)
        /\ current_bytes' = current_bytes
    BY <1>1, Zenon DEF Declare, Write
  <2>2. db'.dedup = db.dedup /\ db'.msgs = db.msgs
    BY <1>0, <2>1, Zenon DEF DeclareMeta, DeclareRetention, Store
  <2> QED
    BY <2>1, <2>2, BytesKept, Zenon
<1>2. ASSUME NEW q \in Queues, NEW p \in Priorities, NEW at \in DeliverAts,
             NEW key \in DedupKeys \cup {None}, NEW ts \in {now} \cup ClientStamps,
             Publish(q, p, at, key, ts)
      PROVE  BytesTracked'
  BY <1>2, PublishBytes, Zenon
<1>3. ASSUME NEW q \in Queues, NEW tag, Consume(q) \/ Nack(q, tag)
      PROVE  BytesTracked'
  <2>1. PICK e \in db.msgs, f \in EntryType :
          f \notin db.msgs /\ db'.msgs = (db.msgs \ {e}) \cup {f}
    BY <1>3, MoveOne, Zenon
  <2>2. Cardinality(db'.msgs) = Cardinality(db.msgs)
    BY <1>0, <2>1, ExchangedOne
  <2>3. db'.dedup = db.dedup
    BY <1>3, MovesOnly, Zenon
  <2>4. current_bytes' = current_bytes
    BY <1>3, Zenon DEF Consume, Nack
  <2> QED
    BY <2>2, <2>3, <2>4, BytesKept, Zenon
<1>4. ASSUME NEW q \in Queues, NEW tag, Ack(q, tag) PROVE BytesTracked'
  BY <1>4, AckBytes, Zenon
<1>5. ASSUME NEW q \in Queues, PromoteScheduled(q) PROVE BytesTracked'
  <2> DEFINE S == Due(db, q, now)
             N == RequeuedSet(S, S, nextId)
  <2>1. /\ S \in SUBSET db.msgs /\ IsFiniteSet(N) /\ Cardinality(N) = Cardinality(S)
        /\ N \cap db.msgs = {} /\ db'.msgs = (db.msgs \ S) \cup N
    BY <1>5, PromoteEffect, Zenon
  <2> HIDE DEF S, N
  <2>2. Cardinality(db'.msgs) = Cardinality(db.msgs)
    <3>1. N \cap (db.msgs \ S) = {}
      BY <2>1, Zenon
    <3>2. Cardinality((db.msgs \ S) \cup N) = Cardinality(db.msgs)
      BY <1>0, <2>1, <3>1, Exchanged, Zenon
    <3> QED
      BY <2>1, <3>2, Zenon
  <2>3. db'.dedup = db.dedup
    BY <1>5, MovesOnly, Zenon
  <2>4. current_bytes' = current_bytes
    BY <1>5, Zenon DEF PromoteScheduled
  <2> QED
    BY <2>2, <2>3, <2>4, BytesKept, Zenon
<1>6. ASSUME NEW q \in Queues, ApplyRetention(q) PROVE BytesTracked'
  <2>1. current_bytes' = RecalculatedBytes(db')
    BY <1>6, Zenon DEF ApplyRetention, Write
  <2>2. StoreOK(db', nextId')
    BY <1>6, ApplyRetentionStep, Zenon DEF IndInv, TypeOK
  <2> QED
    BY <2>1, <2>2, BytesFresh, Zenon
<1>7. CASE Restart
  <2>1. PICK s \in disk : /\ db' = Recover(s, Inflight(s), Inflight(s), nextId)
                          /\ current_bytes' = RecalculatedBytes(s)
    BY <1>7, Zenon DEF Restart
  <2>2. db'.dedup = s.dedup /\ Cardinality(db'.msgs) = Cardinality(s.msgs)
    BY <2>1, RecoverEffect, Zenon
  <2>3. StoreOK(s, nextId)
    BY DEF IndInv
  <2> QED
    BY <2>1, <2>2, <2>3, BytesFresh, Zenon
<1>8. ASSUME NEW q, NEW tag,
             UNCHANGED vars \/ Tick \/ Sync \/ NackInvalidTag(q, tag)
      PROVE  BytesTracked'
  <2>1. db' = db /\ current_bytes' = current_bytes
    BY <1>8, Zenon DEF Tick, Sync, NackInvalidTag, vars
  <2> QED
    BY <2>1, BytesKept, Zenon
<1>9. CASE Next
  BY <1>1, <1>2, <1>3, <1>4, <1>5, <1>6, <1>7, <1>8, <1>9, ZenonT(40) DEF Next
<1> QED
  BY <1>8, <1>9, Zenon

\* An empty database takes no space.
LEMMA InitBytes == Init => BytesTracked
<1>1. Cardinality({}) = 0
  BY FS_EmptySet
<1>2. \A k \in Nat : k * 0 = 0
  OBVIOUS
<1> QED
  BY <1>1, <1>2, StoreAssumption DEF Init, EmptyStore, BytesTracked

\* The byte counter of the manager lies between what the stored messages take
\* and that plus their dedup records, whatever calls, retention and recoveries
\* have added, subtracted and recalculated.
THEOREM CounterSound == Spec => []BytesTracked
BY InitBytes, NextBytes, AlwaysGood, Invariance, PTL DEF Spec

\* Only publish stores messages.
LEMMA OnlyPublishStores ==
  ASSUME [Next]_vars, published' # published
  PROVE  \E q \in Queues, p \in Priorities, at \in DeliverAts, key \in DedupKeys \cup {None},
            ts \in {now} \cup ClientStamps : Publish(q, p, at, key, ts)
<1>1. ASSUME NEW q \in Queues, NEW policy \in Policies, Declare(q, policy)
      PROVE  published' = published
  BY <1>1, Zenon DEF Declare, history
<1>2. ASSUME NEW q \in Queues, NEW tag \in 0..(nextId - 1),
             Ack(q, tag) \/ Nack(q, tag) \/ NackInvalidTag(q, tag)
      PROVE  published' = published
  BY <1>2, Zenon DEF Ack, Nack, NackInvalidTag, history
<1>3. ASSUME NEW q \in Queues, Consume(q) \/ PromoteScheduled(q) \/ ApplyRetention(q)
      PROVE  published' = published
  BY <1>3, Zenon DEF Consume, PromoteScheduled, ApplyRetention, history
<1>4. CASE Sync \/ Restart \/ Tick \/ UNCHANGED vars
  BY <1>4, Zenon DEF Sync, Restart, Tick, vars, history
<1> QED
  BY <1>1, <1>2, <1>3, <1>4, Zenon DEF Next

\* publish never takes the stored messages over max_bytes, whatever happened
\* to the counter it compares with the limit.
THEOREM NeverOverLimit == Spec => LimitRespected
<1>1. IndInv /\ DiskGood /\ BytesTracked /\ [Next]_vars => [PublishFits]_vars
  <2> SUFFICES ASSUME IndInv, DiskGood, BytesTracked, [Next]_vars PROVE PublishFits
    BY Zenon
  <2>1. CASE published' # published
    BY <2>1, OnlyPublishStores, PublishBytes, Zenon
  <2>2. CASE published' = published
    BY <2>2 DEF PublishFits, IndInv, TypeOK
  <2> QED
    BY <2>1, <2>2, Zenon
<1> QED
  BY <1>1, Invariance, AlwaysGood, CounterSound, PTL DEF Spec, LimitRespected

-----------------------------------------------------------------------------
(* Copies of a message *)

\* The entries of M that hold message u.
Copies(M, u) == {e \in M : e.msg.uid = u}

\* If every entry of T is the image of one of S, T is no larger.
LEMMA ImageNoLarger ==
  ASSUME NEW S, IsFiniteSet(S), NEW T, NEW F \in [S -> T],
         \A y \in T : \E x \in S : F[x] = y
  PROVE  Cardinality(T) <= Cardinality(S)
<1>1. F \in Surjection(S, T)
  BY DEF Surjection
<1> QED
  BY <1>1, FS_Surjection, Zenon

\* No copy is made when entries are only removed.
LEMMA FewerCopies ==
  ASSUME NEW M, IsFiniteSet(M), NEW L \in SUBSET M, NEW u
  PROVE  Cardinality(Copies(L, u)) <= Cardinality(Copies(M, u))
<1>1. Copies(M, u) \in SUBSET M /\ Copies(L, u) \in SUBSET Copies(M, u)
  BY DEF Copies
<1>2. IsFiniteSet(Copies(M, u))
  BY <1>1, FS_Subset, Zenon
<1> QED
  BY <1>1, <1>2, FS_Subset, Zenon

\* Nor when one entry is exchanged for another with the same message.
LEMMA SameCopies ==
  ASSUME NEW M, IsFiniteSet(M), NEW e \in M, NEW f, f.msg.uid = e.msg.uid, NEW u
  PROVE  Cardinality(Copies((M \ {e}) \cup {f}, u)) <= Cardinality(Copies(M, u))
<1> DEFINE S == Copies(M, u)
           T == Copies((M \ {e}) \cup {f}, u)
           F == [x \in S |-> IF x = e THEN f ELSE x]
<1>1. IsFiniteSet(S)
  BY FS_Subset, Zenon DEF Copies
<1>2. F \in [S -> T]
  BY Zenon DEF Copies
<1>3. \A y \in T : \E x \in S : F[x] = y
  BY DEF Copies
<1> HIDE DEF S, T, F
<1>4. Cardinality(T) <= Cardinality(S)
  BY <1>1, <1>2, <1>3, ImageNoLarger, Zenon
<1> QED
  BY <1>4, Zenon DEF S, T

\* Nor when a set of entries is requeued.
LEMMA RequeuedCopies ==
  ASSUME NEW M, IsFiniteSet(M), NEW D \in SUBSET M, NEW base, NEW u
  PROVE  Cardinality(Copies((M \ D) \cup RequeuedSet(D, D, base), u))
           <= Cardinality(Copies(M, u))
<1> DEFINE S == Copies(M, u)
           T == Copies((M \ D) \cup RequeuedSet(D, D, base), u)
           F == [x \in S |-> IF x \in D THEN Requeued(x, D, base) ELSE x]
<1>1. IsFiniteSet(S)
  BY FS_Subset, Zenon DEF Copies
<1>2. \A x \in D : Requeued(x, D, base).msg = x.msg
  BY RequeuedFields, Zenon
<1>3. F \in [S -> T]
  BY <1>2, Zenon DEF Copies, RequeuedSet
<1>4. \A y \in T : \E x \in S : F[x] = y
  BY <1>2, Zenon DEF Copies, RequeuedSet
<1> HIDE DEF S, T, F
<1>5. Cardinality(T) <= Cardinality(S)
  BY <1>1, <1>3, <1>4, ImageNoLarger, Zenon
<1> QED
  BY <1>5, Zenon DEF S, T

\* What the steps other than a restart do to the copies of a published message.
LEMMA NextCopies ==
  ASSUME IndInv, [Next]_vars, ~Restart, NEW u \in 0..(published - 1)
  PROVE  Cardinality(Copies(db'.msgs, u)) <= Cardinality(Copies(db.msgs, u))
<1>0. StoreOK(db, nextId) /\ nextId \in Nat /\ IsFiniteSet(db.msgs) /\ db \in Store
  BY InvFacts, Zenon
<1> DEFINE Goal == Cardinality(Copies(db'.msgs, u)) <= Cardinality(Copies(db.msgs, u))
<1>1. ASSUME db'.msgs \subseteq db.msgs PROVE Goal
  BY <1>0, <1>1, FewerCopies, Zenon
<1>2. ASSUME NEW q \in Queues, NEW policy \in Policies, Declare(q, policy) PROVE Goal
  <2>1. db' = DeclareRetention(DeclareMeta(db, q), q, policy)
    BY <1>2, Zenon DEF Declare, Write
  <2>2. db'.msgs = db.msgs
    BY <1>0, <2>1, Zenon DEF DeclareMeta, DeclareRetention, Store
  <2> QED
    BY <1>1, <2>2, Zenon
<1>3. ASSUME NEW q \in Queues, NEW p \in Priorities, NEW at \in DeliverAts,
             NEW key \in DedupKeys \cup {None}, NEW ts \in {now} \cup ClientStamps,
             Publish(q, p, at, key, ts)
      PROVE  Goal
  <2>pick. PICK e \in EntryType, s1 \in Store : Publishing(e, s1, q, NewMessage(p, at, key, ts))
    BY <1>3, PublishEffect, Zenon
  <2>1. /\ e \in EntryType /\ s1 \in Store
        /\ e.id = nextId /\ e.msg.uid = published
        /\ s1.dedup = db.dedup /\ db'.msgs = db.msgs \cup {e}
        /\ db' = RecordDedupKey(s1, q, NewMessage(p, at, key, ts), now)
    BY <2>pick, Zenon DEF Publishing
  <2>2. published \in Nat
    BY DEF IndInv, TypeOK
  <2>3. u # published
    BY <2>2
  <2>4. Copies(db'.msgs, u) = Copies(db.msgs, u)
    BY <2>1, <2>3, Zenon DEF Copies
  <2>5. Cardinality(Copies(db.msgs, u)) <= Cardinality(Copies(db.msgs, u))
    BY <1>0, FewerCopies, Zenon
  <2> QED
    BY <2>4, <2>5, Zenon
<1>4. ASSUME NEW q \in Queues, NEW tag, Consume(q) \/ Nack(q, tag) PROVE Goal
  <2>1. PICK e \in db.msgs, f \in EntryType :
          f.msg.uid = e.msg.uid /\ db'.msgs = (db.msgs \ {e}) \cup {f}
    BY <1>4, MoveOne, Zenon
  <2> QED
    BY <1>0, <2>1, SameCopies, Zenon
<1>5. ASSUME NEW q \in Queues, NEW tag, Ack(q, tag) PROVE Goal
  <2>1. PICK e \in In(db, "inflight", q) : db' = RemoveAll(db, {e})
    BY <1>5, ZenonT(40) DEF Ack, Write
  <2>2. db'.msgs = db.msgs \ {e}
    <3>1. Without(RemoveAll(db, {e}), db, {e})
      BY <1>0, RemoveIs, Zenon
    <3> QED
      BY <2>1, <3>1, Zenon DEF Without
  <2> QED
    BY <1>1, <2>2, Zenon
<1>6. ASSUME NEW q \in Queues, PromoteScheduled(q) PROVE Goal
  <2> DEFINE S == Due(db, q, now)
  <2>1. /\ S \in SUBSET db.msgs
        /\ db'.msgs = (db.msgs \ S) \cup RequeuedSet(S, S, nextId)
    BY <1>6, PromoteEffect, Zenon
  <2> HIDE DEF S
  <2> QED
    BY <1>0, <2>1, RequeuedCopies, Zenon
<1>7. ASSUME NEW q \in Queues, ApplyRetention(q) PROVE Goal
  <2>1. db' = RemoveAll(db, Expired(db, q, now) \cup Excess(db, q, now))
    BY <1>7, Zenon DEF ApplyRetention, Write
  <2>2. db'.msgs = db.msgs \ (Expired(db, q, now) \cup Excess(db, q, now))
    <3> DEFINE D == Expired(db, q, now) \cup Excess(db, q, now)
    <3> HIDE DEF D
    <3>1. Without(RemoveAll(db, D), db, D)
      BY <1>0, RemoveIs, Zenon
    <3> QED
      BY <2>1, <3>1, Zenon DEF D, Without
  <2> QED
    BY <1>1, <2>2, Zenon
<1>8. ASSUME NEW q, NEW tag, UNCHANGED vars \/ Tick \/ Sync \/ NackInvalidTag(q, tag)
      PROVE  Goal
  <2>1. db' = db
    BY <1>8, Zenon DEF Tick, Sync, NackInvalidTag, vars
  <2> QED
    BY <1>1, <2>1, Zenon
<1> HIDE DEF Goal
<1>9. ASSUME Next PROVE Goal
  BY <1>2, <1>3, <1>4, <1>5, <1>6, <1>7, <1>8, <1>9, ZenonT(40) DEF Next
<1> QED
  BY <1>8, <1>9, Zenon DEF Goal

\* Only a restart redelivers: no call, promotion or retention pass makes a
\* second copy of a message, or brings back one that is gone.
THEOREM NoCallDuplicates == Spec => OnlyRestartDuplicates
<1>1. IndInv /\ [Next]_vars => [NoSecondCopy]_vars
  <2> SUFFICES ASSUME IndInv, [Next]_vars, crashes' = crashes,
                      NEW u \in 0..(published - 1)
               PROVE  Cardinality({e \in db'.msgs : e.msg.uid = u})
                        <= Cardinality({e \in db.msgs : e.msg.uid = u})
    BY Zenon DEF NoSecondCopy
  <2>1. ~Restart
    BY DEF Restart, IndInv, TypeOK
  <2> QED
    BY <2>1, NextCopies, Zenon DEF Copies
<1> QED
  BY <1>1, Invariance, PTL DEF Spec, OnlyRestartDuplicates
==============================================================================
