------------------------- MODULE QueueManagerProofs --------------------------
(*****************************************************************************)
(* The inductive invariant of QueueManager, the lemmas its proof rests on:   *)
(* what the operators on stores return, and what a call does to disk; the    *)
(* proof that the initial state satisfies it and that every call, Sync and a *)
(* crash with its recovery preserve it; then what follows from it for every  *)
(* value of the constants: types, no loss, tags and deduplication.           *)
(*****************************************************************************)
EXTENDS QueueManager, FiniteSetTheorems, TLAPS

\* What every store on disk satisfies when ids below n have been generated.
StoreOK(s, n) ==
  /\ s \in Store
  /\ IsFiniteSet(s.msgs) /\ IsFiniteSet(s.dedup)
  /\ \A e \in s.msgs : e.id < n /\ e.queue \in s.queues
  /\ \A e, f \in s.msgs : e.id = f.id => e = f
  /\ \A d \in s.dedup : d.queue \in s.queues

\* An id belongs to one message, in all the stores on disk together.
IdsOwned ==
  \A s, t \in disk : \A e \in s.msgs, f \in t.msgs :
    e.id = f.id => e.msg.uid = f.msg.uid

\* A tag that was handed out belongs to the message it was handed out for.
TagsOwned ==
  \A h \in handed :
    /\ h.tag < nextId
    /\ \A s \in disk : \A e \in s.msgs : e.id = h.tag => e.msg.uid = h.uid

\* Whatever a crash leaves, only messages that were accepted are stored.
OnlyAccepted == \A s \in disk : \A e \in s.msgs : e.msg.uid < published

IndInv ==
  /\ TypeOK
  /\ \A s \in disk : StoreOK(s, nextId)
  /\ IdsOwned
  /\ TagsOwned
  /\ OnlyAccepted
  /\ NoLossOnceSynced
  /\ DedupBacked

-----------------------------------------------------------------------------
(* Lemmas about the operators on stores *)

\* Messages inserted under ids that were never used replace nothing.
LEMMA InsertFresh ==
  ASSUME NEW n \in Nat, NEW s, StoreOK(s, n), NEW E \in SUBSET EntryType,
         IsFiniteSet(E), \A f \in E : n <= f.id
  PROVE  /\ InsertAll(s, E) \in Store
         /\ InsertAll(s, E).msgs = s.msgs \cup E
         /\ IsFiniteSet(InsertAll(s, E).msgs)
         /\ InsertAll(s, E).dedup = s.dedup
         /\ InsertAll(s, E).queues = s.queues
         /\ InsertAll(s, E).retention = s.retention
<1>1. \A e \in s.msgs, f \in E : ~SameKey(e, f)
  BY DEF StoreOK, Store, EntryType, SameKey
<1>2. {e \in s.msgs : \A f \in E : ~SameKey(e, f)} = s.msgs
  BY <1>1
<1>3. InsertAll(s, E) = [s EXCEPT !.msgs = @ \cup E]
  BY <1>2, Zenon DEF InsertAll
<1>4. IsFiniteSet(s.msgs \cup E)
  BY FS_Union, Zenon DEF StoreOK
<1> QED
  BY <1>3, <1>4 DEF StoreOK, Store

\* Two entries with different ids are ordered.
LEMMA PrecedesTotal ==
  ASSUME NEW e \in EntryType, NEW f \in EntryType, e.id # f.id
  PROVE  Precedes(e, f) \/ Precedes(f, e)
BY DEF Precedes, EntryType

\* The order of the keys is strict.
LEMMA PrecedesStrict ==
  ASSUME NEW e \in EntryType, NEW f \in EntryType, NEW g \in EntryType
  PROVE  /\ ~Precedes(e, e)
         /\ Precedes(e, f) /\ Precedes(f, g) => Precedes(e, g)
BY DEF Precedes, EntryType

\* The ranks of the entries of S are distinct numbers below its size.
LEMMA RankFacts ==
  ASSUME NEW S \in SUBSET EntryType, IsFiniteSet(S),
         \A e, f \in S : e.id = f.id => e = f
  PROVE  /\ Cardinality(S) \in Nat
         /\ \A e \in S : Rank(e, S) \in Nat /\ Rank(e, S) < Cardinality(S)
         /\ \A e, f \in S : Rank(e, S) = Rank(f, S) => e = f
<1> DEFINE Below(e) == {x \in S : Precedes(x, e)}
<1>1. \A e \in S : IsFiniteSet(Below(e)) /\ Cardinality(Below(e)) \in Nat
  BY FS_Subset, FS_CardinalityType
<1>2. Cardinality(S) \in Nat
  BY FS_CardinalityType
<1>3. ASSUME NEW e \in S, NEW T \in SUBSET S, Below(e) \subseteq T, e \in T
      PROVE  Cardinality(Below(e)) < Cardinality(T)
  <2>1. e \notin Below(e)
    BY PrecedesStrict
  <2>2. IsFiniteSet(T)
    BY FS_Subset
  <2>3. IsFiniteSet(T \ {e}) /\ Cardinality(T \ {e}) = Cardinality(T) - 1
    BY <2>2, <1>3, FS_RemoveElement, Zenon
  <2>4. Below(e) \in SUBSET (T \ {e})
    BY <2>1, <1>3
  <2>5. Cardinality(Below(e)) <= Cardinality(T \ {e})
    BY <2>3, <2>4, FS_Subset
  <2>6. Cardinality(T) \in Nat
    BY <2>2, FS_CardinalityType
  <2> HIDE DEF Below
  <2> QED
    BY <2>3, <2>5, <2>6, <1>1
<1>4. \A e \in S : Cardinality(Below(e)) < Cardinality(S)
  BY <1>3
<1>5. ASSUME NEW e \in S, NEW f \in S, Precedes(e, f)
      PROVE  Cardinality(Below(e)) < Cardinality(Below(f))
  <2>1. Below(e) \subseteq Below(f)
    BY <1>5, PrecedesStrict
  <2> QED
    BY <2>1, <1>3, <1>5
<1>6. ASSUME NEW e \in S, NEW f \in S, Cardinality(Below(e)) = Cardinality(Below(f))
      PROVE  e = f
  <2> HIDE DEF Below
  <2>1. ~Precedes(e, f) /\ ~Precedes(f, e)
    BY <1>1, <1>5, <1>6
  <2> QED
    BY <2>1, PrecedesTotal
<1> QED
  BY <1>1, <1>2, <1>4, <1>6, Zenon DEF Rank

\* The entries that replace those of D, a part of S, in the main tree.
RequeuedSet(D, S, base) == {Requeued(e, S, base) : e \in D}

\* The entries that replace those of S in the main tree: well formed, one per
\* entry of S, with the ids base .. base + Cardinality(S) - 1 in some order.
LEMMA RequeuedFacts ==
  ASSUME NEW S \in SUBSET EntryType, IsFiniteSet(S), NEW base \in Nat,
         \A e, f \in S : e.id = f.id => e = f
  PROVE  /\ RequeuedSet(S, S, base) \in SUBSET EntryType
         /\ IsFiniteSet(RequeuedSet(S, S, base))
         /\ Cardinality(RequeuedSet(S, S, base)) = Cardinality(S)
         /\ \A f \in RequeuedSet(S, S, base) :
              base <= f.id /\ f.id < base + Cardinality(S)
         /\ \A f, g \in RequeuedSet(S, S, base) : f.id = g.id => f = g
<1> DEFINE New == {Requeued(e, S, base) : e \in S}
           F == [e \in S |-> Requeued(e, S, base)]
<1>1. /\ Cardinality(S) \in Nat
      /\ \A e \in S : Rank(e, S) \in Nat /\ Rank(e, S) < Cardinality(S)
      /\ \A e, f \in S : Rank(e, S) = Rank(f, S) => e = f
  BY RankFacts
<1>2. ASSUME NEW e \in S
      PROVE  /\ Requeued(e, S, base) \in EntryType
             /\ Requeued(e, S, base).id = base + Rank(e, S)
  <2>1. e.msg \in Message /\ e.queue \in Queues
    BY DEF EntryType
  <2>2. KeyByte(e.msg.priority) \in Int
    BY <2>1 DEF KeyByte, Message
  <2>3. base + Rank(e, S) \in Nat
    BY <1>1
  <2> QED
    BY <2>1, <2>2, <2>3 DEF Requeued, Entry, EntryType, Trees
<1>3. \A e, f \in S : Requeued(e, S, base).id = Requeued(f, S, base).id => e = f
  BY <1>1, <1>2
<1>4. F \in Bijection(S, New)
  <2>1. F \in [S -> New]
    OBVIOUS
  <2>2. \A e, f \in S : F[e] = F[f] => e = f
    BY <1>3
  <2>3. \A g \in New : \E e \in S : F[e] = g
    OBVIOUS
  <2> HIDE DEF F, New
  <2> QED
    BY <2>1, <2>2, <2>3 DEF Bijection, Injection, Surjection, IsInjective
<1>5. IsFiniteSet(New) /\ Cardinality(New) = Cardinality(S)
  BY <1>4, FS_Bijection DEF ExistsBijection
<1>6. /\ New \in SUBSET EntryType
      /\ \A f \in New : base <= f.id /\ f.id < base + Cardinality(S)
      /\ \A f, g \in New : f.id = g.id => f = g
  BY <1>1, <1>2, <1>3
<1>7. New = RequeuedSet(S, S, base)
  BY DEF RequeuedSet
<1> HIDE DEF New
<1> QED
  BY <1>5, <1>6, <1>7

\* Removing entries keeps a store in order.
LEMMA RemoveOK ==
  ASSUME NEW n \in Nat, NEW s, StoreOK(s, n), NEW D
  PROVE  /\ StoreOK(RemoveAll(s, D), n)
         /\ RemoveAll(s, D).msgs = s.msgs \ D
         /\ RemoveAll(s, D).dedup = s.dedup
         /\ RemoveAll(s, D).queues = s.queues
         /\ RemoveAll(s, D).retention = s.retention
<1>1. IsFiniteSet(s.msgs \ D)
  BY FS_Difference, Zenon DEF StoreOK
<1> QED
  BY <1>1 DEF StoreOK, RemoveAll, Store

\* Store w is s without the entries D.
Without(w, s, D) ==
  /\ w.msgs = s.msgs \ D
  /\ w.dedup = s.dedup /\ w.queues = s.queues /\ w.retention = s.retention

\* Store w is s with the entries E added.
With(w, s, E) ==
  /\ w \in Store /\ w.msgs = s.msgs \cup E /\ IsFiniteSet(w.msgs)
  /\ w.dedup = s.dedup /\ w.queues = s.queues /\ w.retention = s.retention

\* RemoveOK and InsertFresh in those words.
LEMMA RemoveIs ==
  ASSUME NEW n \in Nat, NEW s, StoreOK(s, n), NEW D
  PROVE  Without(RemoveAll(s, D), s, D)
BY RemoveOK DEF Without

LEMMA InsertIs ==
  ASSUME NEW n \in Nat, NEW s, StoreOK(s, n), NEW E \in SUBSET EntryType,
         IsFiniteSet(E), \A f \in E : n <= f.id
  PROVE  With(InsertAll(s, E), s, E)
BY InsertFresh DEF With

\* Store w is s with the entries D replaced by f.
Replaced(w, s, D, f) ==
  /\ w.msgs = (s.msgs \ D) \cup {f}
  /\ w.dedup = s.dedup /\ w.queues = s.queues /\ w.retention = s.retention

\* Removing entries and inserting one under a new id replaces them.
LEMMA ReplaceFresh ==
  ASSUME NEW n \in Nat, NEW s, StoreOK(s, n), NEW D, NEW f \in EntryType, n <= f.id
  PROVE  /\ InsertAll(RemoveAll(s, D), {f}) \in Store
         /\ Replaced(InsertAll(RemoveAll(s, D), {f}), s, D, f)
<1> DEFINE r == RemoveAll(s, D)
<1>1. /\ StoreOK(r, n) /\ r.msgs = s.msgs \ D /\ r.dedup = s.dedup
      /\ r.queues = s.queues /\ r.retention = s.retention
  BY RemoveOK
<1> DEFINE New == {f}
           w == InsertAll(r, New)
<1>2. New \in SUBSET EntryType /\ IsFiniteSet(New) /\ \A x \in New : n <= x.id
  BY FS_Singleton, Zenon
<1> HIDE DEF r, New
<1>3. /\ w \in Store /\ w.msgs = r.msgs \cup New
      /\ w.dedup = r.dedup /\ w.queues = r.queues /\ w.retention = r.retention
  BY <1>1, <1>2, InsertFresh
<1> QED
  BY <1>1, <1>3, Zenon DEF Replaced, r, New

-----------------------------------------------------------------------------
(* What one call may do to a store *)

\* Store w results from store s by some of the writes of one call, which puts
\* messages only under the entries New: an entry of w is an entry of s, or has
\* a new id, or has the id and message of an entry that it replaces; and no
\* message of s is gone from w unless the call settles it.
Follows(w, s, New) ==
  /\ w \in Store /\ IsFiniteSet(w.msgs) /\ IsFiniteSet(w.dedup)
  /\ \A e \in w.msgs : e.queue \in w.queues
  /\ \A f \in w.msgs \ s.msgs :
       /\ f \in New
       /\ \/ nextId <= f.id
          \/ \E e \in s.msgs \ w.msgs : e.id = f.id /\ e.msg.uid = f.msg.uid
  /\ \A d \in w.dedup :
       d.queue \in w.queues /\ (d \in s.dedup \/ d.by \in Uids(w.msgs))
  /\ Uids(s.msgs) \subseteq Uids(w.msgs) \cup acked' \cup expired'

\* Adding an entry under a new id, with records of its own message, follows.
LEMMA AddFollows ==
  ASSUME NEW s, StoreOK(s, nextId), NEW e, NEW w \in Store,
         e.queue \in s.queues, nextId <= e.id,
         w.msgs = s.msgs \cup {e}, w.queues = s.queues,
         IsFiniteSet(w.msgs), IsFiniteSet(w.dedup),
         \A d \in w.dedup : d \in s.dedup \/ (d.queue = e.queue /\ d.by = e.msg.uid)
  PROVE  Follows(w, s, {e})
<1>1. Uids(s.msgs) \subseteq Uids(w.msgs) /\ e.msg.uid \in Uids(w.msgs)
  BY Zenon DEF Uids
<1> QED
  BY <1>1, Zenon DEF Follows, StoreOK

\* The conjuncts of IndInv about disk are preserved by a call all of whose
\* writes follow a store on disk.
LEMMA DiskStep ==
  ASSUME IndInv, NEW s \in disk, NEW New \in SUBSET EntryType,
         nextId' \in Nat, nextId <= nextId',
         \A f \in New : f.id < nextId',
         \A f, g \in New : f.id = g.id => f = g,
         published' \in Nat, published <= published',
         \A f \in New : f.msg.uid < published',
         \A w \in disk' : w \in disk \/ Follows(w, s, New),
         acked \subseteq acked', expired \subseteq expired', safe' = safe,
         \A h \in handed' : \/ h \in handed
                            \/ \E e \in s.msgs : e.id = h.tag /\ e.msg.uid = h.uid
  PROVE  /\ \A w \in disk' : StoreOK(w, nextId')
         /\ IdsOwned' /\ TagsOwned' /\ OnlyAccepted'
         /\ NoLossOnceSynced' /\ DedupBacked'
<1>0. /\ nextId \in Nat
      /\ \A t \in disk : StoreOK(t, nextId)
      /\ \A t \in disk : \A e \in t.msgs : e.id \in Nat /\ e.id < nextId
      /\ \A f \in New : f.id \in Nat
  BY DEF IndInv, TypeOK, StoreOK, Store, EntryType
<1>1. ASSUME NEW w \in disk' PROVE StoreOK(w, nextId')
  <2>1. CASE w \in disk
    BY <1>0, <2>1 DEF StoreOK
  <2>2. CASE Follows(w, s, New)
    <3>1. \A e \in w.msgs : e.id < nextId' /\ e.queue \in w.queues
      BY <1>0, <2>2 DEF Follows
    <3>2. ASSUME NEW e \in w.msgs, NEW f \in w.msgs, e.id = f.id PROVE e = f
      <4>1. CASE e \in s.msgs /\ f \in s.msgs
        BY <1>0, <3>2, <4>1, Zenon DEF StoreOK
      <4>2. CASE e \notin s.msgs /\ f \notin s.msgs
        BY <2>2, <3>2, <4>2, Zenon DEF Follows
      <4>3. ASSUME NEW x \in w.msgs, NEW y \in w.msgs, x.id = y.id,
                   x \in s.msgs, y \notin s.msgs
            PROVE  FALSE
        <5>1. PICK z \in s.msgs \ w.msgs : z.id = y.id
          BY <1>0, <2>2, <4>3 DEF Follows
        <5>2. z = x
          BY <1>0, <4>3, <5>1 DEF StoreOK
        <5> QED
          BY <5>1, <5>2
      <4> QED
        BY <3>2, <4>1, <4>2, <4>3
    <3> QED
      BY <2>2, <3>1, <3>2 DEF StoreOK, Follows
  <2> QED
    BY <2>1, <2>2
<1>2. ASSUME NEW w \in disk', NEW f \in w.msgs
      PROVE  \/ \E t \in disk : \E e \in t.msgs : e.id = f.id /\ e.msg.uid = f.msg.uid
             \/ f \in New /\ nextId <= f.id
  BY DEF Follows
<1>3. IdsOwned'
  <2> SUFFICES ASSUME NEW v \in disk', NEW w \in disk',
                      NEW e \in v.msgs, NEW f \in w.msgs, e.id = f.id
               PROVE  e.msg.uid = f.msg.uid
    BY DEF IdsOwned
  <2>1. CASE e \in New /\ nextId <= e.id
    BY <1>0, <1>2, <2>1
  <2>2. CASE f \in New /\ nextId <= f.id
    BY <1>0, <1>2, <2>2
  <2>3. CASE /\ \E t \in disk : \E x \in t.msgs : x.id = e.id /\ x.msg.uid = e.msg.uid
             /\ \E t \in disk : \E x \in t.msgs : x.id = f.id /\ x.msg.uid = f.msg.uid
    BY <2>3 DEF IndInv, IdsOwned
  <2> QED
    BY <1>2, <2>1, <2>2, <2>3, Zenon
<1>4. TagsOwned'
  <2> SUFFICES ASSUME NEW h \in handed'
               PROVE  /\ h.tag < nextId'
                      /\ \A w \in disk' : \A f \in w.msgs :
                           f.id = h.tag => f.msg.uid = h.uid
    BY DEF TagsOwned
  <2>1. /\ h.tag \in Nat /\ h.tag < nextId
        /\ \A t \in disk : \A e \in t.msgs : e.id = h.tag => e.msg.uid = h.uid
    <3>1. CASE h \in handed
      BY <3>1 DEF IndInv, TypeOK, TagsOwned
    <3>2. CASE \E e \in s.msgs : e.id = h.tag /\ e.msg.uid = h.uid
      BY <1>0, <3>2 DEF IndInv, IdsOwned
    <3> QED
      BY <3>1, <3>2
  <2>2. h.tag < nextId'
    BY <1>0, <2>1
  <2>3. ASSUME NEW w \in disk', NEW f \in w.msgs, f.id = h.tag
        PROVE  f.msg.uid = h.uid
    BY <1>0, <1>2, <2>1, <2>3
  <2> QED
    BY <2>2, <2>3
<1>5. NoLossOnceSynced'
  <2> SUFFICES ASSUME NEW w \in disk', NEW u \in safe, u \notin acked', u \notin expired'
               PROVE  u \in Uids(w.msgs)
    BY DEF NoLossOnceSynced, Uids
  <2>1. \A t \in disk : u \in Uids(t.msgs)
    BY DEF IndInv, NoLossOnceSynced
  <2> QED
    BY <2>1 DEF Follows
<1>6. DedupBacked'
  <2> SUFFICES ASSUME NEW w \in disk', NEW d \in w.dedup
               PROVE  d.by \in Uids(w.msgs) \cup acked' \cup expired'
    BY DEF DedupBacked, Uids
  <2>1. \A t \in disk : \A x \in t.dedup : x.by \in Uids(t.msgs) \cup acked \cup expired
    BY DEF IndInv, DedupBacked
  <2> QED
    BY <2>1 DEF Follows
<1>7. OnlyAccepted'
  <2> SUFFICES ASSUME NEW w \in disk', NEW f \in w.msgs PROVE f.msg.uid < published'
    BY DEF OnlyAccepted
  <2>1. published \in Nat /\ \A t \in disk : \A e \in t.msgs : e.msg.uid \in Nat /\ e.msg.uid < published
    BY <1>0, Zenon DEF IndInv, TypeOK, OnlyAccepted, StoreOK, Store, EntryType, Message
  <2>2. CASE \E t \in disk : \E e \in t.msgs : e.msg.uid = f.msg.uid
    BY <2>1, <2>2, SMTT(40)
  <2> QED
    BY <1>2, <2>2
<1> QED
  BY <1>1, <1>3, <1>4, <1>5, <1>6, <1>7

\* The parts of the invariant, for citing them one by one.
LEMMA InvFacts ==
  ASSUME IndInv
  PROVE  /\ nextId \in Nat /\ db \in disk /\ StoreOK(db, nextId) /\ db \in Store
         /\ IsFiniteSet(db.msgs) /\ IsFiniteSet(db.dedup)
BY Zenon DEF IndInv, TypeOK, StoreOK

-----------------------------------------------------------------------------
(* The initial state, the calls of clients, Sync *)

\* An empty data directory satisfies the invariant.
LEMMA InitIndInv == Init => IndInv
<1> SUFFICES ASSUME Init PROVE IndInv
  OBVIOUS
<1>1. EmptyStore \in Store
  BY DEF EmptyStore, Store
<1>2. IsFiniteSet({})
  BY FS_EmptySet, Zenon
<1>3. StoreOK(EmptyStore, 0)
  BY <1>1, <1>2 DEF StoreOK, EmptyStore
<1>4. TypeOK
  BY <1>1 DEF Init, TypeOK
<1>5. IdsOwned /\ TagsOwned /\ OnlyAccepted
  BY DEF Init, EmptyStore, IdsOwned, TagsOwned, OnlyAccepted
<1>6. NoLossOnceSynced /\ DedupBacked
  BY DEF Init, EmptyStore, NoLossOnceSynced, DedupBacked
<1> QED
  BY <1>3, <1>4, <1>5, <1>6, Zenon DEF Init, IndInv

\* declare_queue keeps the invariant.
LEMMA DeclareStep ==
  ASSUME IndInv, NEW q \in Queues, NEW policy \in Policies, Declare(q, policy)
  PROVE  IndInv'
<1> DEFINE s1 == DeclareMeta(db, q)
           s2 == DeclareRetention(s1, q, policy)
<1>0. /\ nextId \in Nat /\ db \in disk /\ StoreOK(db, nextId) /\ db \in Store
      /\ published \in Nat
  BY InvFacts DEF IndInv, TypeOK
<1>1. db' = s2 /\ disk' = disk \cup {s1} \cup {s2}
  BY DEF Declare, Write
<1>2. /\ s1 \in Store /\ s1.msgs = db.msgs /\ s1.dedup = db.dedup
      /\ s1.queues = db.queues \cup {q}
  BY <1>0 DEF DeclareMeta, Store
<1>3. /\ s2 \in Store /\ s2.msgs = db.msgs /\ s2.dedup = db.dedup
      /\ s2.queues = db.queues \cup {q}
  BY <1>2, Zenon DEF DeclareRetention, Store
<1> HIDE DEF s1, s2
<1>4. Follows(s1, db, {}) /\ Follows(s2, db, {})
  BY <1>0, <1>2, <1>3, Zenon DEF Follows, StoreOK
<1>5. /\ \A w \in disk' : StoreOK(w, nextId')
      /\ IdsOwned' /\ TagsOwned' /\ OnlyAccepted' /\ NoLossOnceSynced' /\ DedupBacked'
  <2> DEFINE New == {}
  <2>1. /\ nextId' = nextId /\ published' = published /\ safe' = safe
        /\ acked' = acked /\ expired' = expired /\ handed' = handed
    BY Zenon DEF Declare, history
  <2>2. nextId' \in Nat /\ nextId <= nextId' /\ published' \in Nat /\ published <= published'
    BY <1>0, <2>1
  <2>3. \A w \in disk' : w \in disk \/ Follows(w, db, New)
    BY <1>1, <1>4, Zenon
  <2>4. /\ New \in SUBSET EntryType
        /\ \A f \in New : f.id < nextId' /\ f.msg.uid < published'
        /\ \A f, g \in New : f.id = g.id => f = g
    BY Zenon
  <2> HIDE DEF New
  <2> QED
    BY <1>0, <2>1, <2>2, <2>3, <2>4, DiskStep, Zenon
<1>6. TypeOK'
  BY <1>1, <1>5, Zenon DEF Declare, history, IndInv, TypeOK, StoreOK
<1> QED
  BY <1>5, <1>6, Zenon DEF IndInv

\* What a publish of m stores: entry e, in store s1, then the dedup record.
Publishing(e, s1, q, m) ==
  /\ e.tree \in {"main", "scheduled"} /\ e.id = nextId /\ e.queue = q
  /\ e.msg.uid = published
  /\ s1.msgs = db.msgs \cup {e} /\ s1.dedup = db.dedup /\ s1.queues = db.queues
  /\ db' \in Store /\ db'.msgs = s1.msgs /\ db'.queues = db.queues
  /\ IsFiniteSet(db'.msgs) /\ IsFiniteSet(db'.dedup)
  /\ \A d \in db'.dedup : d \in db.dedup \/ (d.queue = q /\ d.by = published)
  /\ disk' = disk \cup {s1} \cup {db'}
  /\ e = PublishEntry(q, m, nextId, now)
  /\ db' = RecordDedupKey(s1, q, m, now)
  /\ s1.retention = db.retention /\ db'.retention = db.retention

\* What publish writes: the message under a new id, then its dedup record.
LEMMA PublishEffect ==
  ASSUME IndInv, NEW q \in Queues, NEW p \in Priorities, NEW at \in DeliverAts,
         NEW key \in DedupKeys \cup {None}, NEW ts \in {now} \cup ClientStamps,
         Publish(q, p, at, key, ts)
  PROVE  \E e \in EntryType, s1 \in Store : Publishing(e, s1, q, NewMessage(p, at, key, ts))
<1> DEFINE m  == NewMessage(p, at, key, ts)
           e  == PublishEntry(q, m, nextId, now)
           New == {e}
           s1 == InsertAll(db, New)
           s2 == RecordDedupKey(s1, q, m, now)
<1>0. /\ nextId \in Nat /\ db \in disk /\ StoreOK(db, nextId) /\ db \in Store
      /\ IsFiniteSet(db.msgs) /\ IsFiniteSet(db.dedup)
      /\ now \in Nat /\ published \in Nat
  BY InvFacts, Zenon DEF IndInv, TypeOK
<1>1. db' = s2 /\ disk' = disk \cup {s1} \cup {s2}
  BY Zenon DEF Publish, Write
<1>2. m \in Message /\ m.uid = published /\ m.dedup_key = key /\ m.deliver_at = at
  <2>0. now \in Int
    BY <1>0
  <2>1. p \in Nat /\ at \in Int \cup {None} /\ ts \in Int
    BY <2>0, ManagerAssumption, Zenon
  <2> QED
    BY <1>0, <2>1, SMTT(40) DEF NewMessage, Message
<1>3. /\ e \in EntryType /\ e.id = nextId /\ e.queue = q /\ e.msg = m
      /\ e.tree \in {"main", "scheduled"}
  <2>1. KeyByte(m.priority) \in Int
    BY <1>2 DEF KeyByte, Message
  <2>2. m.deliver_at # None => m.deliver_at \in Int
    BY <1>2 DEF Message
  <2> HIDE DEF m
  <2> QED
    BY <1>0, <1>2, <2>1, <2>2, Zenon DEF PublishEntry, Entry, EntryType, Trees
<1>entry. e = PublishEntry(q, NewMessage(p, at, key, ts), nextId, now)
  OBVIOUS
<1>record. s2 = RecordDedupKey(s1, q, NewMessage(p, at, key, ts), now)
  OBVIOUS
<1> HIDE DEF m, e
<1>4. New \in SUBSET EntryType /\ IsFiniteSet(New) /\ \A f \in New : nextId <= f.id
  <2>1. IsFiniteSet(New)
    BY FS_Singleton, Zenon
  <2>2. nextId <= e.id
    BY <1>0, <1>3, SMTT(40)
  <2> QED
    BY <1>3, <2>1, <2>2
<1> HIDE DEF New
<1>5. /\ s1 \in Store /\ s1.msgs = db.msgs \cup New /\ s1.dedup = db.dedup
      /\ s1.queues = db.queues /\ s1.retention = db.retention /\ IsFiniteSet(s1.msgs)
  BY <1>0, <1>4, InsertFresh
<1> HIDE DEF s1
<1>6. /\ s2 \in Store /\ s2.msgs = s1.msgs /\ s2.queues = s1.queues
      /\ s2.retention = s1.retention /\ IsFiniteSet(s2.dedup)
      /\ \A d \in s2.dedup : d \in s1.dedup \/ (d.queue = q /\ d.by = published)
  <2> DEFINE rec == [queue |-> q, key |-> m.dedup_key, at |-> now, by |-> m.uid]
             kept == {d \in s1.dedup : ~(d.queue = q /\ d.key = m.dedup_key)}
  <2>1. CASE s2 = s1
    BY <1>0, <1>5, <2>1, Zenon
  <2>2. CASE s2 = [s1 EXCEPT !.dedup = kept \cup {rec}] /\ m.dedup_key # None
    <3>1. rec \in DedupRecord /\ rec.queue = q /\ rec.by = published
      BY <1>0, <1>2, <2>2, SMTT(40) DEF DedupRecord, Message
    <3>2. kept \subseteq s1.dedup /\ IsFiniteSet(kept)
      BY <1>0, <1>5, FS_Subset
    <3>3. IsFiniteSet(kept \cup {rec})
      BY <3>2, FS_AddElement, Zenon
    <3> HIDE DEF rec, kept
    <3>4. /\ s2.dedup = kept \cup {rec} /\ s2.msgs = s1.msgs /\ s2.queues = s1.queues
          /\ s2.retention = s1.retention
      BY <1>5, <2>2 DEF Store
    <3>5. s2 \in Store
      BY <1>5, <2>2, <3>1, <3>2, SMTT(40) DEF Store
    <3> QED
      BY <3>1, <3>2, <3>3, <3>4, <3>5, Zenon
  <2> QED
    BY <2>1, <2>2, Zenon DEF RecordDedupKey
<1> HIDE DEF s2
<1>7. e.msg.uid = published /\ s1.msgs = db.msgs \cup {e}
  BY <1>2, <1>3, <1>5, Zenon DEF New
<1>8. /\ db' \in Store /\ db'.msgs = s1.msgs /\ db'.queues = db.queues
      /\ db'.retention = db.retention /\ IsFiniteSet(db'.msgs) /\ IsFiniteSet(db'.dedup)
      /\ \A d \in db'.dedup : d \in db.dedup \/ (d.queue = q /\ d.by = published)
      /\ disk' = disk \cup {s1} \cup {db'}
  BY <1>1, <1>5, <1>6, Zenon
<1> QED
  <2>1. Publishing(e, s1, q, NewMessage(p, at, key, ts))
    BY <1>1, <1>3, <1>5, <1>7, <1>8, <1>entry, <1>record, Zenon DEF Publishing
  <2> QED
    BY <1>3, <1>5, <2>1, Zenon

\* publish keeps the invariant, stored at once or scheduled.
LEMMA PublishStep ==
  ASSUME IndInv, NEW q \in Queues, NEW p \in Priorities, NEW at \in DeliverAts,
         NEW key \in DedupKeys \cup {None}, NEW ts \in {now} \cup ClientStamps,
         Publish(q, p, at, key, ts)
  PROVE  IndInv'
<1>0. /\ nextId \in Nat /\ db \in disk /\ StoreOK(db, nextId) /\ db \in Store
      /\ IsFiniteSet(db.dedup)
      /\ now \in Nat /\ published \in Nat /\ current_bytes \in Nat
  BY InvFacts, Zenon DEF IndInv, TypeOK
<1>1. /\ q \in db.queues
      /\ nextId' = nextId + 1 /\ published' = published + 1
      /\ current_bytes' = current_bytes + MsgLen
      /\ accepted' \subseteq accepted \cup [queue : Queues, key : DedupKeys, at : Nat, uid : Nat]
      /\ UNCHANGED <<now, crashes, safe, acked, expired, handed>>
  <2>1. /\ nextId' = nextId + 1
        /\ accepted' \subseteq accepted \cup {[queue |-> q, key |-> key, at |-> now, uid |-> published]}
        /\ key = None => accepted' = accepted
    BY Zenon DEF Publish, GenerateIds, NewMessage
  <2>2. key # None => [queue |-> q, key |-> key, at |-> now, uid |-> published]
                        \in [queue : Queues, key : DedupKeys, at : Nat, uid : Nat]
    BY <1>0
  <2>3. accepted' \subseteq accepted \cup [queue : Queues, key : DedupKeys, at : Nat, uid : Nat]
    BY <2>1, <2>2, Zenon
  <2> QED
    BY <2>1, <2>3, Zenon DEF Publish
<1>pick. PICK e \in EntryType, s1 \in Store : Publishing(e, s1, q, NewMessage(p, at, key, ts))
  BY PublishEffect, Zenon
<1>2. /\ e \in EntryType /\ s1 \in Store
      /\ e.tree \in {"main", "scheduled"} /\ e.id = nextId /\ e.queue = q
      /\ e.msg.uid = published
      /\ s1.msgs = db.msgs \cup {e} /\ s1.dedup = db.dedup /\ s1.queues = db.queues
      /\ db' \in Store /\ db'.msgs = s1.msgs /\ db'.queues = db.queues
      /\ IsFiniteSet(db'.msgs) /\ IsFiniteSet(db'.dedup)
      /\ \A d \in db'.dedup : d \in db.dedup \/ (d.queue = q /\ d.by = published)
      /\ disk' = disk \cup {s1} \cup {db'}
      /\ e = PublishEntry(q, NewMessage(p, at, key, ts), nextId, now)
      /\ db' = RecordDedupKey(s1, q, NewMessage(p, at, key, ts), now)
      /\ s1.retention = db.retention /\ db'.retention = db.retention
  BY <1>pick, Zenon DEF Publishing
<1> DEFINE New == {e}
<1>arith. /\ nextId <= nextId /\ nextId < nextId' /\ published < published'
          /\ nextId' \in Nat /\ published' \in Nat
          /\ nextId <= nextId' /\ published <= published'
  BY <1>0, <1>1
<1>3. Follows(s1, db, New)
  BY <1>0, <1>1, <1>2, <1>arith, AddFollows, Zenon
<1>4. Follows(db', db, New)
  BY <1>0, <1>1, <1>2, <1>arith, AddFollows, Zenon
<1>5. /\ New \in SUBSET EntryType
      /\ \A f \in New : f.id < nextId' /\ f.msg.uid < published'
      /\ \A f, g \in New : f.id = g.id => f = g
  BY <1>2, <1>arith, Zenon
<1> HIDE DEF New
<1>9. /\ \A w \in disk' : StoreOK(w, nextId')
      /\ IdsOwned' /\ TagsOwned' /\ OnlyAccepted' /\ NoLossOnceSynced' /\ DedupBacked'
  <2>1. \A w \in disk' : w \in disk \/ Follows(w, db, New)
    BY <1>2, <1>3, <1>4, Zenon
  <2> QED
    BY <1>0, <1>1, <1>5, <1>arith, <2>1, DiskStep, Zenon
<1>10. TypeOK'
  <2>1. /\ nextId' \in Nat /\ published' \in Nat /\ current_bytes' \in Nat
        /\ disk' \subseteq Store /\ db' \in disk'
    <3>1. MsgLen \in Nat
      BY StoreAssumption, Zenon
    <3>2. current_bytes' \in Nat
      BY <1>0, <1>1, <3>1
    <3>3. disk' \subseteq Store /\ db' \in disk'
      BY <1>2, <1>9, Zenon DEF StoreOK
    <3> QED
      BY <1>arith, <3>2, <3>3, Zenon
  <2> QED
    BY <1>1, <1>2, <2>1, Zenon DEF IndInv, TypeOK
<1> QED
  BY <1>9, <1>10, Zenon DEF IndInv

\* A transaction that replaces entry e by entry f for the same message, under
\* a new id or, from one tree to another, under the same id.
LEMMA MoveFollows ==
  ASSUME IndInv, NEW e \in db.msgs, NEW f \in EntryType, NEW w \in Store,
         f.queue = e.queue, f.msg.uid = e.msg.uid,
         nextId <= f.id \/ (f.id = e.id /\ f.tree # e.tree),
         w.msgs = (db.msgs \ {e}) \cup {f},
         w.dedup = db.dedup, w.queues = db.queues
  PROVE  Follows(w, db, {f})
<1>0. /\ StoreOK(db, nextId) /\ IsFiniteSet(db.msgs) /\ IsFiniteSet(db.dedup)
      /\ nextId \in Nat
  BY InvFacts
<1>1. IsFiniteSet(w.msgs)
  <2>1. IsFiniteSet(db.msgs \ {e})
    BY <1>0, FS_Difference, Zenon
  <2> QED
    BY <2>1, FS_AddElement
<1>2. \A x \in w.msgs : x.queue \in w.queues
  BY <1>0 DEF StoreOK
<1>3. \A x \in w.msgs \ db.msgs : x = f
  OBVIOUS
<1>4. nextId <= f.id \/ \E x \in db.msgs \ w.msgs : x.id = f.id /\ x.msg.uid = f.msg.uid
  OBVIOUS
<1>5. Uids(db.msgs) \subseteq Uids(w.msgs)
  BY Zenon DEF Uids
<1> QED
  BY <1>0, <1>1, <1>2, <1>3, <1>4, <1>5, Zenon DEF Follows, StoreOK

\* What a consume changes: entry e of the queue becomes entry f in flight.
Consuming(e, f, q) ==
  /\ e \in EntryType /\ e.tree = "main" /\ e.queue = q
  /\ f.tree = "inflight" /\ f.queue = q /\ f.id = e.id /\ f.msg = e.msg
  /\ db' \in Store /\ db'.msgs = (db.msgs \ {e}) \cup {f}
  /\ db'.dedup = db.dedup /\ db'.queues = db.queues
  /\ IsFirst(e, In(db, "main", q)) /\ db'.retention = db.retention
  /\ disk' = disk \cup {db'}
  /\ handed' = handed \cup {[queue |-> q, tag |-> e.id, uid |-> e.msg.uid]}

\* What a consume that finds a message changes.
LEMMA ConsumeEffect ==
  ASSUME IndInv, NEW q \in Queues, Consume(q)
  PROVE  \E e \in db.msgs, f \in EntryType : Consuming(e, f, q)
<1>0. /\ nextId \in Nat /\ db \in disk /\ StoreOK(db, nextId) /\ db \in Store
  BY InvFacts, Zenon
<1>1. PICK e \in In(db, "main", q) :
         /\ db' = ConsumeEntry(db, e) /\ disk' = disk \cup {db'}
         /\ IsFirst(e, In(db, "main", q))
         /\ handed' = handed \cup {[queue |-> q, tag |-> e.id, uid |-> e.msg.uid]}
  BY DEF Consume, Write
<1> DEFINE f == Entry("inflight", e.queue, 0, e.id, e.msg)
           New == {f}
           r == RemoveAll(db, {e})
<1>3. e \in db.msgs /\ e.tree = "main" /\ e.queue = q /\ e \in EntryType
  BY <1>0, Zenon DEF In, StoreOK, Store
<1>4. /\ f \in EntryType /\ f.queue = e.queue /\ f.msg = e.msg /\ f.id = e.id
      /\ f.tree = "inflight"
  BY <1>3, SMTT(40) DEF Entry, EntryType, Trees
<1>5. /\ r \in Store /\ r.msgs = db.msgs \ {e} /\ r.dedup = db.dedup
      /\ r.queues = db.queues /\ r.retention = db.retention
  <2>1. StoreOK(r, nextId)
    BY <1>0, RemoveOK, Zenon
  <2>2. r \in Store
    BY <2>1, Zenon DEF StoreOK
  <2>3. /\ r.msgs = db.msgs \ {e} /\ r.dedup = db.dedup
        /\ r.queues = db.queues /\ r.retention = db.retention
    BY <1>0, RemoveOK
  <2> QED
    BY <2>2, <2>3, Zenon
<1> HIDE DEF f, r
<1>6. \A x \in r.msgs : ~SameKey(x, f)
  BY <1>0, <1>3, <1>4, <1>5, Zenon DEF StoreOK, SameKey
<1>7. {x \in r.msgs : \A y \in New : ~SameKey(x, y)} = r.msgs
  BY <1>6
<1>8. db' = [r EXCEPT !.msgs = r.msgs \cup New]
  BY <1>1, <1>7, Zenon DEF ConsumeEntry, InsertAll, f, r
<1>9. /\ db' \in Store /\ db'.msgs = (db.msgs \ {e}) \cup {f}
      /\ db'.dedup = db.dedup /\ db'.queues = db.queues /\ db'.retention = db.retention
  BY <1>4, <1>5, <1>8, Zenon DEF Store
<1>10. Consuming(e, f, q)
  BY <1>1, <1>3, <1>4, <1>9, Zenon DEF Consuming
<1> QED
  BY <1>3, <1>4, <1>10, Zenon

\* consume keeps the invariant.
LEMMA ConsumeStep ==
  ASSUME IndInv, NEW q \in Queues, Consume(q)
  PROVE  IndInv'
<1>0. /\ nextId \in Nat /\ db \in disk /\ StoreOK(db, nextId) /\ db \in Store
      /\ published \in Nat
  BY InvFacts, Zenon DEF IndInv, TypeOK
<1>pick. PICK e \in db.msgs, f \in EntryType : Consuming(e, f, q)
  BY ConsumeEffect, Zenon
<1>1. /\ e \in db.msgs /\ f \in EntryType
      /\ e \in EntryType /\ e.tree = "main" /\ e.queue = q
      /\ f.tree = "inflight" /\ f.queue = q /\ f.id = e.id /\ f.msg = e.msg
      /\ db' \in Store /\ db'.msgs = (db.msgs \ {e}) \cup {f}
      /\ db'.dedup = db.dedup /\ db'.queues = db.queues
      /\ IsFirst(e, In(db, "main", q)) /\ db'.retention = db.retention
      /\ disk' = disk \cup {db'}
      /\ handed' = handed \cup {[queue |-> q, tag |-> e.id, uid |-> e.msg.uid]}
  BY <1>pick, Zenon DEF Consuming
<1>2. UNCHANGED <<nextId, current_bytes, now, published, crashes, safe, acked,
                  expired, accepted>>
  BY Zenon DEF Consume
<1>3. e.id < nextId /\ e.msg.uid \in Nat /\ e.id \in Nat /\ e.msg.uid < published
  BY <1>0, <1>1, Zenon DEF StoreOK, EntryType, Message, IndInv, OnlyAccepted
<1> DEFINE New == {f}
<1>10. Follows(db', db, New)
  BY <1>1, MoveFollows, Zenon
<1>11. /\ New \in SUBSET EntryType
       /\ \A x \in New : x.id < nextId' /\ x.msg.uid < published'
       /\ \A x, y \in New : x.id = y.id => x = y
  BY <1>1, <1>2, <1>3, Zenon
<1>12. \A w \in disk' : w \in disk \/ Follows(w, db, New)
  BY <1>1, <1>10, Zenon
<1>13. \A h \in handed' : \/ h \in handed
                          \/ \E x \in db.msgs : x.id = h.tag /\ x.msg.uid = h.uid
  <2> DEFINE new == [queue |-> q, tag |-> e.id, uid |-> e.msg.uid]
  <2>1. new.tag = e.id /\ new.uid = e.msg.uid
    BY Zenon
  <2> HIDE DEF new
  <2>2. handed' = handed \cup {new}
    BY <1>1, Zenon DEF new
  <2> QED
    BY <1>1, <2>1, <2>2, Zenon
<1> HIDE DEF New
<1>14. /\ \A w \in disk' : StoreOK(w, nextId')
       /\ IdsOwned' /\ TagsOwned' /\ OnlyAccepted' /\ NoLossOnceSynced' /\ DedupBacked'
  <2>1. /\ nextId' \in Nat /\ nextId <= nextId'
        /\ published' \in Nat /\ published <= published'
    BY <1>0, <1>2
  <2> QED
    BY <1>0, <1>2, <1>11, <1>12, <1>13, <2>1, DiskStep, Zenon
<1>15. TypeOK'
  <2>1. handed' \subseteq [queue : Queues, tag : Nat, uid : Nat]
    <3>1. [queue |-> q, tag |-> e.id, uid |-> e.msg.uid] \in [queue : Queues, tag : Nat, uid : Nat]
      BY <1>3
    <3> QED
      BY <1>1, <3>1, Zenon DEF IndInv, TypeOK
  <2> QED
    BY <1>1, <1>2, <1>14, <2>1, Zenon DEF IndInv, TypeOK, StoreOK
<1> QED
  BY <1>14, <1>15, Zenon DEF IndInv

\* ack keeps the invariant.
LEMMA AckStep ==
  ASSUME IndInv, NEW q \in Queues, NEW tag, Ack(q, tag)
  PROVE  IndInv'
<1>0. /\ nextId \in Nat /\ db \in disk /\ StoreOK(db, nextId) /\ db \in Store
      /\ current_bytes \in Nat /\ published \in Nat
  BY InvFacts DEF IndInv, TypeOK
<1>1. PICK e \in In(db, "inflight", q) :
         /\ db' = RemoveAll(db, {e}) /\ disk' = disk \cup {db'}
         /\ acked' = acked \cup {e.msg.uid}
  BY ZenonT(40) DEF Ack, Write
<1>2. /\ UNCHANGED <<nextId, now, published, crashes, safe, expired, handed, accepted>>
      /\ current_bytes' = SaturatingSub(current_bytes, MsgLen)
  BY Zenon DEF Ack
<1>3. e \in db.msgs /\ e.msg.uid \in Nat
  BY <1>0, Zenon DEF In, StoreOK, Store, EntryType, Message
<1>4. /\ StoreOK(db', nextId) /\ db'.msgs = db.msgs \ {e}
      /\ db'.dedup = db.dedup /\ db'.queues = db.queues
  BY <1>0, <1>1, RemoveOK
<1>5. Follows(db', db, {})
  BY <1>0, <1>1, <1>3, <1>4, ZenonT(40) DEF Follows, StoreOK, Uids
<1>6. /\ \A w \in disk' : StoreOK(w, nextId')
      /\ IdsOwned' /\ TagsOwned' /\ OnlyAccepted' /\ NoLossOnceSynced' /\ DedupBacked'
  <2>1. /\ nextId' \in Nat /\ nextId <= nextId' /\ acked \subseteq acked'
        /\ published' \in Nat /\ published <= published'
    BY <1>0, <1>1, <1>2
  <2>2. \A w \in disk' : w \in disk \/ Follows(w, db, {})
    BY <1>1, <1>5
  <2> QED
    BY <1>0, <1>2, <2>1, <2>2, DiskStep, Zenon
<1>7. current_bytes' \in Nat
  BY <1>0, <1>2, StoreAssumption DEF SaturatingSub
<1>8. TypeOK'
  BY <1>1, <1>2, <1>3, <1>6, <1>7, Zenon DEF IndInv, TypeOK, StoreOK
<1> QED
  BY <1>6, <1>8, Zenon DEF IndInv

\* What a nack changes: entry e in flight becomes entry f under a fresh key.
Nacking(e, f, q) ==
  /\ e \in EntryType /\ e.tree = "inflight" /\ e.queue = q
  /\ f.tree \in {"main", "dlq"} /\ f.queue = q /\ f.id = nextId
  /\ f.msg.uid = e.msg.uid
  /\ f.tree = NackTree(PolicyOf(db, q), f.msg.delivery_attempts)
  /\ f.msg.delivery_attempts = e.msg.delivery_attempts + 1
  /\ f.msg.deliver_at = e.msg.deliver_at
  /\ f.hi = KeyByte(f.msg.priority) /\ db'.retention = db.retention
  /\ db' \in Store /\ db'.msgs = (db.msgs \ {e}) \cup {f}
  /\ db'.dedup = db.dedup /\ db'.queues = db.queues
  /\ disk' = disk \cup {db'}

\* A nack moves one copy under a fresh key.
LEMMA NackEffect ==
  ASSUME IndInv, NEW q \in Queues, NEW tag, Nack(q, tag)
  PROVE  \E e \in db.msgs, f \in EntryType : Nacking(e, f, q)
<1>0. /\ nextId \in Nat /\ db \in disk /\ StoreOK(db, nextId) /\ db \in Store
  BY InvFacts, Zenon
<1>1. PICK e \in In(db, "inflight", q) :
         db' = NackEntry(db, e, nextId) /\ disk' = disk \cup {db'}
  BY Zenon DEF Nack, Write
<1> DEFINE m == [e.msg EXCEPT !.delivery_attempts = @ + 1]
           t == NackTree(PolicyOf(db, e.queue), m.delivery_attempts)
           f == Entry(t, e.queue, KeyByte(m.priority), nextId, m)
<1>3. /\ e \in db.msgs /\ e \in EntryType /\ e.msg \in Message
      /\ e.tree = "inflight" /\ e.queue = q
  BY <1>0 DEF In, StoreOK, Store, EntryType
<1>4. /\ m \in Message /\ m.uid = e.msg.uid /\ m.deliver_at = e.msg.deliver_at
      /\ m.delivery_attempts = e.msg.delivery_attempts + 1
  BY <1>3 DEF Message
<1>5. t \in {"main", "dlq"}
  BY DEF NackTree
<1>tree. t = NackTree(PolicyOf(db, q), m.delivery_attempts)
  BY <1>3
<1>6. KeyByte(m.priority) \in Int
  BY <1>4, SMTT(40) DEF KeyByte, Message
<1> HIDE DEF m, t
<1>7. /\ f \in EntryType /\ f.queue = e.queue /\ f.msg.uid = e.msg.uid
      /\ f.id = nextId /\ f.tree = t /\ f.msg = m /\ f.hi = KeyByte(m.priority)
  BY <1>0, <1>3, <1>4, <1>5, <1>6, Zenon DEF Entry, EntryType, Trees
<1>8. db' = InsertAll(RemoveAll(db, {e}), {f})
  BY <1>1, Zenon DEF NackEntry, m, t
<1> HIDE DEF f
<1>9. nextId <= f.id
  BY <1>0, <1>7
<1>10. /\ InsertAll(RemoveAll(db, {e}), {f}) \in Store
       /\ Replaced(InsertAll(RemoveAll(db, {e}), {f}), db, {e}, f)
  BY <1>0, <1>7, <1>9, ReplaceFresh, Zenon
<1>11. /\ db' \in Store /\ db'.msgs = (db.msgs \ {e}) \cup {f}
       /\ db'.dedup = db.dedup /\ db'.queues = db.queues /\ db'.retention = db.retention
  BY <1>8, <1>10, Zenon DEF Replaced
<1>12. Nacking(e, f, q)
  BY <1>1, <1>3, <1>5, <1>7, <1>4, <1>11, <1>tree, Zenon DEF Nacking
<1> QED
  BY <1>3, <1>7, <1>12, Zenon

\* nack keeps the invariant, with a requeue and with a dead letter.
LEMMA NackStep ==
  ASSUME IndInv, NEW q \in Queues, NEW tag, Nack(q, tag)
  PROVE  IndInv'
<1>0. /\ nextId \in Nat /\ db \in disk /\ StoreOK(db, nextId) /\ db \in Store
      /\ published \in Nat
  BY InvFacts, Zenon DEF IndInv, TypeOK
<1>pick. PICK e \in db.msgs, f \in EntryType : Nacking(e, f, q)
  BY NackEffect, Zenon
<1>1. /\ e \in db.msgs /\ f \in EntryType
      /\ e \in EntryType /\ e.tree = "inflight" /\ e.queue = q
      /\ f.tree \in {"main", "dlq"} /\ f.queue = q /\ f.id = nextId
      /\ f.msg.uid = e.msg.uid
      /\ db' \in Store /\ db'.msgs = (db.msgs \ {e}) \cup {f}
      /\ db'.dedup = db.dedup /\ db'.queues = db.queues
      /\ disk' = disk \cup {db'}
  BY <1>pick, Zenon DEF Nacking
<1>2. /\ nextId' = nextId + 1
      /\ UNCHANGED <<current_bytes, now, history>>
  BY Zenon DEF Nack, GenerateIds
<1> DEFINE New == {f}
<1>3. e.msg.uid < published /\ nextId <= f.id
  BY <1>0, <1>1 DEF IndInv, OnlyAccepted
<1>10. /\ New \in SUBSET EntryType
       /\ \A x \in New : x.id < nextId' /\ x.msg.uid < published'
       /\ \A x, y \in New : x.id = y.id => x = y
  <2>1. nextId \in Nat /\ nextId' = nextId + 1 /\ published' = published
    BY <1>0, <1>2, Zenon DEF history
  <2>2. f.id < nextId' /\ f.msg.uid < published'
    BY <1>1, <1>3, <2>1
  <2> QED
    BY <1>1, <2>2, Zenon
<1>12. Follows(db', db, New)
  BY <1>1, <1>3, MoveFollows, Zenon
<1> HIDE DEF New
<1>13. /\ \A w \in disk' : StoreOK(w, nextId')
       /\ IdsOwned' /\ TagsOwned' /\ OnlyAccepted' /\ NoLossOnceSynced' /\ DedupBacked'
  <2>1. /\ nextId' \in Nat /\ nextId <= nextId'
        /\ published' \in Nat /\ published <= published'
    BY <1>0, <1>2 DEF history
  <2>2. \A w \in disk' : w \in disk \/ Follows(w, db, New)
    BY <1>1, <1>12, Zenon
  <2> QED
    BY <1>0, <1>2, <1>10, <2>1, <2>2, DiskStep, Zenon DEF history
<1>14. TypeOK'
  <2>1. disk' \subseteq Store
    BY <1>13, Zenon DEF StoreOK
  <2>2. db' \in Store /\ db' \in disk'
    BY <1>1
  <2> QED
    <3>1. nextId' \in Nat
      BY <1>0, <1>2
    <3> QED
      BY <1>2, <2>1, <2>2, <3>1, Zenon DEF IndInv, TypeOK, history
<1> QED
  BY <1>13, <1>14 DEF IndInv

\* A step that leaves disk and the history alone, and generates ids at most.
LEMMA IdleStep ==
  ASSUME IndInv, nextId' \in Nat, nextId <= nextId', now' \in Nat,
         UNCHANGED <<db, disk, current_bytes, history>>
  PROVE  IndInv'
<1>0. db \in disk /\ published \in Nat
  BY InvFacts, Zenon DEF IndInv, TypeOK
<1>1. /\ \A w \in disk' : StoreOK(w, nextId')
      /\ IdsOwned' /\ TagsOwned' /\ OnlyAccepted' /\ NoLossOnceSynced' /\ DedupBacked'
  <2> DEFINE New == {}
  <2>1. /\ New \in SUBSET EntryType
        /\ \A f \in New : f.id < nextId' /\ f.msg.uid < published'
        /\ \A f, g \in New : f.id = g.id => f = g
        /\ published' \in Nat /\ published <= published'
    BY <1>0 DEF history
  <2> HIDE DEF New
  <2> QED
    BY <1>0, <2>1, DiskStep DEF history
<1>2. TypeOK'
  BY DEF IndInv, TypeOK, history
<1> QED
  BY <1>1, <1>2 DEF IndInv

\* nack of a tag that does not parse keeps the invariant.
LEMMA NackInvalidTagStep ==
  ASSUME IndInv, NEW q \in Queues, NEW tag, NackInvalidTag(q, tag)
  PROVE  IndInv'
<1>1. /\ nextId \in Nat /\ nextId' = nextId + 1 /\ now' = now /\ now \in Nat
      /\ UNCHANGED <<db, disk, current_bytes, history>>
  BY DEF NackInvalidTag, GenerateIds, IndInv, TypeOK
<1> QED
  BY <1>1, IdleStep, SMTT(40)

\* The clock keeps the invariant.
LEMMA TickStep ==
  ASSUME IndInv, Tick
  PROVE  IndInv'
<1>1. /\ nextId \in Nat /\ nextId' = nextId /\ now' \in Nat
      /\ UNCHANGED <<db, disk, current_bytes, history>>
  BY DEF Tick, IndInv, TypeOK
<1> QED
  BY <1>1, IdleStep

\* A flush keeps the invariant.
LEMMA SyncStep ==
  ASSUME IndInv, Sync
  PROVE  IndInv'
<1>1. /\ disk' = {db} /\ safe' = safe \cup Uids(db.msgs)
      /\ UNCHANGED <<db, nextId, current_bytes, now, published, crashes, acked,
                     expired, handed, accepted>>
  BY DEF Sync
<1>2. db \in disk /\ db \in Store
  BY InvFacts
<1>3. Uids(db.msgs) \subseteq Nat
  BY <1>2 DEF Uids, Store, EntryType, Message
<1>4. TypeOK'
  BY <1>1, <1>2, <1>3, Zenon DEF IndInv, TypeOK
<1>5. /\ \A s \in disk' : StoreOK(s, nextId')
      /\ IdsOwned' /\ TagsOwned' /\ OnlyAccepted' /\ DedupBacked'
  <2>1. /\ disk' \subseteq disk /\ nextId' = nextId /\ published' = published
        /\ handed' = handed /\ acked' = acked /\ expired' = expired
    BY <1>1, <1>2, Zenon
  <2>2. (\A s \in disk' : StoreOK(s, nextId')) /\ IdsOwned' /\ OnlyAccepted'
    BY <2>1, Zenon DEF IndInv, IdsOwned, OnlyAccepted
  <2>3. TagsOwned'
    BY <2>1, Zenon DEF IndInv, TagsOwned
  <2>4. DedupBacked'
    BY <2>1, Zenon DEF IndInv, DedupBacked
  <2> QED
    BY <2>2, <2>3, <2>4, Zenon
<1>6. NoLossOnceSynced'
  BY <1>1, <1>2, SMTT(40) DEF IndInv, NoLossOnceSynced
<1> QED
  BY <1>4, <1>5, <1>6, Zenon DEF IndInv

-----------------------------------------------------------------------------
(* What a call does to the dedup windows *)

\* A keyed publish has left a record at least as young, if its queue keeps any.
Recorded ==
  \A a \in accepted :
    /\ a.queue \in db.queues /\ a.at <= now /\ a.uid < published
    /\ PolicyOf(db, a.queue).dedup_window_secs # None =>
         \E d \in db.dedup : d.queue = a.queue /\ d.key = a.key /\ a.at <= d.at

\* What an insert and a remove leave of the other trees.
LEMMA WriteFields ==
  ASSUME NEW s \in Store, NEW D, NEW E \in SUBSET EntryType
  PROVE  /\ InsertAll(s, E) \in Store /\ RemoveAll(s, D) \in Store
         /\ InsertAll(s, E).retention = s.retention /\ RemoveAll(s, D).retention = s.retention
         /\ InsertAll(s, E).queues = s.queues /\ RemoveAll(s, D).queues = s.queues
         /\ InsertAll(s, E).dedup = s.dedup /\ RemoveAll(s, D).dedup = s.dedup
         /\ InsertAll(s, E).msgs \subseteq s.msgs \cup E
         /\ RemoveAll(s, D).msgs = s.msgs \ D
<1> DEFINE kept == {e \in s.msgs : \A f \in E : ~SameKey(e, f)}
<1>1. kept \subseteq s.msgs /\ InsertAll(s, E) = [s EXCEPT !.msgs = kept \cup E]
  BY DEF InsertAll
<1> HIDE DEF kept
<1>2. /\ InsertAll(s, E) \in Store /\ InsertAll(s, E).retention = s.retention
      /\ InsertAll(s, E).queues = s.queues
      /\ InsertAll(s, E).dedup = s.dedup /\ InsertAll(s, E).msgs = kept \cup E
  BY <1>1, SMTT(40) DEF Store
<1>3. /\ RemoveAll(s, D) \in Store /\ RemoveAll(s, D).retention = s.retention
      /\ RemoveAll(s, D).queues = s.queues
      /\ RemoveAll(s, D).dedup = s.dedup /\ RemoveAll(s, D).msgs = s.msgs \ D
  BY SMTT(40) DEF RemoveAll, Store
<1> QED
  BY <1>1, <1>2, <1>3

\* A step that takes no publish, touches no dedup record and changes no policy
\* of a declared queue keeps the windows.
LEMMA WindowsKept ==
  ASSUME IndInv, Recorded, DedupWindow,
         accepted' = accepted, published' = published,
         now' \in Nat, now <= now', db'.dedup = db.dedup,
         \A q \in db.queues : q \in db'.queues /\ db'.retention[q] = db.retention[q]
  PROVE  Recorded' /\ DedupWindow'
<1>1. \A q \in db.queues : PolicyOf(db, q)' = PolicyOf(db, q)
  BY DEF PolicyOf
<1>2. now \in Nat /\ \A a \in accepted : a.at \in Nat
  BY DEF IndInv, TypeOK
<1>3. Recorded'
  <2> SUFFICES ASSUME NEW a \in accepted
               PROVE  /\ a.queue \in db'.queues /\ a.at <= now' /\ a.uid < published
                      /\ PolicyOf(db, a.queue)'.dedup_window_secs # None =>
                           \E d \in db.dedup : d.queue = a.queue /\ d.key = a.key /\ a.at <= d.at
    BY DEF Recorded, PolicyOf
  <2>1. a.queue \in db.queues /\ a.at <= now /\ a.uid < published
    BY DEF Recorded
  <2>2. PolicyOf(db, a.queue)' = PolicyOf(db, a.queue)
    BY <1>1, <2>1
  <2> QED
    BY <1>2, <2>1, <2>2 DEF Recorded
<1>4. DedupWindow'
  <2>1. \A a \in accepted : PolicyOf(db, a.queue)' = PolicyOf(db, a.queue)
    BY <1>1 DEF Recorded
  <2> QED
    BY <2>1, ZenonT(40) DEF DedupWindow
<1> QED
  BY <1>3, <1>4

\* Store w has the dedup records of s, that of message m at time t in the place
\* of the one with its key.
RecordsLeft(w, s, q, m, t) ==
  w.dedup = {d \in s.dedup : ~(d.queue = q /\ d.key = m.dedup_key)}
              \cup {[queue |-> q, key |-> m.dedup_key, at |-> t, by |-> m.uid]}

\* What publish leaves in the dedup tree if the queue has a window and the
\* message a key.
LEMMA RecordLeft ==
  ASSUME NEW s \in Store, NEW q, NEW m, NEW t,
         PolicyOf(s, q).dedup_window_secs # None, m.dedup_key # None
  PROVE  RecordsLeft(RecordDedupKey(s, q, m, t), s, q, m, t)
BY DEF RecordDedupKey, Store, RecordsLeft

\* A publish that is accepted lies a whole window after every earlier one with
\* its key.
LEMMA PublishWindows ==
  ASSUME IndInv, Recorded, DedupWindow, NEW q \in Queues, NEW p \in Priorities,
         NEW at \in DeliverAts, NEW key \in DedupKeys \cup {None},
         NEW ts \in {now} \cup ClientStamps, Publish(q, p, at, key, ts)
  PROVE  Recorded' /\ DedupWindow'
<1> DEFINE m == NewMessage(p, at, key, ts)
           new == [queue |-> q, key |-> key, at |-> now, uid |-> published]
           Window(r) == PolicyOf(db, r).dedup_window_secs
<1>pick. PICK e \in EntryType, s1 \in Store : Publishing(e, s1, q, m)
  BY PublishEffect, Zenon
<1>1. /\ e \in EntryType /\ s1 \in Store
      /\ s1.dedup = db.dedup /\ s1.queues = db.queues /\ s1.retention = db.retention
      /\ db' = RecordDedupKey(s1, q, m, now) /\ db'.retention = db.retention
      /\ db'.queues = db.queues
  BY <1>pick, Zenon DEF Publishing
<1>2. /\ q \in db.queues /\ ~IsDuplicate(db, q, m, now)
      /\ now' = now /\ published' = published + 1
      /\ accepted' = IF key = None THEN accepted ELSE accepted \cup {new}
  BY Zenon DEF Publish, NewMessage
<1>3. m.dedup_key = key /\ m.uid = published
  BY DEF NewMessage
<1>4. /\ now \in Nat /\ published \in Nat
      /\ \A a \in accepted : a.at \in Nat /\ a.uid \in Nat
      /\ \A d \in db.dedup : d.at \in Int
  BY InvFacts, Zenon DEF IndInv, TypeOK, Store, DedupRecord
<1>5. \A r : PolicyOf(db, r)' = PolicyOf(db, r) /\ PolicyOf(s1, r) = PolicyOf(db, r)
  BY <1>1, Zenon DEF PolicyOf
<1>6. new.queue = q /\ new.key = key /\ new.at = now /\ new.uid = published
  BY Zenon
<1> HIDE DEF m, new
<1>7. ASSUME NEW d \in db.dedup
      PROVE  \E c \in db'.dedup : c.queue = d.queue /\ c.key = d.key /\ (c = d \/ c.at = now)
  <2>1. CASE Window(q) # None /\ key # None
    <3> DEFINE rec == [queue |-> q, key |-> m.dedup_key, at |-> now, by |-> m.uid]
               kept == {c \in s1.dedup : ~(c.queue = q /\ c.key = m.dedup_key)}
    <3>0. /\ s1 \in Store
          /\ PolicyOf(s1, q).dedup_window_secs # None /\ m.dedup_key # None
      BY <1>1, <1>3, <1>5, <2>1, Zenon
    <3>1. db'.dedup = kept \cup {rec}
      <4>1. RecordsLeft(RecordDedupKey(s1, q, m, now), s1, q, m, now)
        BY <3>0, RecordLeft, Zenon
      <4> QED
        BY <1>1, <4>1, Zenon DEF RecordsLeft
    <3>2. rec.queue = q /\ rec.key = key /\ rec.at = now
      BY <1>3, Zenon
    <3>3. d \in kept \/ (d.queue = q /\ d.key = key)
      BY <1>1, <1>3, Zenon
    <3> HIDE DEF rec, kept
    <3> QED
      BY <3>1, <3>2, <3>3, Zenon
  <2>2. CASE ~(Window(q) # None /\ key # None)
    <3>1. db'.dedup = db.dedup
      BY <1>1, <1>3, <1>5, <2>2, Zenon DEF RecordDedupKey
    <3> QED
      BY <3>1
  <2> QED
    BY <2>1, <2>2, Zenon
<1>8. ASSUME NEW a \in accepted
      PROVE  /\ a.queue \in db'.queues /\ a.at <= now /\ a.uid < published
             /\ Window(a.queue) # None =>
                  \E c \in db'.dedup : c.queue = a.queue /\ c.key = a.key /\ a.at <= c.at
  <2>1. a.queue \in db.queues /\ a.at <= now /\ a.uid < published
    BY Zenon DEF Recorded
  <2>2. ASSUME Window(a.queue) # None
        PROVE  \E c \in db'.dedup : c.queue = a.queue /\ c.key = a.key /\ a.at <= c.at
    <3>1. PICK d \in db.dedup : d.queue = a.queue /\ d.key = a.key /\ a.at <= d.at
      BY <2>2, Zenon DEF Recorded
    <3>2. PICK c \in db'.dedup : c.queue = d.queue /\ c.key = d.key /\ (c = d \/ c.at = now)
      BY <1>7, Zenon
    <3> QED
      BY <2>1, <3>1, <3>2, Zenon
  <2> QED
    BY <1>1, <2>1, <2>2, Zenon
<1>9. (key # None /\ Window(q) # None) =>
        \E c \in db'.dedup : c.queue = q /\ c.key = key /\ c.at = now
  <2> SUFFICES ASSUME key # None, Window(q) # None
               PROVE  \E c \in db'.dedup : c.queue = q /\ c.key = key /\ c.at = now
    BY Zenon
  <2> DEFINE rec == [queue |-> q, key |-> m.dedup_key, at |-> now, by |-> m.uid]
  <2>0. /\ s1 \in Store
        /\ PolicyOf(s1, q).dedup_window_secs # None /\ m.dedup_key # None
    BY <1>1, <1>3, <1>5, Zenon
  <2>1. rec \in RecordDedupKey(s1, q, m, now).dedup
    <3>1. RecordsLeft(RecordDedupKey(s1, q, m, now), s1, q, m, now)
      BY <2>0, RecordLeft, Zenon
    <3> QED
      BY <3>1, Zenon DEF RecordsLeft
  <2>2. rec.queue = q /\ rec.key = key /\ rec.at = now
    BY <1>3, Zenon
  <2> HIDE DEF rec
  <2> QED
    BY <1>1, <2>1, <2>2, Zenon
<1>10. Recorded'
  <2> DEFINE Kept(a) == /\ a.queue \in db'.queues /\ a.at <= now /\ a.uid < published'
                        /\ Window(a.queue) # None =>
                             \E c \in db'.dedup : c.queue = a.queue /\ c.key = a.key /\ a.at <= c.at
  <2>1. ASSUME NEW a \in accepted
        PROVE  Kept(a)
    <3>0. a.uid \in Nat /\ a.uid < published /\ published \in Nat /\ published' = published + 1
      BY <1>2, <1>4, <1>8, Zenon
    <3>1. a.uid < published'
      BY <3>0
    <3> QED
      BY <1>8, <3>1, Zenon
  <2>2. ASSUME key # None
        PROVE  Kept(new)
    <3>0. /\ new.uid = published /\ new.at = now /\ published' = published + 1
          /\ published \in Nat /\ now \in Nat
      BY <1>2, <1>4, <1>6, Zenon
    <3>1. new.uid < published' /\ new.at <= now
      BY <3>0
    <3> QED
      BY <1>1, <1>2, <1>6, <1>9, <2>2, <3>1, Zenon
  <2>3. \A a \in accepted' : Kept(a)
    BY <1>2, <2>1, <2>2, Zenon
  <2>4. \A a \in accepted' : Window(a.queue) = PolicyOf(db', a.queue).dedup_window_secs
    BY <1>5, Zenon
  <2> QED
    BY <1>2, <2>3, <2>4, Zenon DEF Recorded
<1>11. ASSUME NEW a \in accepted, a.queue = q, a.key = key, key # None, Window(q) # None
       PROVE  now - a.at >= Window(q) * MsPerSec
  <2>1. a.at <= now /\ a.at \in Nat
    BY <1>4, <1>8, Zenon
  <2>2. PICK d \in db.dedup : d.queue = q /\ d.key = key /\ a.at <= d.at
    BY <1>11, Zenon DEF Recorded
  <2>3. Window(q) \in Nat
    <3>1. PolicyOf(db, q) \in PolicyType
      BY InvFacts, StoreAssumption, Zenon DEF PolicyOf, Store, DefaultPolicy, PolicyType, OptNat
    <3> QED
      BY <1>11, <3>1, Zenon DEF PolicyType, OptNat
  <2> DEFINE W == Window(q) * MsPerSec
  <2>4. W \in Nat /\ (Window(q) = 0 => W = 0)
    BY <2>3, StoreAssumption
  <2>5. CASE Window(q) > 0
    <3>1. ~(d.at > now - W)
      BY <1>2, <1>3, <1>11, <2>2, <2>5, Zenon DEF IsDuplicate
    <3> HIDE DEF W
    <3>2. now - a.at >= W
      BY <1>4, <2>1, <2>2, <2>4, <3>1
    <3> QED
      BY <3>2, Zenon DEF W
  <2>6. CASE Window(q) = 0
    <3> HIDE DEF W
    <3>1. now - a.at >= W
      BY <1>4, <2>1, <2>4, <2>6
    <3> QED
      BY <3>1, Zenon DEF W
  <2> QED
    BY <2>3, <2>5, <2>6
<1>12. DedupWindow'
  <2> SUFFICES ASSUME NEW a \in accepted', NEW b \in accepted',
                      a.queue = b.queue, a.key = b.key, a.uid < b.uid, Window(a.queue) # None
               PROVE  b.at - a.at >= Window(a.queue) * MsPerSec
    BY <1>5, Zenon DEF DedupWindow
  <2>1. CASE a \in accepted /\ b \in accepted
    BY <2>1, Zenon DEF DedupWindow
  <2>2. CASE a \in accepted /\ b = new /\ key # None
    BY <1>6, <1>11, <2>2, Zenon
  <2>3. CASE a = new
    <3>1. a.uid = published /\ published \in Nat /\ (b = new => b.uid = published)
      BY <1>4, <1>6, <2>3, Zenon
    <3>2. b \in accepted => b.uid \in Nat /\ b.uid < published
      BY <1>4, <1>8, Zenon
    <3>3. b \in accepted \/ b = new
      BY <1>2, Zenon
    <3> QED
      BY <3>1, <3>2, <3>3
  <2> QED
    BY <1>2, <2>1, <2>2, <2>3, Zenon
<1> QED
  BY <1>10, <1>12

-----------------------------------------------------------------------------
(* The daemon and recovery *)

\* The fields of a message that promotion or recovery makes ready.
LEMMA RequeuedFields ==
  ASSUME NEW e, NEW S, NEW base
  PROVE  /\ Requeued(e, S, base).queue = e.queue
         /\ Requeued(e, S, base).msg = e.msg
         /\ Requeued(e, S, base).tree = "main"
BY SMTT(40) DEF Requeued, Entry

\* F are the messages of D, ready.
Renumbers(F, D) ==
  /\ \A f \in F : f.tree = "main" /\ \E e \in D : f.queue = e.queue /\ f.msg = e.msg
  /\ \A e \in D : \E f \in F : f.queue = e.queue /\ f.msg = e.msg

\* A set of renumbered messages is made of those it renumbers.
LEMMA RequeuedMembers ==
  ASSUME NEW D, NEW S, NEW base
  PROVE  Renumbers(RequeuedSet(D, S, base), D)
<1>1. \A e \in D : /\ Requeued(e, S, base).queue = e.queue
                   /\ Requeued(e, S, base).msg = e.msg
                   /\ Requeued(e, S, base).tree = "main"
  BY RequeuedFields, Zenon
<1> QED
  BY <1>1, Zenon DEF RequeuedSet, Renumbers

\* A finite set of entries of one store, renumbered from nextId on.
LEMMA RenumberedFacts ==
  ASSUME IndInv, NEW s \in disk, NEW S \in SUBSET s.msgs
  PROVE  /\ nextId + Cardinality(S) \in Nat
         /\ nextId <= nextId + Cardinality(S)
         /\ RequeuedSet(S, S, nextId) \in SUBSET EntryType
         /\ IsFiniteSet(RequeuedSet(S, S, nextId))
         /\ \A f \in RequeuedSet(S, S, nextId) :
              nextId <= f.id /\ f.id < nextId + Cardinality(S)
         /\ \A f, g \in RequeuedSet(S, S, nextId) : f.id = g.id => f = g
         /\ published \in Nat /\ \A f \in RequeuedSet(S, S, nextId) : f.msg.uid < published
<1>1. StoreOK(s, nextId) /\ nextId \in Nat
  BY DEF IndInv, TypeOK
<1>2. /\ S \in SUBSET EntryType /\ IsFiniteSet(S)
      /\ \A e, f \in S : e.id = f.id => e = f
  BY <1>1, FS_Subset, Zenon DEF StoreOK, Store
<1>3. Cardinality(S) \in Nat
  BY <1>2, FS_CardinalityType, Zenon
<1>r. Renumbers(RequeuedSet(S, S, nextId), S)
  BY RequeuedMembers, Zenon
<1>4. \A f \in RequeuedSet(S, S, nextId) : \E e \in S : f.msg = e.msg
  BY <1>r, Zenon DEF Renumbers
<1>5. published \in Nat /\ \A f \in RequeuedSet(S, S, nextId) : f.msg.uid < published
  BY <1>4, Zenon DEF IndInv, TypeOK, OnlyAccepted
<1>6. /\ RequeuedSet(S, S, nextId) \in SUBSET EntryType
      /\ IsFiniteSet(RequeuedSet(S, S, nextId))
      /\ \A f \in RequeuedSet(S, S, nextId) :
           nextId <= f.id /\ f.id < nextId + Cardinality(S)
      /\ \A f, g \in RequeuedSet(S, S, nextId) : f.id = g.id => f = g
  BY <1>1, <1>2, RequeuedFacts, Zenon
<1>7. nextId + Cardinality(S) \in Nat /\ nextId <= nextId + Cardinality(S)
  BY <1>1, <1>3
<1> QED
  BY <1>5, <1>6, <1>7, Zenon

\* What promote_scheduled leaves in the trees.
LEMMA PromoteFollows ==
  ASSUME IndInv, NEW S \in SUBSET db.msgs, NEW D \in SUBSET S
  PROVE  Follows(Promote(db, S, D, nextId), db, RequeuedSet(S, S, nextId))
<1> DEFINE New == RequeuedSet(S, S, nextId)
           E == RequeuedSet(D, S, nextId)
           r == RemoveAll(db, D)
           w == InsertAll(r, E)
<1>0. /\ nextId \in Nat /\ db \in disk /\ StoreOK(db, nextId) /\ db \in Store
      /\ IsFiniteSet(db.dedup)
  BY InvFacts, Zenon
<1>1. /\ StoreOK(r, nextId) /\ r.msgs = db.msgs \ D /\ r.dedup = db.dedup
      /\ r.queues = db.queues
  BY <1>0, RemoveOK, SMTT(40)
<1> HIDE DEF r
<1>2. /\ w \in Store /\ w.msgs = r.msgs \cup E /\ IsFiniteSet(w.msgs)
      /\ w.dedup = r.dedup /\ w.queues = r.queues
  <2>1. /\ New \in SUBSET EntryType /\ IsFiniteSet(New)
        /\ \A f \in New : nextId <= f.id
    BY <1>0, RenumberedFacts
  <2>2. E \subseteq New
    BY DEF RequeuedSet
  <2> HIDE DEF New, E
  <2>3. IsFiniteSet(E)
    BY <2>1, <2>2, FS_Subset, Zenon
  <2>4. E \in SUBSET EntryType /\ \A f \in E : nextId <= f.id
    BY <2>1, <2>2
  <2>5. With(InsertAll(r, E), r, E)
    BY <1>0, <1>1, <2>3, <2>4, InsertIs, Zenon
  <2> QED
    BY <2>5, Zenon DEF With
<1>3. E \subseteq New /\ \A f \in New : nextId <= f.id
  BY <1>0, RenumberedFacts, Zenon DEF RequeuedSet
<1>r. Renumbers(E, D)
  BY RequeuedMembers, Zenon
<1>4. \A f \in E : \E e \in D : f.queue = e.queue
  BY <1>r, Zenon DEF Renumbers
<1>5. \A e \in D : \E f \in E : f.msg = e.msg
  BY <1>r, Zenon DEF Renumbers
<1> HIDE DEF w, E, New
<1>6. \A e \in w.msgs : e.queue \in w.queues
  BY <1>0, <1>1, <1>2, <1>4, Zenon DEF StoreOK
<1>7. Uids(db.msgs) \subseteq Uids(w.msgs)
  BY <1>1, <1>2, <1>5 DEF Uids
<1>8. Follows(w, db, New)
  BY <1>0, <1>1, <1>2, <1>3, <1>6, <1>7, Zenon DEF Follows, StoreOK
<1> QED
  BY <1>8, Zenon DEF Promote, RequeuedSet, w, E, New, r

\* promote_scheduled keeps the invariant.
LEMMA PromoteScheduledStep ==
  ASSUME IndInv, NEW q \in Queues, PromoteScheduled(q)
  PROVE  IndInv'
<1> DEFINE S == Due(db, q, now)
           New == RequeuedSet(S, S, nextId)
<1>0. /\ nextId \in Nat /\ db \in disk
  BY InvFacts, Zenon
<1>1. /\ db' = Promote(db, S, S, nextId)
      /\ disk' = disk \cup {Promote(db, S, {e \in S : Rank(e, S) < n}, nextId) :
                              n \in 0..Cardinality(S)} \cup {db'}
      /\ nextId' = nextId + Cardinality(S)
      /\ UNCHANGED <<current_bytes, now, history>>
  BY DEF PromoteScheduled, Write, GenerateIds
<1>2. S \in SUBSET db.msgs
  BY Zenon DEF Due, In
<1> HIDE DEF S
<1>3. /\ nextId' \in Nat /\ nextId <= nextId'
      /\ New \in SUBSET EntryType
      /\ \A f \in New : f.id < nextId' /\ f.msg.uid < published'
      /\ \A f, g \in New : f.id = g.id => f = g
      /\ published' \in Nat /\ published <= published'
  BY <1>0, <1>1, <1>2, RenumberedFacts, SMTT(40) DEF history
<1>4. \A D \in SUBSET S : Follows(Promote(db, S, D, nextId), db, New)
  BY <1>2, PromoteFollows
<1> HIDE DEF New
<1>5. \A w \in disk' : w \in disk \/ Follows(w, db, New)
  BY <1>1, <1>4, Zenon
<1>6. /\ \A w \in disk' : StoreOK(w, nextId')
      /\ IdsOwned' /\ TagsOwned' /\ OnlyAccepted' /\ NoLossOnceSynced' /\ DedupBacked'
  BY <1>0, <1>1, <1>3, <1>5, DiskStep, Zenon DEF history
<1>7. TypeOK'
  BY <1>1, <1>3, <1>6, Zenon DEF IndInv, TypeOK, StoreOK, history
<1> QED
  BY <1>6, <1>7, Zenon DEF IndInv

\* recalculate_bytes yields a number for a store in order.
LEMMA RecalculatedNat ==
  ASSUME NEW n, NEW s, StoreOK(s, n)
  PROVE  RecalculatedBytes(s) \in Nat
<1> DEFINE M == {e \in s.msgs : e.queue \in s.queues}
           K == {d \in s.dedup : d.queue \in s.queues}
<1>1. IsFiniteSet(M) /\ IsFiniteSet(K)
  BY FS_Subset DEF StoreOK
<1>2. Cardinality(M) \in Nat /\ Cardinality(K) \in Nat
  BY <1>1, FS_CardinalityType
<1>3. \A a, b, c, d \in Nat : a * b + c * d \in Nat
  OBVIOUS
<1> HIDE DEF M, K
<1>4. MsgLen * Cardinality(M) + DedupLen * Cardinality(K) \in Nat
  BY <1>2, <1>3, StoreAssumption, Zenon
<1> QED
  BY <1>4, Zenon DEF RecalculatedBytes, M, K

\* apply_retention keeps the invariant.
LEMMA ApplyRetentionStep ==
  ASSUME IndInv, NEW q \in Queues, ApplyRetention(q)
  PROVE  IndInv'
<1> DEFINE D == Expired(db, q, now) \cup Excess(db, q, now)
<1>0. /\ nextId \in Nat /\ db \in disk /\ StoreOK(db, nextId) /\ db \in Store
      /\ published \in Nat
  BY InvFacts, Zenon DEF IndInv, TypeOK
<1>1. /\ db' = RemoveAll(db, D)
      /\ disk' = disk \cup {RemoveAll(db, P) : P \in RetentionProgress(db, q, now)}
                      \cup {db'}
      /\ current_bytes' = RecalculatedBytes(RemoveAll(db, D))
      /\ expired' = expired \cup Uids(D)
      /\ UNCHANGED <<nextId, now, published, crashes, safe, acked, handed, accepted>>
  BY DEF ApplyRetention, Write
<1>2. D \subseteq db.msgs
  BY Zenon DEF Expired, Excess, In
<1>3. RetentionProgress(db, q, now) \subseteq SUBSET D
  BY DEF RetentionProgress
<1> HIDE DEF D
<1>4. ASSUME NEW P \in SUBSET D PROVE Follows(RemoveAll(db, P), db, {})
  <2> DEFINE w == RemoveAll(db, P)
  <2>1. /\ StoreOK(w, nextId) /\ w.msgs = db.msgs \ P
        /\ w.dedup = db.dedup /\ w.queues = db.queues
    BY <1>0, RemoveOK, SMTT(40)
  <2> HIDE DEF w
  <2>2. Follows(w, db, {})
    BY <1>1, <2>1, Zenon DEF Follows, StoreOK, Uids
  <2> QED
    BY <2>2, Zenon DEF w
<1>5. \A w \in disk' : w \in disk \/ Follows(w, db, {})
  BY <1>1, <1>3, <1>4, Zenon
<1>6. /\ \A w \in disk' : StoreOK(w, nextId')
      /\ IdsOwned' /\ TagsOwned' /\ OnlyAccepted' /\ NoLossOnceSynced' /\ DedupBacked'
  <2>1. /\ nextId' \in Nat /\ nextId <= nextId' /\ expired \subseteq expired'
        /\ published' \in Nat /\ published <= published'
    BY <1>0, <1>1
  <2> QED
    BY <1>0, <1>1, <1>5, <2>1, DiskStep, Zenon
<1>7. current_bytes' \in Nat
  BY <1>0, <1>1, RemoveOK, RecalculatedNat, Zenon
<1>8. Uids(D) \subseteq Nat
  BY <1>0, <1>2, SMTT(40) DEF Uids, Store, EntryType, Message
<1>9. TypeOK'
  BY <1>1, <1>6, <1>7, <1>8, Zenon DEF IndInv, TypeOK, StoreOK
<1> QED
  BY <1>6, <1>9 DEF IndInv

\* What recovery makes of the trees that a crash has left.
LEMMA RecoverFollows ==
  ASSUME IndInv, NEW s \in disk, NEW p \in RecoveryProgress(s)
  PROVE  Follows(Recover(s, p[1], p[2], nextId), s,
                 RequeuedSet(Inflight(s), Inflight(s), nextId))
<1> DEFINE I == Inflight(s)
           C == p[1]
           R == p[2]
           New == RequeuedSet(I, I, nextId)
           E == RequeuedSet(C, I, nextId)
           v == InsertAll(s, E)
           w == RemoveAll(v, R)
<1>0. /\ nextId \in Nat /\ StoreOK(s, nextId) /\ s \in Store
      /\ IsFiniteSet(s.dedup)
  BY ZenonT(40) DEF IndInv, TypeOK, StoreOK
<1>1. /\ I \in SUBSET s.msgs /\ C \in SUBSET I /\ R \in SUBSET I
      /\ \A e \in I : e.tree = "inflight"
  BY Zenon DEF Inflight, RecoveryProgress
<1>2. R \subseteq C
  <2> DEFINE Of(q) == {e \in I : e.queue = q}
  <2>1. \A e \in R : Of(e.queue) \subseteq C
    BY Zenon DEF RecoveryProgress
  <2>2. \A e \in R : e \in Of(e.queue)
    BY <1>1, Zenon
  <2> HIDE DEF Of, I, C, R
  <2> QED
    BY <2>1, <2>2, Zenon
<1> HIDE DEF I, C, R
<1>3. /\ v \in Store /\ v.msgs = s.msgs \cup E /\ IsFiniteSet(v.msgs)
      /\ v.dedup = s.dedup /\ v.queues = s.queues
  <2>1. /\ New \in SUBSET EntryType /\ IsFiniteSet(New)
        /\ \A f \in New : nextId <= f.id
    BY <1>1, RenumberedFacts, Zenon
  <2>2. E \subseteq New
    BY <1>1 DEF RequeuedSet
  <2> HIDE DEF New, E
  <2>3. IsFiniteSet(E)
    BY <2>1, <2>2, FS_Subset, Zenon
  <2>4. E \in SUBSET EntryType /\ \A f \in E : nextId <= f.id
    BY <2>1, <2>2
  <2>5. With(InsertAll(s, E), s, E)
    BY <1>0, <2>3, <2>4, InsertIs, Zenon
  <2> QED
    BY <2>5, Zenon DEF With
<1> HIDE DEF v
<1>4. /\ w \in Store /\ w.msgs = (s.msgs \cup E) \ R
      /\ w.dedup = s.dedup /\ w.queues = s.queues
  BY <1>3 DEF RemoveAll, Store
<1>5. IsFiniteSet(w.msgs)
  BY <1>3, <1>4, FS_Difference, ZenonT(40)
<1>6. E \subseteq New
  BY <1>1 DEF RequeuedSet
<1>7. \A f \in New : nextId <= f.id
  BY <1>1, RenumberedFacts, Zenon
<1>r. Renumbers(E, C)
  BY RequeuedMembers, Zenon
<1>8. \A f \in E : \E e \in C : f.queue = e.queue
  BY <1>r, Zenon DEF Renumbers
<1>9. \A e \in C : \E f \in E : f.msg = e.msg
  BY <1>r, Zenon DEF Renumbers
<1>10. \A f \in E : f.tree = "main"
  BY <1>r, Zenon DEF Renumbers
<1> HIDE DEF w, E, New
<1>11. E \subseteq w.msgs
  BY <1>1, <1>4, <1>10, Zenon
<1>12. \A e \in w.msgs : e.queue \in w.queues
  BY <1>0, <1>1, <1>4, <1>8, Zenon DEF StoreOK
<1>13. Uids(s.msgs) \subseteq Uids(w.msgs)
  BY <1>2, <1>4, <1>9, <1>11 DEF Uids
<1>14. Follows(w, s, New)
  BY <1>0, <1>4, <1>5, <1>6, <1>7, <1>12, <1>13, Zenon DEF Follows, StoreOK
<1>15. Recover(s, C, R, nextId) = w
  BY DEF Recover, RequeuedSet, w, v, E, I
<1> QED
  BY <1>14, <1>15 DEF New, I, C, R

\* A crash and the recovery after it keep the invariant.
LEMMA RestartStep ==
  ASSUME IndInv, Restart
  PROVE  IndInv'
<1>1. PICK s \in disk :
         /\ db' = Recover(s, Inflight(s), Inflight(s), nextId)
         /\ disk' = {Recover(s, p[1], p[2], nextId) : p \in RecoveryProgress(s)}
         /\ nextId' = nextId + Cardinality(Inflight(s))
         /\ current_bytes' = RecalculatedBytes(s)
  BY DEF Restart
<1>2. /\ crashes' = crashes + 1 /\ accepted' = {}
      /\ UNCHANGED <<now, published, safe, acked, expired, handed>>
  BY DEF Restart
<1> DEFINE I == Inflight(s)
           New == RequeuedSet(I, I, nextId)
<1>3. I \in SUBSET s.msgs
  BY Zenon DEF Inflight
<1>4. \A w \in disk' : Follows(w, s, New)
  BY <1>1, RecoverFollows, Zenon
<1>5. db' \in disk'
  <2>1. <<I, I>> \in RecoveryProgress(s)
    BY DEF RecoveryProgress
  <2> HIDE DEF I
  <2>2. <<I, I>>[1] = I /\ <<I, I>>[2] = I
    OBVIOUS
  <2> QED
    BY <1>1, <2>1, <2>2, Zenon DEF I
<1> HIDE DEF I
<1>6. /\ nextId' \in Nat /\ nextId <= nextId'
      /\ New \in SUBSET EntryType
      /\ \A f \in New : f.id < nextId' /\ f.msg.uid < published'
      /\ \A f, g \in New : f.id = g.id => f = g
      /\ published' \in Nat /\ published <= published'
  <2>1. published \in Nat => published <= published
    OBVIOUS
  <2> QED
    BY <1>1, <1>2, <1>3, <2>1, RenumberedFacts, ZenonT(40) DEF I
<1> HIDE DEF New
<1>7. /\ \A w \in disk' : StoreOK(w, nextId')
      /\ IdsOwned' /\ TagsOwned' /\ OnlyAccepted' /\ NoLossOnceSynced' /\ DedupBacked'
  BY <1>2, <1>4, <1>6, DiskStep, Zenon
<1>8. current_bytes' \in Nat
  BY <1>1, RecalculatedNat, Zenon DEF IndInv
<1>9. TypeOK'
  <2>1. disk' \subseteq Store
    BY <1>7, Zenon DEF StoreOK
  <2>2. TypeOK /\ crashes' \in Nat
    BY <1>2 DEF IndInv, TypeOK
  <2>3. accepted' \subseteq [queue : Queues, key : DedupKeys, at : Nat, uid : Nat]
    BY <1>2, Zenon
  <2> QED
    BY <1>2, <1>5, <1>6, <1>8, <2>1, <2>2, <2>3, Zenon DEF TypeOK
<1> QED
  BY <1>7, <1>9, Zenon DEF IndInv

-----------------------------------------------------------------------------
(* The theorems *)

\* Every step keeps the invariant.
LEMMA NextIndInv == IndInv /\ [Next]_vars => IndInv'
<1> SUFFICES ASSUME IndInv, [Next]_vars PROVE IndInv'
  OBVIOUS
<1>1. ASSUME NEW q \in Queues, NEW policy \in Policies, Declare(q, policy)
      PROVE  IndInv'
  BY <1>1, DeclareStep, Zenon
<1>2. ASSUME NEW q \in Queues, NEW p \in Priorities, NEW at \in DeliverAts,
             NEW key \in DedupKeys \cup {None}, NEW ts \in {now} \cup ClientStamps,
             Publish(q, p, at, key, ts)
      PROVE  IndInv'
  BY <1>2, PublishStep
<1>3. ASSUME NEW q \in Queues, Consume(q) PROVE IndInv'
  BY <1>3, ConsumeStep
<1>4. ASSUME NEW q \in Queues, NEW tag \in 0..(nextId - 1),
             Ack(q, tag) \/ Nack(q, tag) \/ NackInvalidTag(q, tag)
      PROVE  IndInv'
  BY <1>4, AckStep, NackStep, NackInvalidTagStep, Zenon
<1>5. ASSUME NEW q \in Queues, PromoteScheduled(q) PROVE IndInv'
  BY <1>5, PromoteScheduledStep
<1>6. ASSUME NEW q \in Queues, ApplyRetention(q) PROVE IndInv'
  BY <1>6, ApplyRetentionStep
<1>7. CASE Sync
  BY <1>7, SyncStep
<1>8. CASE Restart
  BY <1>8, RestartStep, Zenon
<1>9. CASE Tick
  BY <1>9, TickStep
<1>10. CASE UNCHANGED vars
  <2>1. /\ nextId' = nextId /\ nextId \in Nat /\ now' = now /\ now \in Nat
        /\ UNCHANGED <<db, disk, current_bytes, history>>
    BY <1>10 DEF vars, IndInv, TypeOK
  <2> QED
    BY <2>1, IdleStep
<1> QED
  BY <1>1, <1>2, <1>3, <1>4, <1>5, <1>6, <1>7, <1>8, <1>9, <1>10, Zenon DEF Next

\* The inductive invariant holds in every reachable state.
THEOREM Invariance == Spec => []IndInv
BY InitIndInv, NextIndInv, PTL DEF Spec

\* The variables keep their types, whatever the calls, syncs and crashes; in
\* particular the byte counter of the manager stays a natural number.
THEOREM TypeCorrect == Spec => []TypeOK
<1>1. IndInv => TypeOK
  BY DEF IndInv
<1> QED
  BY <1>1, Invariance, PTL

\* At-least-once: a message that a sync covered is in every store a crash may
\* leave until it is acked or expired, whatever crashes interrupt publish,
\* consume, nack, promote_scheduled, apply_retention and recover_inflight.
THEOREM AtLeastOnce == Spec => []NoLossOnceSynced
<1>1. IndInv => NoLossOnceSynced
  BY Zenon DEF IndInv
<1> QED
  BY <1>1, Invariance, PTL

\* The tag consume returned never names another message, so an ack or a nack
\* that arrives after any number of redeliveries and restarts settles the
\* message it was meant for or fails with InvalidDeliveryTag.
THEOREM TagSafety == Spec => []TagNamesOneMessage
<1>1. IndInv => TagNamesOneMessage
  BY DEF IndInv, TagsOwned, TagNamesOneMessage, In
<1> QED
  BY <1>1, Invariance, PTL

\* The order of publish's two writes is the safe one: no crash leaves a dedup
\* record without the message that wrote it.
THEOREM DedupSafety == Spec => []DedupBacked
<1>1. IndInv => DedupBacked
  BY DEF IndInv
<1> QED
  BY <1>1, Invariance, PTL

-----------------------------------------------------------------------------
(* No key accepted twice within its window *)

\* The calls that only move or remove messages.
LEMMA MovesOnly ==
  ASSUME IndInv, NEW q \in Queues, NEW tag,
         \/ Consume(q) \/ Ack(q, tag) \/ Nack(q, tag)
         \/ PromoteScheduled(q) \/ ApplyRetention(q)
  PROVE  /\ db'.queues = db.queues /\ db'.retention = db.retention /\ db'.dedup = db.dedup
         /\ UNCHANGED <<accepted, published, crashes, now>>
<1>0. db \in Store
  BY InvFacts, Zenon
<1>1. CASE Consume(q)
  <2>1. UNCHANGED <<accepted, published, crashes, now>>
    BY <1>1, Zenon DEF Consume
  <2> QED
    BY <1>1, <2>1, ConsumeEffect, Zenon DEF Consuming
<1>2. CASE Ack(q, tag)
  <2>1. PICK e : db' = RemoveAll(db, {e})
    BY <1>2, ZenonT(40) DEF Ack, Write
  <2>2. UNCHANGED <<accepted, published, crashes, now>>
    BY <1>2, Zenon DEF Ack
  <2> QED
    BY <1>0, <2>1, <2>2, WriteFields, Zenon
<1>3. CASE Nack(q, tag)
  <2>1. UNCHANGED <<accepted, published, crashes, now>>
    BY <1>3, Zenon DEF Nack, history
  <2> QED
    BY <1>3, <2>1, NackEffect, Zenon DEF Nacking
<1>4. CASE PromoteScheduled(q)
  <2> DEFINE S == Due(db, q, now)
             N == RequeuedSet(S, S, nextId)
  <2>1. /\ db' = InsertAll(RemoveAll(db, S), N)
        /\ UNCHANGED <<accepted, published, crashes, now>>
    BY <1>4, Zenon DEF PromoteScheduled, Write, Promote, RequeuedSet, history
  <2>2. S \in SUBSET db.msgs
    BY Zenon DEF Due, In
  <2> HIDE DEF S
  <2>3. N \in SUBSET EntryType
    BY <2>2, InvFacts, RenumberedFacts, Zenon
  <2> DEFINE r == RemoveAll(db, S)
  <2>4. /\ r \in Store /\ r.queues = db.queues /\ r.retention = db.retention
        /\ r.dedup = db.dedup
    BY <1>0, <2>3, WriteFields, Zenon
  <2> HIDE DEF N, r
  <2>5. /\ InsertAll(r, N).queues = r.queues /\ InsertAll(r, N).retention = r.retention
        /\ InsertAll(r, N).dedup = r.dedup
    BY <2>3, <2>4, WriteFields, Zenon
  <2> QED
    BY <2>1, <2>4, <2>5, Zenon DEF r
<1>5. CASE ApplyRetention(q)
  <2>1. PICK D : db' = RemoveAll(db, D)
    BY <1>5, ZenonT(40) DEF ApplyRetention, Write
  <2>2. UNCHANGED <<accepted, published, crashes, now>>
    BY <1>5, Zenon DEF ApplyRetention
  <2> QED
    BY <1>0, <2>1, <2>2, WriteFields, Zenon
<1> QED
  BY <1>1, <1>2, <1>3, <1>4, <1>5, Zenon

\* Every step keeps the windows.
LEMMA NextWindows ==
  IndInv /\ Recorded /\ DedupWindow /\ [Next]_vars => Recorded' /\ DedupWindow'
<1> SUFFICES ASSUME IndInv, Recorded, DedupWindow, [Next]_vars
             PROVE  Recorded' /\ DedupWindow'
  OBVIOUS
<1>0. now \in Nat /\ db \in Store
  BY DEF IndInv, TypeOK
<1>1. ASSUME NEW q \in Queues, NEW policy \in Policies, Declare(q, policy)
      PROVE  Recorded' /\ DedupWindow'
  <2>1. /\ db' = DeclareRetention(DeclareMeta(db, q), q, policy) /\ q \notin db.queues
        /\ accepted' = accepted /\ published' = published /\ now' = now
    BY <1>1 DEF Declare, Write, history
  <2>2. /\ db'.dedup = db.dedup
        /\ \A r \in db.queues : r \in db'.queues /\ db'.retention[r] = db.retention[r]
    BY <1>0, <2>1, Zenon DEF DeclareMeta, DeclareRetention, Store
  <2>3. now' \in Nat /\ now <= now'
    BY <1>0, <2>1
  <2> QED
    BY <2>1, <2>2, <2>3, WindowsKept, Zenon
<1>2. ASSUME NEW q \in Queues, NEW p \in Priorities, NEW at \in DeliverAts,
             NEW key \in DedupKeys \cup {None}, NEW ts \in {now} \cup ClientStamps,
             Publish(q, p, at, key, ts)
      PROVE  Recorded' /\ DedupWindow'
  BY <1>2, PublishWindows, Zenon
<1>3. ASSUME NEW q \in Queues, NEW tag,
             \/ Consume(q) \/ Ack(q, tag) \/ Nack(q, tag)
             \/ PromoteScheduled(q) \/ ApplyRetention(q)
      PROVE  Recorded' /\ DedupWindow'
  <2>1. /\ db'.queues = db.queues /\ db'.retention = db.retention /\ db'.dedup = db.dedup
        /\ accepted' = accepted /\ published' = published /\ now' = now
    BY <1>3, MovesOnly, Zenon
  <2> QED
    BY <1>0, <2>1, WindowsKept
<1>4. CASE Restart
  BY <1>4, Zenon DEF Restart, Recorded, DedupWindow
<1>5. ASSUME \/ UNCHANGED vars
             \/ Tick
             \/ Sync
             \/ \E q \in Queues, tag \in 0..(nextId - 1) : NackInvalidTag(q, tag)
      PROVE  Recorded' /\ DedupWindow'
  <2>1. /\ db' = db /\ accepted' = accepted /\ published' = published
        /\ now' \in Nat /\ now <= now'
    <3>1. db' = db /\ accepted' = accepted /\ published' = published
      BY <1>5, Zenon DEF Tick, Sync, NackInvalidTag, vars, history
    <3>2. now' = now \/ now' = now + 1
      BY <1>5, Zenon DEF Tick, Sync, NackInvalidTag, vars
    <3>3. now' \in Nat /\ now <= now'
      BY <1>0, <3>2
    <3> QED
      BY <3>1, <3>3
  <2> QED
    BY <2>1, WindowsKept, Zenon
<1> QED
  BY <1>1, <1>2, <1>3, <1>4, <1>5, Zenon DEF Next

\* Between crashes no two publishes with one key are both stored within one
\* dedup window, whatever the windows, keys and calls in between: publish's
\* check and the record it writes after the message agree.
THEOREM OncePerWindow == Spec => []DedupWindow
<1>1. Init => Recorded /\ DedupWindow
  BY Zenon DEF Init, Recorded, DedupWindow
<1>2. Spec => [](Recorded /\ DedupWindow)
  BY <1>1, NextWindows, Invariance, PTL DEF Spec
<1> QED
  BY <1>2, PTL
==============================================================================
