----------------------------- MODULE FlockProofs -----------------------------
(***************************************************************************)
(* The inductive invariant of a Flock, proved for any number of nodes, any *)
(* length of the log and any sizes of batches: what the log holds, what an *)
(* operation makes of a replica, and that the cluster comes to life.       *)
(***************************************************************************)
EXTENDS Flock, FiniteSetTheorems, WellFoundedInduction, TLAPS

(* The log says which messages are stored and under which ids, as long as    *)
(* no dedup window passes and a node is not restarted.                       *)

Publishes(L, i) == L[i].type = "publish"
KeyOf(L, i) == L[i].msgs[1].dedup_key
Window(L) == L[1].policy.dedup_window_secs

\* The batch at i has a key that an earlier one had.
Repeated(L, i) == \E j \in 1..(i - 1) : Publishes(L, j) /\ KeyOf(L, j) = KeyOf(L, i)

\* The messages of the batch at i that are stored.
Chosen(L, i) ==
  {k \in DOMAIN L[i].msgs :
     \/ Window(L) = None \/ KeyOf(L, i) = None
     \/ k = 1 /\ ~Repeated(L, i)}

\* What takes an id at i: a stored message, or a nack.
Slots(L, i) ==
  IF Publishes(L, i) THEN Chosen(L, i) ELSE IF L[i].type = "nack" THEN {0} ELSE {}

\* The ids taken up to i.
SlotsTo(L, i) == {s \in (1..i) \X (0..MaxUids) : s[2] \in Slots(L, s[1])}
Base(L, i) == Cardinality(SlotsTo(L, i))

\* The id of slot k at i.
IdAt(L, i, k) == Base(L, i - 1) + Cardinality({j \in Slots(L, i) : j < k})

\* The id was given to the message u: by its publish, or by the nack of a
\* delivery of it.
NamedByPublish(L, id, u) ==
  \E i \in 1..Len(L) : /\ Publishes(L, i)
                       /\ \E k \in Chosen(L, i) : IdAt(L, i, k) = id /\ L[i].msgs[k].uid = u

NamedByNack(L, H, id, u) ==
  \E i \in 1..Len(L) : /\ L[i].type = "nack" /\ IdAt(L, i, 0) = id
                       /\ \E d \in H : d.tag = L[i].tag /\ d.uid = u

Named(id, u) == NamedByPublish(log, id, u) \/ NamedByNack(log, handed, id, u)

-----------------------------------------------------------------------------
(* The invariants *)

\* An operation of the log.
Plain == [uid : Nat, priority : {0}, deliver_at : {None}, dedup_key : DedupKeys \cup {None},
          timestamp : {0}, delivery_attempts : {0}]

Operation ==
  [type : {"declare"}, policy : Policies]
    \cup [type : {"publish"}, msgs : Seq(Plain)]
    \cup [type : {"consume"}, max : Nat]
    \cup [type : {"ack", "nack"}, tag : Nat]

\* The log: the queue is declared first and once, the messages of a batch
\* have one key, and no message is published twice.
LogInv ==
  /\ log \in Seq(Operation) /\ Len(log) <= MaxLog
  /\ \A i \in 1..Len(log) : log[i].type = "declare" <=> i = 1
  /\ \A i \in 1..Len(log) : Publishes(log, i) =>
       /\ Len(log[i].msgs) \in 1..MaxUids
       /\ \A k \in DOMAIN log[i].msgs : log[i].msgs[k].dedup_key = KeyOf(log, i)
  /\ \A i, j \in 1..Len(log) : Publishes(log, i) /\ Publishes(log, j) =>
       \A k \in DOMAIN log[i].msgs, l \in DOMAIN log[j].msgs :
         log[i].msgs[k].uid = log[j].msgs[l].uid => i = j /\ k = l
  /\ Submitted = 0..(Cardinality(Submitted) - 1) /\ Cardinality(Submitted) \in Nat

\* What clients ack and nack was handed out to them.
UseInv ==
  /\ \A i \in 1..Len(log) : log[i].type = "ack" =>
       \E d \in handed : d.tag = log[i].tag /\ d.uid \in acked
  /\ \A i \in 1..Len(log) : log[i].type = "nack" => \E d \in handed : d.tag = log[i].tag
  /\ \A d \in handed : d.at <= Len(log)

\* A store whose database gives the id b next.
Sound(s, b) ==
  /\ IsFiniteSet(s.msgs)
  /\ \A e \in s.msgs : /\ e.queue = Q /\ e.tree # "scheduled" /\ e.id < b
                       /\ e.msg.priority = 0 /\ (e.tree = "main" => e.hi = 9)
                       /\ (e.tree = "inflight" => e.hi = 0)
  /\ \A e, f \in s.msgs : e.id = f.id => e = f
  /\ \A d \in s.dedup : d.queue = Q /\ d.at >= 0

\* What node n has applied.
NodeInv(n) ==
  /\ Sound(node[n].store, node[n].nextId)
  /\ node[n].applied <= Len(log)
  /\ node[n].applied = 0 => node[n].store = EmptyStore
  /\ node[n].applied > 0 => /\ node[n].store.queues = {Q}
                            /\ PolicyOf(node[n].store, Q) = log[1].policy
  /\ node[n].fresh => /\ node[n].applied = 0 /\ node[n].nextId = 0 /\ node[n].phase = "down"
                      /\ n \notin restarted

FlockInv ==
  /\ TypeOK /\ LogInv /\ UseInv /\ since <= Len(log) /\ IsFiniteSet(restarted)
  /\ \A n \in Nodes : NodeInv(n)
  /\ ComesToLife
  /\ (~node[Lowest].fresh => node[Lowest].phase = "starting" \/ initialized \/ stillborn)

-----------------------------------------------------------------------------
(* Counting *)

\* The members of S below k.
Below(S, k) == {j \in S : j < k}

\* A member of a finite set of numbers has fewer members below it than the
\* set has, and more than every smaller one has.
LEMMA Counting ==
  ASSUME NEW S \in SUBSET Int, IsFiniteSet(S)
  PROVE  /\ Cardinality(S) \in Nat
         /\ \A k \in S : /\ Cardinality(Below(S, k)) \in Nat
                         /\ Cardinality(Below(S, k)) < Cardinality(S)
         /\ \A k, l \in S : k < l => Cardinality(Below(S, k)) < Cardinality(Below(S, l))
<1>1. ASSUME NEW k \in S, NEW T \in SUBSET S, Below(S, k) \subseteq T, k \in T
      PROVE  Cardinality(Below(S, k)) \in Nat /\ Cardinality(Below(S, k)) < Cardinality(T)
  <2>1. IsFiniteSet(T) /\ Cardinality(T) \in Nat
    BY FS_Subset, FS_CardinalityType, Zenon
  <2>2. Cardinality(T \ {k}) = Cardinality(T) - 1 /\ IsFiniteSet(T \ {k})
    BY <2>1, <1>1, FS_RemoveElement, Zenon
  <2>3. Below(S, k) \in SUBSET (T \ {k})
    BY <1>1 DEF Below
  <2>4. /\ Cardinality(Below(S, k)) <= Cardinality(T \ {k})
        /\ IsFiniteSet(Below(S, k))
    BY <2>2, <2>3, FS_Subset
  <2>5. Cardinality(Below(S, k)) \in Nat
    BY <2>4, FS_CardinalityType
  <2> QED
    BY <2>1, <2>2, <2>4, <2>5
<1>2. Cardinality(S) \in Nat
  BY FS_CardinalityType
<1>3. \A k \in S : Below(S, k) \subseteq S
  BY DEF Below
<1>4. ASSUME NEW k \in S, NEW l \in S, k < l
      PROVE  Cardinality(Below(S, k)) < Cardinality(Below(S, l))
  <2>0. \A j \in S : j < k => j < l
    BY <1>4
  <2>1. Below(S, k) \subseteq Below(S, l) /\ k \in Below(S, l) /\ Below(S, l) \subseteq S
    BY <1>4, <2>0, Zenon DEF Below
  <2> DEFINE T == Below(S, l)
  <2> HIDE DEF T
  <2>2. T \in SUBSET S /\ Below(S, k) \subseteq T /\ k \in T
    BY <2>1 DEF T
  <2>3. Cardinality(Below(S, k)) < Cardinality(T)
    BY <2>2, <1>1
  <2> QED
    BY <2>3 DEF T
<1> QED
  BY <1>1, <1>2, <1>3, <1>4

\* The ids of entries.
Ids(E) == {e.id : e \in E}

\* Among entries of one tree and priority the iteration goes by ids.
LEMMA RankById ==
  ASSUME NEW S \in SUBSET EntryType, IsFiniteSet(S), NEW h \in Int,
         \A e \in S : e.hi = h,
         \A e, f \in S : e.id = f.id => e = f
  PROVE  /\ IsFiniteSet(Ids(S)) /\ Ids(S) \in SUBSET Nat
         /\ Cardinality(Ids(S)) = Cardinality(S)
         /\ \A e \in S : Rank(e, S) = Cardinality(Below(Ids(S), e.id))
<1>1. ASSUME NEW T \in SUBSET S
      PROVE  IsFiniteSet(Ids(T)) /\ Cardinality(Ids(T)) = Cardinality(T)
  <2> DEFINE F == [e \in T |-> e.id]
  <2>1. F \in [T -> Ids(T)] /\ \A g \in Ids(T) : \E e \in T : F[e] = g
    BY DEF Ids
  <2>2. \A e, f \in T : F[e] = F[f] => e = f
    OBVIOUS
  <2> HIDE DEF F
  <2>3. F \in Bijection(T, Ids(T))
    BY <2>1, <2>2 DEF Bijection, Injection, Surjection, IsInjective
  <2>4. IsFiniteSet(T)
    BY FS_Subset
  <2> QED
    BY <2>3, <2>4, FS_Bijection DEF ExistsBijection
<1>2. Ids(S) \in SUBSET Nat
  BY DEF Ids, EntryType
<1>3. ASSUME NEW e \in S
      PROVE  Rank(e, S) = Cardinality(Below(Ids(S), e.id))
  <2> DEFINE T == {f \in S : Precedes(f, e)}
  <2>1. \A f \in S : Precedes(f, e) <=> f.id < e.id
    BY DEF Precedes
  <2>2. Ids(T) = Below(Ids(S), e.id)
    BY <2>1 DEF Ids, Below
  <2>3. Cardinality(Ids(T)) = Cardinality(T)
    BY <1>1
  <2> QED
    BY <2>2, <2>3 DEF Rank
<1> QED
  BY <1>1, <1>2, <1>3

-----------------------------------------------------------------------------
(* The ids that the log gives *)

\* Every number of ids taken along the log is smaller than the ids that a
\* node takes after a restart.
LEMMA BaseBound ==
  ASSUME NEW L, NEW i \in Nat, i <= MaxLog
  PROVE  /\ IsFiniteSet(SlotsTo(L, i))
         /\ Base(L, i) \in Nat
         /\ Base(L, i) < IdGap
         /\ \A j \in 0..i : Base(L, j) \in Nat /\ Base(L, j) <= Base(L, i)
<1> DEFINE All == (1..MaxLog) \X (0..MaxUids)
<1>0. MaxLog \in Nat /\ MaxUids \in Nat /\ IdGap \in Nat /\ IdGap > MaxLog * (MaxUids + 1)
  BY FlockAssumption
<1>1. IsFiniteSet(1..MaxLog) /\ Cardinality(1..MaxLog) = MaxLog
  BY <1>0, FS_Interval
<1>2. IsFiniteSet(0..MaxUids) /\ Cardinality(0..MaxUids) = MaxUids + 1
  BY <1>0, FS_Interval
<1>3. IsFiniteSet(All) /\ Cardinality(All) = MaxLog * (MaxUids + 1)
  <2> DEFINE A == 1..MaxLog
             U == 0..MaxUids
  <2> HIDE DEF A, U
  <2>1. IsFiniteSet(A \X U) /\ Cardinality(A \X U) = Cardinality(A) * Cardinality(U)
    BY <1>1, <1>2, FS_Product, Zenon DEF A, U
  <2> QED
    BY <1>1, <1>2, <2>1, Zenon DEF A, U
<1>4. SlotsTo(L, i) \in SUBSET All
  <2> DEFINE U == 0..MaxUids
  <2>1. 1..i \subseteq 1..MaxLog
    BY <1>0
  <2> HIDE DEF U
  <2>2. \A s \in (1..i) \X U : s \in (1..MaxLog) \X U
    BY <2>1
  <2> QED
    BY <2>2 DEF SlotsTo, U
<1>5. IsFiniteSet(SlotsTo(L, i)) /\ Base(L, i) <= MaxLog * (MaxUids + 1)
  BY <1>3, <1>4, FS_Subset DEF Base
<1>6. Base(L, i) \in Nat
  BY <1>5, FS_CardinalityType DEF Base
<1>7. ASSUME NEW j \in 0..i PROVE Base(L, j) \in Nat /\ Base(L, j) <= Base(L, i)
  <2>1. SlotsTo(L, j) \in SUBSET SlotsTo(L, i)
    BY DEF SlotsTo
  <2> QED
    BY <2>1, <1>5, FS_Subset, FS_CardinalityType DEF Base
<1>8. MaxLog * (MaxUids + 1) \in Nat
  BY <1>0
<1>9. Base(L, i) < IdGap
  <2> HIDE DEF All
  <2> QED
    BY <1>0, <1>5, <1>6, <1>8
<1> QED
  BY <1>5, <1>6, <1>7, <1>9

\* The entry at i takes one id per slot.
LEMMA BaseStep ==
  ASSUME NEW L, NEW i \in Nat \ {0}, i <= MaxLog, Slots(L, i) \in SUBSET (0..MaxUids)
  PROVE  /\ IsFiniteSet(Slots(L, i)) /\ Cardinality(Slots(L, i)) \in Nat
         /\ Base(L, i) = Base(L, i - 1) + Cardinality(Slots(L, i))
<1> DEFINE New == {i} \X Slots(L, i)
<1>0. MaxLog \in Nat /\ MaxUids \in Nat /\ i - 1 \in Nat /\ i - 1 <= MaxLog
  BY FlockAssumption
<1>1. IsFiniteSet(0..MaxUids)
  BY <1>0, FS_Interval
<1>2. IsFiniteSet(Slots(L, i)) /\ Cardinality(Slots(L, i)) \in Nat
  BY <1>1, FS_Subset, FS_CardinalityType, Zenon
<1>3. IsFiniteSet({i}) /\ Cardinality({i}) = 1
  BY FS_Singleton
<1>4. IsFiniteSet(New) /\ Cardinality(New) = 1 * Cardinality(Slots(L, i))
  BY <1>2, <1>3, FS_Product
<1>5. SlotsTo(L, i) = SlotsTo(L, i - 1) \cup New /\ SlotsTo(L, i - 1) \cap New = {}
  <2> DEFINE U == 0..MaxUids
  <2> HIDE DEF U
  <2>1. \A s : s \in SlotsTo(L, i) <=> /\ s \in (1..i) \X U
                                       /\ s[2] \in Slots(L, s[1])
    BY DEF SlotsTo, U
  <2>2. \A s : s \in SlotsTo(L, i - 1) <=> /\ s \in (1..(i - 1)) \X U
                                           /\ s[2] \in Slots(L, s[1])
    BY DEF SlotsTo, U
  <2>3. \A s : s \in (1..i) \X U <=> \/ s \in (1..(i - 1)) \X U
                                     \/ s \in {i} \X U
    OBVIOUS
  <2>4. \A s : s \in New <=> s \in {i} \X U /\ s[2] \in Slots(L, s[1])
    BY DEF U
  <2>5. \A s : ~(s \in (1..(i - 1)) \X U /\ s \in {i} \X U)
    OBVIOUS
  <2> HIDE DEF New
  <2> QED
    BY <2>1, <2>2, <2>3, <2>4, <2>5
<1>6. IsFiniteSet(SlotsTo(L, i - 1)) /\ Base(L, i - 1) \in Nat
  BY <1>0, BaseBound, Zenon
<1> HIDE DEF New
<1>7. Cardinality(SlotsTo(L, i)) =
        Cardinality(SlotsTo(L, i - 1)) + Cardinality(New) - Cardinality({})
  BY <1>4, <1>5, <1>6, FS_Union
<1>8. Cardinality({}) = 0
  BY FS_EmptySet
<1>9. Base(L, i) = Base(L, i - 1) + Cardinality(Slots(L, i))
  BY <1>2, <1>4, <1>6, <1>7, <1>8 DEF Base
<1> QED
  BY <1>2, <1>9

\* The slots at i share out the ids from Base(L, i - 1) to Base(L, i) - 1.
LEMMA IdRange ==
  ASSUME NEW L, NEW i \in Nat \ {0}, i <= MaxLog, Slots(L, i) \in SUBSET (0..MaxUids)
  PROVE  /\ \A k \in Slots(L, i) : /\ IdAt(L, i, k) \in Nat
                                   /\ Base(L, i - 1) <= IdAt(L, i, k)
                                   /\ IdAt(L, i, k) < Base(L, i)
         /\ \A k, l \in Slots(L, i) : IdAt(L, i, k) = IdAt(L, i, l) => k = l
<1>1. /\ IsFiniteSet(Slots(L, i)) /\ Cardinality(Slots(L, i)) \in Nat
      /\ Base(L, i) = Base(L, i - 1) + Cardinality(Slots(L, i))
  BY BaseStep
<1>0. MaxLog \in Nat /\ MaxUids \in Nat /\ i - 1 \in Nat /\ i - 1 <= MaxLog
  BY FlockAssumption
<1>2. Base(L, i - 1) \in Nat
  BY <1>0, BaseBound, Zenon
<1>3. Slots(L, i) \in SUBSET Int
  BY <1>0
<1>4. /\ \A k \in Slots(L, i) : /\ Cardinality(Below(Slots(L, i), k)) \in Nat
                                /\ Cardinality(Below(Slots(L, i), k)) < Cardinality(Slots(L, i))
      /\ \A k, l \in Slots(L, i) :
           k < l => Cardinality(Below(Slots(L, i), k)) < Cardinality(Below(Slots(L, i), l))
  BY <1>1, <1>3, Counting
<1>5. \A k : IdAt(L, i, k) = Base(L, i - 1) + Cardinality(Below(Slots(L, i), k))
  BY DEF IdAt, Below
<1>6. \A k, l \in Slots(L, i) : k # l => k < l \/ l < k
  BY <1>3
<1> QED
  BY <1>1, <1>2, <1>4, <1>5, <1>6

\* No two slots of the log get the same id.
LEMMA IdInjective ==
  ASSUME NEW L, NEW i \in 1..MaxLog, NEW j \in 1..MaxLog,
         Slots(L, i) \in SUBSET (0..MaxUids), Slots(L, j) \in SUBSET (0..MaxUids),
         NEW k \in Slots(L, i), NEW l \in Slots(L, j), IdAt(L, i, k) = IdAt(L, j, l)
  PROVE  i = j /\ k = l
<1>0. MaxLog \in Nat
  BY FlockAssumption
<1>1. /\ IdAt(L, i, k) \in Nat /\ Base(L, i - 1) <= IdAt(L, i, k) /\ IdAt(L, i, k) < Base(L, i)
      /\ Base(L, j - 1) <= IdAt(L, j, l) /\ IdAt(L, j, l) < Base(L, j)
  BY <1>0, IdRange
<1>2. ASSUME NEW x \in 1..MaxLog, NEW y \in 1..MaxLog, x < y
      PROVE  Base(L, x) \in Nat /\ Base(L, y - 1) \in Nat /\ Base(L, x) <= Base(L, y - 1)
  BY <1>0, <1>2, BaseBound
<1>3. i = j
  BY <1>1, <1>2
<1> QED
  BY <1>0, <1>3, IdRange

-----------------------------------------------------------------------------
(* What the operations do to a store *)

\* The trees of w other than those of the messages are those of s.
SameMeta(w, s) == w.queues = s.queues /\ w.retention = s.retention

\* Messages that are inserted under new ids replace nothing.
LEMMA Inserting ==
  ASSUME NEW s \in Store, NEW E \in SUBSET EntryType,
         \A e \in s.msgs, f \in E : e.id # f.id
  PROVE  /\ InsertAll(s, E) \in Store
         /\ InsertAll(s, E).msgs = s.msgs \cup E
         /\ InsertAll(s, E).dedup = s.dedup /\ SameMeta(InsertAll(s, E), s)
<1>1. {e \in s.msgs : \A f \in E : ~SameKey(e, f)} = s.msgs
  BY DEF SameKey
<1>2. InsertAll(s, E) = [s EXCEPT !.msgs = @ \cup E]
  BY <1>1, Zenon DEF InsertAll
<1> QED
  BY <1>2 DEF Store, SameMeta

\* What removing entries leaves.
LEMMA Removing ==
  ASSUME NEW s \in Store, NEW D
  PROVE  /\ RemoveAll(s, D) \in Store
         /\ RemoveAll(s, D).msgs = s.msgs \ D
         /\ RemoveAll(s, D).dedup = s.dedup /\ SameMeta(RemoveAll(s, D), s)
BY DEF RemoveAll, Store, SameMeta

\* Entries D are replaced by E, whose ids no other entry has.
LEMMA Replacing ==
  ASSUME NEW s \in Store, NEW D, NEW E \in SUBSET EntryType,
         \A e \in s.msgs \ D, f \in E : e.id # f.id
  PROVE  LET w == InsertAll(RemoveAll(s, D), E)
         IN  /\ w \in Store /\ w.msgs = (s.msgs \ D) \cup E
             /\ w.dedup = s.dedup /\ SameMeta(w, s)
<1> DEFINE r == RemoveAll(s, D)
<1>1. r \in Store /\ r.msgs = s.msgs \ D /\ r.dedup = s.dedup /\ SameMeta(r, s)
  BY Removing
<1> HIDE DEF r
<1>2. /\ InsertAll(r, E) \in Store /\ InsertAll(r, E).msgs = r.msgs \cup E
      /\ InsertAll(r, E).dedup = r.dedup /\ SameMeta(InsertAll(r, E), r)
  BY <1>1, Inserting
<1> QED
  BY <1>1, <1>2, Zenon DEF r, SameMeta

\* An entry that a sound store may get.
Regular(e) ==
  /\ e.queue = Q /\ e.tree # "scheduled" /\ e.msg.priority = 0
  /\ (e.tree = "main" => e.hi = 9) /\ (e.tree = "inflight" => e.hi = 0)

\* In w the entries D of s are replaced by E, regular ones with ids of their
\* own, which are below c.
Renewed(w, c, s, D, E) ==
  /\ E \subseteq EntryType /\ IsFiniteSet(E)
  /\ w.msgs = (s.msgs \ D) \cup E
  /\ \A f \in E : Regular(f) /\ f.id < c
  /\ \A f, g \in E : f.id = g.id => f = g
  /\ \A e \in s.msgs \ D, f \in E : e.id # f.id
  /\ \A d \in w.dedup : d.queue = Q /\ d.at >= 0

\* A sound store that is renewed is sound.
LEMMA StaysSound ==
  ASSUME NEW s \in Store, NEW b \in Nat, Sound(s, b), NEW w \in Store, NEW c \in Nat, b <= c,
         NEW D, NEW E, Renewed(w, c, s, D, E)
  PROVE  Sound(w, c)
<1> USE DEF Renewed
<1>1. IsFiniteSet(w.msgs)
  <2>1. IsFiniteSet(s.msgs \ D)
    BY FS_Difference, Zenon DEF Sound
  <2>2. IsFiniteSet((s.msgs \ D) \cup E)
    BY <2>1, FS_Union, Zenon
  <2> QED
    BY <2>2
<1>2. \A e \in s.msgs : Regular(e) /\ e.id \in Nat /\ e.id < b
  BY DEF Sound, Regular, Store, EntryType
<1>3. \A e \in w.msgs : Regular(e) /\ e.id < c
  BY <1>2
<1>4. ASSUME NEW e \in w.msgs, NEW f \in w.msgs, e.id = f.id PROVE e = f
  <2>1. \A x, y \in s.msgs : x.id = y.id => x = y
    BY DEF Sound
  <2>2. \A x \in w.msgs : x \in s.msgs \ D \/ x \in E
    OBVIOUS
  <2>3. CASE e \in E /\ f \in E
    BY <1>4, <2>3
  <2>4. CASE e \in E /\ f \in s.msgs \ D
    BY <1>4, <2>4
  <2>5. CASE e \in s.msgs \ D /\ f \in E
    BY <1>4, <2>5, Zenon
  <2> QED
    BY <1>4, <2>1, <2>2, <2>3, <2>4, <2>5, Zenon
<1> QED
  BY <1>1, <1>3, <1>4, Zenon DEF Sound, Regular

-----------------------------------------------------------------------------
Replica(s, b) == [store |-> s, nextId |-> b, stored |-> {}, out |-> {}]

\* The replica r is what an operation makes of s and b.
Applied(r, s, b) ==
  /\ r.store \in Store /\ r.nextId \in Nat /\ b <= r.nextId
  /\ Sound(r.store, r.nextId) /\ SameMeta(r.store, s)
  /\ r.stored \subseteq Nat /\ r.out \subseteq [tag : Nat, uid : Nat]

\* An ack removes at most the entry with its tag.
AckResult(r, s, b, t) ==
  /\ Applied(r, s, b)
  /\ r.nextId = b /\ r.stored = {} /\ r.out = {} /\ r.store.dedup = s.dedup
  /\ r.store.msgs \subseteq s.msgs
  /\ \A e \in s.msgs \ r.store.msgs : e.id = t /\ e.tree = "inflight"

\* The ack operation does this.
LEMMA AckEffect ==
  ASSUME NEW s \in Store, NEW b \in Nat, Sound(s, b), NEW t
  PROVE  AckResult(AckOp(Replica(s, b), Q, t), s, b, t)
<1> DEFINE D == {e \in In(s, "inflight", Q) : e.id = t}
           w == RemoveAll(s, D)
<1>1. AckOp(Replica(s, b), Q, t) = [Replica(s, b) EXCEPT !.store = w]
  BY Zenon DEF AckOp, Replica
<1>2. w \in Store /\ w.msgs = s.msgs \ D /\ w.dedup = s.dedup /\ SameMeta(w, s)
  BY Removing
<1>3. \A e \in D : e.id = t /\ e.tree = "inflight"
  BY DEF In
<1> HIDE DEF w, D
<1>4. Sound(w, b)
  <2>1. w.msgs = (s.msgs \ D) \cup {} /\ IsFiniteSet({})
    BY <1>2, FS_EmptySet
  <2>2. \A d \in w.dedup : d.queue = Q /\ d.at >= 0
    BY <1>2 DEF Sound
  <2>3. b <= b /\ Renewed(w, b, s, D, {})
    BY <2>1, <2>2 DEF Renewed
  <2> QED
    BY <1>2, <2>3, StaysSound, Zenon
<1> DEFINE r == AckOp(Replica(s, b), Q, t)
<1>6. r.store = w /\ r.nextId = b /\ r.stored = {} /\ r.out = {}
  BY <1>1 DEF Replica
<1> HIDE DEF r
<1>7. Applied(r, s, b)
  BY <1>2, <1>4, <1>6 DEF Applied
<1> QED
  BY <1>2, <1>3, <1>6, <1>7 DEF r, AckResult

\* The image of a finite set.
LEMMA ImageFinite ==
  ASSUME NEW S, IsFiniteSet(S), NEW F, DOMAIN F = S
  PROVE  IsFiniteSet({F[x] : x \in S})
<1> DEFINE T == {F[x] : x \in S}
           G == [x \in S |-> F[x]]
<1>1. G \in [S -> T] /\ \A y \in T : \E x \in S : G[x] = y
  OBVIOUS
<1> HIDE DEF G, T
<1>2. G \in Surjection(S, T)
  BY <1>1 DEF Surjection
<1>3. IsFiniteSet(T)
  BY <1>2, FS_Surjection, Zenon
<1> QED
  BY <1>3 DEF T

\* The entries that a consume of up to max messages takes, and what becomes of
\* them.
FirstOf(s, max) == {e \in In(s, "main", Q) : Rank(e, In(s, "main", Q)) < max}
Taken(e) == Entry("inflight", Q, 0, e.id, e.msg)

\* The messages of w are those of s, under the ids that they have there.
SameMessages(w, s) ==
  /\ \A f \in w.msgs : \E e \in s.msgs : e.id = f.id /\ e.msg = f.msg
  /\ \A e \in s.msgs : \E f \in w.msgs : e.id = f.id /\ e.msg = f.msg

\* A consume moves the first messages of the main tree to the in-flight tree,
\* under the same ids, and delivers them.
ConsumeResult(r, s, b, max) ==
  /\ Applied(r, s, b)
  /\ r.nextId = b /\ r.stored = {} /\ r.store.dedup = s.dedup
  /\ SameMessages(r.store, s)
  /\ In(r.store, "main", Q) = In(s, "main", Q) \ FirstOf(s, max)
  /\ r.out = {[tag |-> e.id, uid |-> e.msg.uid] : e \in FirstOf(s, max)}

\* The consume operation does this.
LEMMA ConsumeEffect ==
  ASSUME NEW s \in Store, NEW b \in Nat, Sound(s, b), NEW max
  PROVE  ConsumeResult(ConsumeOp(Replica(s, b), Q, max), s, b, max)
<1> DEFINE D == FirstOf(s, max)
           E == {Taken(e) : e \in D}
           O == {[tag |-> e.id, uid |-> e.msg.uid] : e \in D}
           w == InsertAll(RemoveAll(s, D), E)
           r == ConsumeOp(Replica(s, b), Q, max)
<1>1. r = [Replica(s, b) EXCEPT !.store = w, !.out = O]
  BY Zenon DEF ConsumeOp, Replica, FirstOf, Taken
<1>2. r.store = w /\ r.nextId = b /\ r.stored = {} /\ r.out = O
  <2> HIDE DEF r, w, O
  <2> QED
    BY <1>1 DEF Replica
<1>3. D \subseteq s.msgs /\ \A e \in D : e.tree = "main" /\ e.queue = Q
  BY DEF FirstOf, In
<1>4. \A e \in s.msgs : /\ e \in EntryType /\ e.id \in Nat /\ e.id < b /\ e.msg \in Message
                        /\ e.msg.uid \in Nat /\ e.msg.priority = 0
  BY Zenon DEF Store, EntryType, Message, Sound
<1>5. \A e \in s.msgs : /\ Taken(e) \in EntryType /\ Regular(Taken(e))
                        /\ Taken(e).id = e.id /\ Taken(e).msg = e.msg
                        /\ Taken(e).tree = "inflight"
  BY <1>4, FlockAssumption DEF Taken, Entry, EntryType, Regular, Trees
<1>6. IsFiniteSet(D)
  BY <1>3, FS_Subset, Zenon DEF Sound
<1> DEFINE F == [e \in D |-> Taken(e)]
<1>7. IsFiniteSet(E)
  <2>1. DOMAIN F = D /\ E = {F[x] : x \in D}
    OBVIOUS
  <2> HIDE DEF F, E, D
  <2> QED
    BY <1>6, <2>1, ImageFinite, Zenon
<1>8. \A f \in E : \E e \in D : f = Taken(e)
  OBVIOUS
<1>9. \A e \in D : Taken(e) \in E
  OBVIOUS
<1> HIDE DEF D, E, F
<1>10. /\ E \subseteq EntryType
       /\ \A f \in E : Regular(f) /\ f.id < b
       /\ \A f \in E : \E e \in D : f = Taken(e) /\ f.id = e.id /\ f.msg = e.msg
                                    /\ f.tree = "inflight"
  BY <1>3, <1>4, <1>5, <1>8
<1>11. \A e, f \in s.msgs : e.id = f.id => e = f
  BY DEF Sound
<1>12. /\ \A f, g \in E : f.id = g.id => f = g
       /\ \A e \in s.msgs \ D, f \in E : e.id # f.id
  BY <1>3, <1>10, <1>11
<1>13. /\ w \in Store /\ w.msgs = (s.msgs \ D) \cup E
       /\ w.dedup = s.dedup /\ SameMeta(w, s)
  BY <1>10, <1>12, Replacing
<1> HIDE DEF w, r
<1>14. Sound(w, b)
  <2>1. b <= b /\ Renewed(w, b, s, D, E)
    BY <1>7, <1>10, <1>12, <1>13 DEF Renewed, Sound
  <2> QED
    BY <1>13, <2>1, StaysSound, Zenon
<1>15. O \subseteq [tag : Nat, uid : Nat]
  BY <1>3, <1>4
<1>16. Applied(r, s, b)
  <2> HIDE DEF O
  <2> QED
    BY <1>2, <1>13, <1>14, <1>15 DEF Applied
<1>17. SameMessages(w, s)
  <2>1. ASSUME NEW f \in w.msgs PROVE \E e \in s.msgs : e.id = f.id /\ e.msg = f.msg
    BY <1>3, <1>10, <1>13
  <2>2. ASSUME NEW e \in s.msgs PROVE \E f \in w.msgs : e.id = f.id /\ e.msg = f.msg
    <3>1. CASE e \in D
      BY <1>5, <1>9, <1>13, <3>1
    <3>2. CASE e \notin D
      BY <1>13, <3>2
    <3> QED
      BY <3>1, <3>2
  <2> QED
    BY <2>1, <2>2 DEF SameMessages
<1>18. In(w, "main", Q) = In(s, "main", Q) \ D
  BY <1>10, <1>13, Zenon DEF In
<1> QED
  BY <1>2, <1>13, <1>16, <1>17, <1>18 DEF D, r, ConsumeResult

\* Store w is s, or the message of the in-flight entry with id t has moved to
\* the id b.
Returned(w, s, t, b) ==
  \/ w = s
  \/ \E e \in In(s, "inflight", Q), f \in EntryType :
       /\ e.id = t /\ f.id = b /\ f.msg.uid = e.msg.uid
       /\ w.msgs = (s.msgs \ {e}) \cup {f}

\* A nack takes an id, and puts the message with the tag, if there is one, under
\* this id.
NackResult(r, s, b, t) ==
  /\ Applied(r, s, b)
  /\ r.nextId = b + 1 /\ r.stored = {} /\ r.out = {} /\ r.store.dedup = s.dedup
  /\ Returned(r.store, s, t, b)

\* The nack operation does this.
LEMMA NackEffect ==
  ASSUME NEW s \in Store, NEW b \in Nat, Sound(s, b), NEW t, Q \in s.queues
  PROVE  NackResult(NackOp(Replica(s, b), Q, t), s, b, t)
<1> DEFINE E == {x \in In(s, "inflight", Q) : x.id = t}
           e == CHOOSE x \in E : TRUE
           w == IF E = {} THEN s ELSE NackEntry(s, e, b)
           r == NackOp(Replica(s, b), Q, t)
<1>1. r = [Replica(s, b) EXCEPT !.nextId = b + 1, !.store = w]
  BY DEF NackOp, Replica
<1> HIDE DEF w, r
<1>2. r.store = w /\ r.nextId = b + 1 /\ r.stored = {} /\ r.out = {}
  BY <1>1 DEF Replica
<1>3. \A x \in s.msgs : /\ x.id \in Nat /\ x.id < b /\ x.msg \in Message
                        /\ x.msg.uid \in Nat /\ x.msg.priority = 0 /\ x.queue = Q
  BY DEF Store, EntryType, Message, Sound
<1>4. /\ w \in Store /\ w.dedup = s.dedup /\ SameMeta(w, s)
      /\ Sound(w, b + 1) /\ Returned(w, s, t, b)
  <2>1. CASE E = {}
    <3>1. w = s
      BY <2>1 DEF w
    <3>2. Sound(s, b + 1)
      BY <1>3 DEF Sound
    <3> QED
      BY <3>1, <3>2 DEF Returned, SameMeta
  <2>2. CASE E # {}
    <3> DEFINE m == [e.msg EXCEPT !.delivery_attempts = @ + 1]
               f == Entry(NackTree(PolicyOf(s, e.queue), m.delivery_attempts),
                          e.queue, KeyByte(m.priority), b, m)
    <3>1. e \in E
      BY <2>2
    <3>2. e \in In(s, "inflight", Q) /\ e.id = t
      BY <3>1
    <3>3. e \in s.msgs
      BY <3>2 DEF In
    <3>4. w = InsertAll(RemoveAll(s, {e}), {f})
      BY <2>2 DEF w, NackEntry
    <3> HIDE DEF e, E
    <3>5. m \in Message /\ m.uid = e.msg.uid /\ m.priority = 0
      BY <1>3, <3>3 DEF Message
    <3>6. KeyByte(m.priority) = 9
      <4> HIDE DEF m
      <4> QED
        BY <3>5 DEF KeyByte
    <3>7. NackTree(PolicyOf(s, e.queue), m.delivery_attempts) \in {"main", "dlq"}
      BY DEF NackTree
    <3>8. /\ f \in EntryType /\ Regular(f) /\ f.id = b /\ f.msg.uid = e.msg.uid
      <4> DEFINE T == NackTree(PolicyOf(s, e.queue), m.delivery_attempts)
      <4> HIDE DEF m, T
      <4>1. e.queue = Q /\ Q \in Queues
        BY <1>3, <3>3, FlockAssumption, Zenon
      <4>2. f = [tree |-> T, queue |-> Q, hi |-> 9, id |-> b, msg |-> m]
        BY <3>6, <4>1 DEF Entry, T
      <4>3. T \in {"main", "dlq"}
        BY <3>7 DEF T
      <4> HIDE DEF f
      <4> QED
        BY <3>5, <4>1, <4>2, <4>3 DEF EntryType, Regular, Trees
    <3> HIDE DEF m, f
    <3>9. \A x \in s.msgs \ {e}, y \in {f} : x.id # y.id
      BY <1>3, <3>8
    <3>10. /\ w \in Store /\ w.msgs = (s.msgs \ {e}) \cup {f}
           /\ w.dedup = s.dedup /\ SameMeta(w, s)
      <4>1. {f} \in SUBSET EntryType
        BY <3>8
      <4> QED
        BY <3>4, <3>9, <4>1, Replacing
    <3>11. Sound(w, b + 1)
      <4>1. IsFiniteSet({f})
        BY FS_Singleton, Zenon
      <4>2. \A d \in w.dedup : d.queue = Q /\ d.at >= 0
        BY <3>10, Zenon DEF Sound
      <4>3. Renewed(w, b + 1, s, {e}, {f})
        BY <3>8, <3>9, <3>10, <4>1, <4>2 DEF Renewed
      <4>4. b + 1 \in Nat /\ b <= b + 1
        OBVIOUS
      <4> QED
        BY <3>10, <4>3, <4>4, StaysSound, Zenon
    <3> QED
      BY <3>2, <3>8, <3>10, <3>11, Zenon DEF Returned
  <2> QED
    BY <2>1, <2>2
<1>5. Applied(r, s, b)
  BY <1>2, <1>4 DEF Applied
<1> QED
  BY <1>2, <1>4, <1>5 DEF r, NackResult

\* The queue is declared with its policy.
DeclareResult(r, b, p) ==
  /\ r.store \in Store /\ r.nextId = b /\ r.stored = {} /\ r.out = {}
  /\ r.store.msgs = {} /\ r.store.dedup = {}
  /\ r.store.queues = {Q} /\ PolicyOf(r.store, Q) = p
  /\ Sound(r.store, b)

\* The declaration does this.
LEMMA DeclareEffect ==
  ASSUME NEW p \in Policies, NEW b \in Nat
  PROVE  DeclareResult(DeclareOp(Replica(EmptyStore, b), Q, p), b, p)
<1> DEFINE s == DeclareRetention(DeclareMeta(EmptyStore, Q), Q, p)
           r == DeclareOp(Replica(EmptyStore, b), Q, p)
<1>0. Q \in Queues /\ p # None
  BY FlockAssumption, StoreAssumption
<1>1. /\ s \in Store /\ s.msgs = {} /\ s.dedup = {} /\ s.queues = {Q} /\ s.retention[Q] = p
  BY <1>0, Zenon DEF DeclareRetention, DeclareMeta, EmptyStore, Store
<1>2. r = [Replica(EmptyStore, b) EXCEPT !.store = s]
  BY DEF DeclareOp, Replica, EmptyStore
<1> HIDE DEF s, r
<1>3. r.store = s /\ r.nextId = b /\ r.stored = {} /\ r.out = {}
  BY <1>2 DEF Replica
<1>4. PolicyOf(s, Q) = p
  BY <1>0, <1>1 DEF PolicyOf
<1>5. Sound(s, b)
  BY <1>1, FS_EmptySet DEF Sound
<1> QED
  BY <1>1, <1>3, <1>4, <1>5 DEF r, DeclareResult

\* The entry of the k-th message of a batch, of which those in S are stored.
Added(M, S, b, k) == Entry("main", Q, 9, b + Cardinality(Below(S, k)), M[k])
AddedSet(M, S, b) == {Added(M, S, b, k) : k \in S}

\* The entries have consecutive ids from b on.
Numbered(M, S, b) ==
  \A k \in S : /\ Added(M, S, b, k).id = b + Cardinality(Below(S, k))
               /\ Added(M, S, b, k).id >= b
               /\ Added(M, S, b, k).msg = M[k]

\* The messages of a batch are Plain: a batch is stored in the main tree, one
\* entry per message, under the next ids.
LEMMA AddedEntries ==
  ASSUME NEW s \in Store, NEW b \in Nat, Sound(s, b), NEW M \in Seq(Plain),
         NEW S \in SUBSET (DOMAIN M)
  PROVE  LET E == AddedSet(M, S, b)
         IN  /\ IsFiniteSet(S) /\ Cardinality(S) \in Nat
             /\ E \subseteq EntryType /\ IsFiniteSet(E)
             /\ \A f \in E : Regular(f) /\ f.id < b + Cardinality(S)
             /\ \A f, g \in E : f.id = g.id => f = g
             /\ \A e \in s.msgs, f \in E : e.id # f.id
             /\ Numbered(M, S, b)
<1> DEFINE A(k) == Added(M, S, b, k)
           E == {A(k) : k \in S}
<1>1. DOMAIN M = 1..Len(M) /\ Len(M) \in Nat /\ \A k \in S : k \in Int /\ M[k] \in Plain
  OBVIOUS
<1>2. IsFiniteSet(S)
  <2>1. IsFiniteSet(1..Len(M))
    BY <1>1, FS_Interval
  <2> QED
    BY <1>1, <2>1, FS_Subset
<1>3. /\ Cardinality(S) \in Nat
      /\ \A k \in S : /\ Cardinality(Below(S, k)) \in Nat
                      /\ Cardinality(Below(S, k)) < Cardinality(S)
      /\ \A k, l \in S : k < l => Cardinality(Below(S, k)) < Cardinality(Below(S, l))
  <2>1. S \in SUBSET Int
    BY <1>1
  <2> QED
    BY <1>2, <2>1, Counting
<1>4. \A k \in S : M[k] \in Message /\ M[k].priority = 0
  BY <1>1 DEF Plain, Message
<1>5. ASSUME NEW k \in S
      PROVE  /\ A(k) \in EntryType /\ Regular(A(k)) /\ A(k).msg = M[k]
             /\ A(k).id = b + Cardinality(Below(S, k))
             /\ b <= A(k).id /\ A(k).id < b + Cardinality(S)
  <2>1. /\ b + Cardinality(Below(S, k)) \in Nat /\ b <= b + Cardinality(Below(S, k))
        /\ b + Cardinality(Below(S, k)) < b + Cardinality(S)
    BY <1>3
  <2>2. Q \in Queues
    BY FlockAssumption
  <2> DEFINE i == b + Cardinality(Below(S, k))
  <2>3. A(k) = [tree |-> "main", queue |-> Q, hi |-> 9, id |-> i, msg |-> M[k]]
    BY DEF Added, Entry
  <2> HIDE DEF i
  <2>4. A(k) \in EntryType /\ Regular(A(k)) /\ A(k).msg = M[k] /\ A(k).id = i
    BY <1>4, <2>1, <2>2, <2>3 DEF EntryType, Regular, Trees, i
  <2> HIDE DEF A
  <2> QED
    BY <2>1, <2>4 DEF i
<1> DEFINE F == [k \in S |-> A(k)]
<1>6. IsFiniteSet(E)
  <2>1. DOMAIN F = S /\ E = {F[x] : x \in S}
    OBVIOUS
  <2> HIDE DEF F, E
  <2> QED
    BY <1>2, <2>1, ImageFinite
<1>7. \A f \in E : \E k \in S : f = A(k)
  OBVIOUS
<1>8. \A k, l \in S : k # l => k < l \/ l < k
  BY <1>1
<1> HIDE DEF A, E, F
<1>9. \A f, g \in E : f.id = g.id => f = g
  <2>1. ASSUME NEW k \in S, NEW l \in S, A(k).id = A(l).id PROVE k = l
    BY <1>3, <1>5, <1>8, <2>1
  <2> QED
    BY <1>7, <2>1
<1>10. \A e \in s.msgs : e.id \in Nat /\ e.id < b
  BY DEF Sound, Store, EntryType
<1>11. \A e \in s.msgs, f \in E : e.id # f.id
  BY <1>3, <1>5, <1>7, <1>10
<1>12. E \subseteq EntryType /\ \A f \in E : Regular(f) /\ f.id < b + Cardinality(S)
  BY <1>5, <1>7
<1>13. Numbered(M, S, b)
  <2>1. \A k \in S : A(k).id = b + Cardinality(Below(S, k)) /\ A(k).id >= b /\ A(k).msg = M[k]
    BY <1>3, <1>5
  <2> QED
    BY <2>1, Zenon DEF Numbered, A
<1> QED
  BY <1>2, <1>3, <1>6, <1>9, <1>11, <1>12, <1>13, Zenon DEF A, E, AddedSet

\* The records that the stored messages S of a batch leave.
Recorded(w, s, M, S, t) ==
  \/ w.dedup = s.dedup /\ PolicyOf(s, Q).dedup_window_secs = None
  \/ LET K == {m \in {M[k] : k \in {i \in S : \A j \in S :
                         j > i => M[j].dedup_key # M[i].dedup_key}} : m.dedup_key # None}
     IN  w.dedup = {d \in s.dedup : ~(d.queue = Q /\ \E m \in K : d.key = m.dedup_key)}
                     \cup {[queue |-> Q, key |-> m.dedup_key, at |-> t, by |-> m.uid] : m \in K}

\* What a publish makes of a store, the messages S of the batch M being stored.
PublishResult(r, s, b, M, S, t) ==
  /\ Applied(r, s, b) /\ S \in SUBSET (DOMAIN M)
  /\ r.nextId = b + Cardinality(S) /\ r.stored = {M[k].uid : k \in S} /\ r.out = {}
  /\ r.store.msgs = s.msgs \cup AddedSet(M, S, b)
  /\ Recorded(r.store, s, M, S, t)

\* The publish operation does this.
LEMMA PublishEffect ==
  ASSUME NEW s \in Store, NEW b \in Nat, Sound(s, b), NEW M \in Seq(Plain), NEW t \in Nat,
         Q \in s.queues
  PROVE  PublishResult(PublishOp(Replica(s, b), Q, M, t), s, b, M, Stored(s, Q, M, t), t)
<1> DEFINE S == Stored(s, Q, M, t)
           E == AddedSet(M, S, b)
           K == {M[k] : k \in {i \in S : \A j \in S :
                                 j > i => M[j].dedup_key # M[i].dedup_key}}
           v == InsertAll(s, E)
           w == RecordDedupKeys(v, Q, K, t)
           U == {M[k].uid : k \in S}
           r == PublishOp(Replica(s, b), Q, M, t)
<1>1. S \in SUBSET (DOMAIN M)
  BY DEF Stored
<1> HIDE DEF S
<1>2. /\ IsFiniteSet(S) /\ Cardinality(S) \in Nat
      /\ E \subseteq EntryType /\ IsFiniteSet(E)
      /\ \A f \in E : Regular(f) /\ f.id < b + Cardinality(S)
      /\ \A f, g \in E : f.id = g.id => f = g
      /\ \A e \in s.msgs, f \in E : e.id # f.id
  BY <1>1, AddedEntries, Zenon
<1>3. \A k \in S : k \in DOMAIN M /\ M[k] \in Plain
  BY <1>1
<1>4. r = [Replica(s, b) EXCEPT !.store = w, !.nextId = b + Cardinality(S), !.stored = U]
  <2>1. \A k \in S : PublishEntry(Q, M[k], b + Cardinality({j \in S : j < k}), t)
                       = Added(M, S, b, k)
    <3>1. \A k \in S : M[k].deliver_at = None /\ KeyByte(M[k].priority) = 9
      BY <1>3 DEF Plain, KeyByte
    <3> QED
      BY <3>1, Zenon DEF PublishEntry, Added, Below
  <2>2. {PublishEntry(Q, M[k], b + Cardinality({j \in S : j < k}), t) : k \in S} = E
    BY <2>1, Zenon DEF AddedSet
  <2>3. /\ Replica(s, b).store = s /\ Replica(s, b).nextId = b
    BY DEF Replica
  <2> HIDE DEF E
  <2> QED
    BY <2>2, <2>3, ZenonT(40) DEF PublishOp, S
<1>5. r.store = w /\ r.nextId = b + Cardinality(S) /\ r.stored = U /\ r.out = {}
  <2> HIDE DEF w, r, U
  <2> QED
    BY <1>4, Zenon DEF Replica
<1>6. /\ v \in Store /\ v.msgs = s.msgs \cup E /\ v.dedup = s.dedup /\ SameMeta(v, s)
  <2> HIDE DEF E
  <2> QED
    BY <1>2, Inserting
<1> HIDE DEF E, v
<1>7. PolicyOf(v, Q) = PolicyOf(s, Q)
  BY <1>6, Zenon DEF PolicyOf, SameMeta
<1> DEFINE H == {m \in K : m.dedup_key # None}
           R == {[queue |-> Q, key |-> m.dedup_key, at |-> t, by |-> m.uid] : m \in H}
           X == {d \in s.dedup : ~(d.queue = Q /\ \E m \in H : d.key = m.dedup_key)}
<1>8. w = IF PolicyOf(s, Q).dedup_window_secs = None THEN v ELSE [v EXCEPT !.dedup = X \cup R]
  BY <1>6, <1>7, Zenon DEF RecordDedupKeys
<1>9. R \subseteq DedupRecord /\ \A d \in R : d.queue = Q /\ d.at = t
  <2>1. \A m \in H : m.uid \in Nat /\ m.dedup_key \in DedupKeys
    BY <1>3 DEF Plain
  <2>2. Q \in Queues
    BY FlockAssumption
  <2> HIDE DEF H
  <2> QED
    BY <2>1, <2>2 DEF DedupRecord
<1>10. X \subseteq s.dedup
  OBVIOUS
<1>11. Recorded(w, s, M, S, t)
  <2>1. CASE PolicyOf(s, Q).dedup_window_secs = None
    BY <1>6, <1>8, <2>1, Zenon DEF Recorded
  <2>2. CASE PolicyOf(s, Q).dedup_window_secs # None
    <3>1. w.dedup = X \cup R
      <4> HIDE DEF X, R, w
      <4> QED
        BY <1>6, <1>8, <2>2 DEF Store
    <3> HIDE DEF w
    <3> QED
      BY <3>1, Zenon DEF Recorded
  <2> QED
    BY <2>1, <2>2
<1> HIDE DEF X, R, w, r, H, K
<1>12. /\ w \in Store /\ w.msgs = s.msgs \cup E /\ SameMeta(w, s)
       /\ w.dedup \subseteq s.dedup \cup R
  BY <1>6, <1>8, <1>9, <1>10 DEF Store, SameMeta
<1>13. Sound(w, b + Cardinality(S))
  <2>1. w.msgs = (s.msgs \ {}) \cup E /\ \A e \in s.msgs \ {} : e \in s.msgs
    BY <1>12
  <2>2. \A d \in w.dedup : d.queue = Q /\ d.at >= 0
    BY <1>9, <1>12 DEF Sound
  <2>3. Renewed(w, b + Cardinality(S), s, {}, E)
    BY <1>2, <2>1, <2>2, Zenon DEF Renewed
  <2>4. b + Cardinality(S) \in Nat /\ b <= b + Cardinality(S)
    BY <1>2
  <2> QED
    BY <1>12, <2>3, <2>4, StaysSound, Zenon
<1>14. U \subseteq Nat
  BY <1>3, Zenon DEF Plain
<1>15. Applied(r, s, b)
  <2> HIDE DEF U
  <2> QED
    BY <1>2, <1>5, <1>12, <1>13, <1>14 DEF Applied
<1> QED
  BY <1>1, <1>5, <1>11, <1>12, <1>15, Zenon DEF r, S, E, PublishResult

\* The id generator never goes back, and a node that was restarted is beyond
\* the ids that the log gives.
LEMMA ReopenedBeyond ==
  ASSUME NEW id \in Nat
  PROVE  Reopened(id) \in Nat /\ id <= Reopened(id) /\ IdGap <= Reopened(id)
<1>1. IdGap \in Nat /\ IdGap > 0
  BY FlockAssumption
<1>2. id % IdGap \in 0..(IdGap - 1) /\ id % IdGap <= id
  BY <1>1
<1>3. id < IdGap => id % IdGap = id
  BY <1>1
<1> HIDE DEF Reopened
<1>4. CASE id % IdGap = 0 /\ id > 0
  BY <1>1, <1>3, <1>4 DEF Reopened
<1>5. CASE ~(id % IdGap = 0 /\ id > 0)
  <2> DEFINE m == id % IdGap
  <2>1. Reopened(id) = id + IdGap - m
    BY <1>5, Zenon DEF Reopened
  <2>2. m \in 0..(IdGap - 1) /\ m <= id
    BY <1>2
  <2> HIDE DEF m
  <2> QED
    BY <1>1, <2>1, <2>2
<1> QED
  BY <1>4, <1>5

\* Store w holds the messages of s, those that have moved under ids from base on.
Recovered(w, s, base) ==
  /\ \A f \in w.msgs : \/ f \in s.msgs
                       \/ base <= f.id /\ \E e \in s.msgs : e.msg.uid = f.msg.uid
  /\ Uids(s.msgs) \subseteq Uids(w.msgs)

\* Recovery moves what was in flight back to the main tree, under new ids.
LEMMA RecoverEffect ==
  ASSUME NEW s \in Store, NEW b \in Nat, Sound(s, b), NEW base \in Nat, b <= base
  PROVE  LET I == Inflight(s)
             w == Recover(s, I, I, base)
         IN  /\ w \in Store /\ SameMeta(w, s) /\ w.dedup = s.dedup
             /\ IsFiniteSet(I) /\ Cardinality(I) \in Nat /\ Sound(w, base + Cardinality(I))
             /\ Recovered(w, s, base)
<1> DEFINE I == Inflight(s)
           N(e) == Requeued(e, I, base)
           E == {N(e) : e \in I}
           v == InsertAll(s, E)
           w == Recover(s, I, I, base)
<1>1. /\ I \subseteq s.msgs /\ \A e \in I : e.tree = "inflight"
  BY DEF Inflight
<1>2. w = RemoveAll(v, I)
  BY DEF Recover
<1>3. \A e \in s.msgs : /\ e \in EntryType /\ e.id \in Nat /\ e.id < b /\ e.msg \in Message
                        /\ e.msg.priority = 0 /\ e.queue = Q
                        /\ (e.tree = "inflight" => e.hi = 0)
  BY DEF Store, EntryType, Message, Sound
<1>4. \A e, f \in s.msgs : e.id = f.id => e = f
  BY DEF Sound
<1> HIDE DEF I, w
<1>5. I \in SUBSET EntryType /\ IsFiniteSet(I) /\ Cardinality(I) \in Nat
  <2>1. I \in SUBSET s.msgs /\ IsFiniteSet(s.msgs)
    BY <1>1 DEF Sound
  <2>2. IsFiniteSet(I)
    BY <2>1, FS_Subset, Zenon
  <2>3. Cardinality(I) \in Nat
    BY <2>2, FS_CardinalityType, Zenon
  <2> QED
    BY <1>1, <1>3, <2>2, <2>3, Zenon
<1>6. /\ IsFiniteSet(Ids(I)) /\ Ids(I) \in SUBSET Nat /\ Cardinality(Ids(I)) = Cardinality(I)
      /\ \A e \in I : Rank(e, I) = Cardinality(Below(Ids(I), e.id))
  <2>1. 0 \in Int /\ \A e \in I : e.hi = 0
    BY <1>1, <1>3
  <2>2. \A e, f \in I : e.id = f.id => e = f
    BY <1>1, <1>4, Zenon
  <2> QED
    BY <1>5, <2>1, <2>2, RankById, Zenon
<1>7. /\ \A k \in Ids(I) : /\ Cardinality(Below(Ids(I), k)) \in Nat
                           /\ Cardinality(Below(Ids(I), k)) < Cardinality(Ids(I))
      /\ \A k, l \in Ids(I) :
           k < l => Cardinality(Below(Ids(I), k)) < Cardinality(Below(Ids(I), l))
  <2>1. Ids(I) \in SUBSET Int
    BY <1>6
  <2> QED
    BY <1>6, <2>1, Counting, Zenon
<1>8. \A e \in I : e.id \in Ids(I)
  BY DEF Ids
<1>9. /\ \A e \in I : Rank(e, I) \in Nat /\ Rank(e, I) < Cardinality(I)
      /\ \A e, f \in I : Rank(e, I) = Rank(f, I) => e = f
  <2>1. \A e \in I : Rank(e, I) \in Nat /\ Rank(e, I) < Cardinality(I)
    BY <1>6, <1>7, <1>8, Zenon
  <2>2. ASSUME NEW e \in I, NEW f \in I, Rank(e, I) = Rank(f, I) PROVE e = f
    <3>1. e.id \in Nat /\ f.id \in Nat
      BY <1>1, <1>3, Zenon
    <3>2. ~(e.id < f.id) /\ ~(f.id < e.id)
      BY <1>6, <1>7, <1>8, <2>1, <2>2
    <3> QED
      BY <1>1, <1>4, <3>1, <3>2
  <2> QED
    BY <2>1, <2>2, Zenon
<1>10. ASSUME NEW e \in I
       PROVE  /\ N(e) \in EntryType /\ Regular(N(e)) /\ N(e).tree = "main"
              /\ N(e).id = base + Rank(e, I) /\ N(e).msg = e.msg
              /\ base <= N(e).id /\ N(e).id < base + Cardinality(I)
  <2> DEFINE i == base + Rank(e, I)
  <2>1. i \in Nat /\ base <= i /\ i < base + Cardinality(I)
    BY <1>5, <1>9
  <2>2. e.queue = Q /\ e.msg \in Message /\ e.msg.priority = 0
    BY <1>1, <1>3, Zenon
  <2>3. KeyByte(e.msg.priority) = 9 /\ Q \in Queues
    BY <2>2, FlockAssumption DEF KeyByte
  <2>4. N(e) = [tree |-> "main", queue |-> Q, hi |-> 9, id |-> i, msg |-> e.msg]
    BY <2>2, <2>3, Zenon DEF Requeued, Entry
  <2> HIDE DEF i, N
  <2>5. /\ N(e) \in EntryType /\ Regular(N(e)) /\ N(e).tree = "main"
        /\ N(e).id = i /\ N(e).msg = e.msg
    <3>1. /\ N(e).tree = "main" /\ N(e).queue = Q /\ N(e).hi = 9 /\ N(e).id = i
          /\ N(e).msg = e.msg
      BY <2>4
    <3>2. 9 \in Int /\ "main" \in Trees
      BY DEF Trees
    <3>3. N(e) \in EntryType
      BY <2>1, <2>2, <2>3, <2>4, <3>2 DEF EntryType
    <3>4. Regular(N(e))
      BY <2>2, <3>1 DEF Regular
    <3> QED
      BY <3>1, <3>3, <3>4, Zenon
  <2> QED
    BY <2>1, <2>5, Zenon DEF i
<1> DEFINE F == [e \in I |-> N(e)]
<1>11. IsFiniteSet(E)
  <2>1. DOMAIN F = I /\ E = {F[x] : x \in I}
    OBVIOUS
  <2> HIDE DEF F, E
  <2> QED
    BY <1>5, <2>1, ImageFinite
<1>12. /\ \A f \in E : \E e \in I : f = N(e)
       /\ \A e \in I : N(e) \in E
  OBVIOUS
<1> HIDE DEF N, E, F, v
<1>13. /\ E \subseteq EntryType
       /\ \A f \in E : /\ Regular(f) /\ f.tree = "main" /\ f.id \in Nat
                       /\ base <= f.id /\ f.id < base + Cardinality(I)
  <2>1. \A f \in E : f \in EntryType => f.id \in Nat
    BY DEF EntryType
  <2> QED
    BY <1>10, <1>12, <2>1, Zenon
<1>14. \A f, g \in E : f.id = g.id => f = g
  <2>1. ASSUME NEW e \in I, NEW f \in I, N(e).id = N(f).id PROVE e = f
    BY <1>9, <1>10, <2>1
  <2> QED
    BY <1>12, <2>1
<1>15. \A e \in s.msgs, f \in E : e.id # f.id
  BY <1>3, <1>13
<1>16. v \in Store /\ v.msgs = s.msgs \cup E /\ v.dedup = s.dedup /\ SameMeta(v, s)
  BY <1>13, <1>15, Inserting, Zenon DEF v
<1>17. w \in Store /\ w.msgs = v.msgs \ I /\ w.dedup = v.dedup /\ SameMeta(w, v)
  BY <1>2, <1>16, Removing, Zenon
<1>18. w.msgs = (s.msgs \ I) \cup E
  BY <1>1, <1>13, <1>16, <1>17, Zenon
<1>19. Sound(w, base + Cardinality(I))
  <2>1. \A d \in w.dedup : d.queue = Q /\ d.at >= 0
    BY <1>16, <1>17, Zenon DEF Sound
  <2>2. Renewed(w, base + Cardinality(I), s, I, E)
    BY <1>11, <1>13, <1>14, <1>15, <1>18, <2>1, Zenon DEF Renewed
  <2>3. base + Cardinality(I) \in Nat /\ b <= base + Cardinality(I)
    BY <1>5
  <2> QED
    BY <1>17, <2>2, <2>3, StaysSound, Zenon
<1>20. Recovered(w, s, base)
  <2>1. ASSUME NEW f \in w.msgs, f \notin s.msgs
        PROVE  base <= f.id /\ \E e \in s.msgs : e.msg.uid = f.msg.uid
    <3>1. f \in E
      BY <1>18, <2>1
    <3>2. PICK e \in I : f = N(e)
      BY <1>12, <3>1, Zenon
    <3> QED
      BY <1>1, <1>10, <3>2, Zenon
  <2>2. ASSUME NEW e \in s.msgs PROVE \E f \in w.msgs : f.msg.uid = e.msg.uid
    <3>1. CASE e \in I
      BY <1>10, <1>12, <1>18, <3>1, Zenon
    <3>2. CASE e \notin I
      BY <1>18, <3>2
    <3> QED
      BY <3>1, <3>2, Zenon
  <2>3. Uids(s.msgs) \subseteq Uids(w.msgs)
    BY <2>2 DEF Uids
  <2> QED
    BY <2>1, <2>3, Zenon DEF Recovered
<1> QED
  BY <1>5, <1>16, <1>17, <1>19, <1>20, Zenon DEF SameMeta, w, I

-----------------------------------------------------------------------------
(* The invariant of every behaviour *)

\* Some node has the smallest id.
LEMMA LowestIsNode == Lowest \in Nodes
<1> DEFINE R == OpToRel(<, Nat)
<1>1. IsWellFoundedOn(R, Nat)
  BY NatLessThanWellFounded, Zenon
<1>2. \A x, y \in Nat : <<y, x>> \in R <=> y < x
  BY DEF OpToRel
<1>3. Nodes \subseteq Nat /\ Nodes # {}
  BY FlockAssumption
<1> HIDE DEF R
<1>4. PICK n \in Nodes : \A k \in Nodes : ~(<<k, n>> \in R)
  BY <1>1, <1>3, WFMin, Zenon
<1>5. ASSUME NEW k \in Nodes PROVE n <= k
  <2>1. n \in Nat /\ k \in Nat
    BY <1>3, Zenon
  <2>2. ~(k < n)
    BY <1>2, <1>4, <2>1, Zenon
  <2> QED
    BY <2>1, <2>2
<1> QED
  BY <1>5, Zenon DEF Lowest

\* What the fields of an operation are.
LEMMA OperationFields ==
  ASSUME NEW op \in Operation
  PROVE  /\ op.type \in {"declare", "publish", "consume", "ack", "nack"}
         /\ op.type = "declare" => op.policy \in Policies
         /\ op.type = "publish" => op.msgs \in Seq(Plain)
         /\ op.type = "consume" => op.max \in Nat
         /\ op.type \in {"ack", "nack"} => op.tag \in Nat
BY Zenon DEF Operation

\* Which operator apply_operation calls.
LEMMA ApplyCases ==
  ASSUME NEW n, NEW op, NEW now
  PROVE  LET r == Replica(node[n].store, node[n].nextId)
             a == ApplyOperation(n, op, now)
         IN  /\ op.type = "declare" => a = DeclareOp(r, Q, op.policy)
             /\ op.type = "publish" => a = PublishOp(r, Q, op.msgs, now)
             /\ op.type = "consume" => a = ConsumeOp(r, Q, op.max)
             /\ op.type = "ack" => a = AckOp(r, Q, op.tag)
             /\ op.type = "nack" => a = NackOp(r, Q, op.tag)
<1> DEFINE r == Replica(node[n].store, node[n].nextId)
           a == ApplyOperation(n, op, now)
<1>1. a = CASE op.type = "declare" -> DeclareOp(r, Q, op.policy)
            [] op.type = "publish" -> PublishOp(r, Q, op.msgs, now)
            [] op.type = "consume" -> ConsumeOp(r, Q, op.max)
            [] op.type = "ack"     -> AckOp(r, Q, op.tag)
            [] op.type = "nack"    -> NackOp(r, Q, op.tag)
  BY Zenon DEF ApplyOperation, Replica
<1> HIDE DEF r, a
<1>2. op.type = "declare" => a = DeclareOp(r, Q, op.policy)
  BY <1>1
<1>3. op.type = "publish" => a = PublishOp(r, Q, op.msgs, now)
  BY <1>1
<1>4. op.type = "consume" => a = ConsumeOp(r, Q, op.max)
  BY <1>1
<1>5. op.type = "ack" => a = AckOp(r, Q, op.tag)
  BY <1>1
<1>6. op.type = "nack" => a = NackOp(r, Q, op.tag)
  BY <1>1
<1> QED
  BY <1>2, <1>3, <1>4, <1>5, <1>6, Zenon DEF r, a

\* An operation that the handlers may append to the log: the declaration of the
\* queue comes first and once, a batch has new messages with one key, and only
\* what was handed out is acked or nacked.
Fitting(op) ==
  /\ op \in Operation
  /\ op.type = "declare" <=> log = <<>>
  /\ op.type = "publish" =>
       /\ Len(op.msgs) \in 1..MaxUids
       /\ \A k \in DOMAIN op.msgs : /\ op.msgs[k].dedup_key = op.msgs[1].dedup_key
                                    /\ op.msgs[k].uid = Cardinality(Submitted) + k - 1
  /\ op.type = "ack" => \E d \in handed : d.tag = op.tag /\ d.uid \in acked'
  /\ op.type = "nack" => \E d \in handed : d.tag = op.tag

\* The uids submitted, when an operation is appended.
LEMMA SubmittedGrows ==
  ASSUME LogInv, NEW op, Fitting(op), log' = Append(log, op)
  PROVE  /\ Submitted' = 0..(Cardinality(Submitted') - 1) /\ Cardinality(Submitted') \in Nat
         /\ \A i \in 1..Len(log) : Publishes(log, i) =>
              \A k \in DOMAIN log[i].msgs : /\ log[i].msgs[k].uid \in Nat
                                            /\ log[i].msgs[k].uid < Cardinality(Submitted)
<1> DEFINE C == Cardinality(Submitted)
           size == IF op.type = "publish" THEN Len(op.msgs) ELSE 0
<1>0. /\ log \in Seq(Operation) /\ op \in Operation /\ C \in Nat /\ Submitted = 0..(C - 1)
      /\ MaxUids \in Nat
  BY FlockAssumption, Zenon DEF LogInv, Fitting
<1>1. /\ DOMAIN log = 1..Len(log) /\ Len(log) \in Nat
      /\ DOMAIN log' = 1..(Len(log) + 1)
      /\ \A i \in 1..Len(log) : log'[i] = log[i]
      /\ log'[Len(log) + 1] = op
  BY <1>0
<1>2. Submitted' = Submitted \cup UidsIn(op)
  <2>1. Submitted = UNION {UidsIn(log[i]) : i \in 1..Len(log)}
    BY <1>1, Zenon DEF Submitted
  <2>2. Submitted' = UNION {UidsIn(log'[i]) : i \in 1..(Len(log) + 1)}
    BY <1>1 DEF Submitted
  <2>3. 1..(Len(log) + 1) = 1..Len(log) \cup {Len(log) + 1}
    BY <1>1
  <2> QED
    BY <1>1, <2>1, <2>2, <2>3, Zenon
<1>3. size \in Nat /\ UidsIn(op) = C..(C + size - 1)
  <2>1. CASE op.type = "publish"
    <3>1. /\ op.msgs \in Seq(Plain) /\ DOMAIN op.msgs = 1..size /\ size \in Nat
      BY <1>0, <2>1, OperationFields
    <3>2. \A k \in 1..size : op.msgs[k].uid = C + k - 1
      BY <2>1, <3>1, Zenon DEF Fitting
    <3>3. UidsIn(op) = {C + k - 1 : k \in 1..size}
      BY <2>1, <3>1, <3>2, Zenon DEF UidsIn
    <3>c. C \in Nat /\ size \in Nat /\ Len(op.msgs) = size
      BY <1>0, <2>1, <3>1
    <3> HIDE DEF C, size
    <3>4. \A u \in C..(C + size - 1) : u = C + (u - C + 1) - 1 /\ u - C + 1 \in 1..size
      BY <3>c
    <3>5. \A k \in 1..size : C + k - 1 \in C..(C + size - 1)
      BY <3>c
    <3>6. \A u \in C..(C + size - 1) : u \in UidsIn(op)
      BY <3>3, <3>4, Zenon
    <3>7. \A u \in UidsIn(op) : u \in C..(C + size - 1)
      BY <3>3, <3>5, Zenon
    <3> QED
      BY <3>c, <3>6, <3>7, Zenon
  <2>2. CASE op.type # "publish"
    <3>1. size = 0 /\ UidsIn(op) = {}
      BY <2>2, Zenon DEF UidsIn
    <3> HIDE DEF C, size
    <3> QED
      BY <1>0, <3>1
  <2> QED
    BY <2>1, <2>2
<1> HIDE DEF size
<1>4. Submitted' = 0..(C + size - 1) /\ C + size \in Nat
  <2> HIDE DEF C
  <2> QED
    BY <1>0, <1>2, <1>3
<1>5. Cardinality(Submitted') = C + size
  <2> HIDE DEF C
  <2> DEFINE z == C + size - 1
  <2>1. z \in Int /\ z - 0 + 1 = C + size /\ (0 > z => C + size = 0)
    BY <1>0, <1>3
  <2> HIDE DEF z
  <2>2. Cardinality(0..z) = C + size
    BY <2>1, FS_Interval
  <2> QED
    BY <1>4, <2>2, Zenon DEF z
<1>6. ASSUME NEW i \in 1..Len(log), Publishes(log, i), NEW k \in DOMAIN log[i].msgs
      PROVE  log[i].msgs[k].uid \in Nat /\ log[i].msgs[k].uid < C
  <2>1. log[i].msgs[k].uid \in UidsIn(log[i])
    BY <1>6 DEF UidsIn, Publishes
  <2>2. log[i].msgs[k].uid \in Submitted
    BY <1>1, <2>1 DEF Submitted
  <2> HIDE DEF C
  <2> QED
    BY <1>0, <2>2
<1>7. Submitted' = 0..(Cardinality(Submitted') - 1) /\ Cardinality(Submitted') \in Nat
  <2> HIDE DEF C
  <2>1. C + size - 1 = (C + size) - 1
    BY <1>0, <1>3
  <2> QED
    BY <1>4, <1>5, <2>1, Zenon
<1> QED
  BY <1>6, <1>7, Zenon

\* The entries of a log that is extended.
LEMMA Appended ==
  ASSUME LogInv, NEW op \in Operation, log' = Append(log, op)
  PROVE  /\ log' \in Seq(Operation) /\ Len(log') = Len(log) + 1 /\ Len(log) \in Nat
         /\ log'[Len(log) + 1] = op
         /\ \A i \in 1..Len(log) : log'[i] = log[i]
         /\ \A i \in 1..Len(log') : i \in 1..Len(log) \/ i = Len(log) + 1
<1>1. log \in Seq(Operation)
  BY DEF LogInv
<1> QED
  BY <1>1

\* An operation that fits keeps the invariant of the log.
LEMMA LogGrows ==
  ASSUME TypeOK, LogInv, UseInv, NEW op, Fitting(op), log' = Append(log, op),
         Len(log) < MaxLog, handed' = handed, acked \subseteq acked'
  PROVE  LogInv' /\ UseInv'
<1> DEFINE n == Len(log) + 1
<1>0. MaxLog \in Nat /\ MaxUids \in Nat
  BY FlockAssumption, Zenon
<1>1. op \in Operation
  BY Zenon DEF Fitting
<1>2. /\ log' \in Seq(Operation) /\ Len(log') = n /\ Len(log) \in Nat /\ log'[n] = op
      /\ \A i \in 1..Len(log) : log'[i] = log[i]
      /\ \A i \in 1..Len(log') : i \in 1..Len(log) \/ i = n
  BY <1>1, Appended
<1>3. Len(log') <= MaxLog
  BY <1>0, <1>2
<1>4. \A i \in 1..Len(log') : log'[i].type = "declare" <=> i = 1
  <2>1. log = <<>> <=> n = 1
    <3>1. log \in Seq(Operation)
      BY Zenon DEF LogInv
    <3> QED
      BY <3>1
  <2>2. \A i \in 1..Len(log) : log'[i].type = "declare" <=> i = 1
    BY <1>2 DEF LogInv
  <2>3. op.type = "declare" <=> n = 1
    BY <2>1 DEF Fitting
  <2> HIDE DEF n
  <2> QED
    BY <1>2, <2>2, <2>3, Zenon
<1>5. \A i \in 1..Len(log) : /\ Publishes(log', i) <=> Publishes(log, i)
                             /\ KeyOf(log', i) = KeyOf(log, i)
  BY <1>2 DEF Publishes, KeyOf
<1>6. /\ Publishes(log', n) <=> op.type = "publish"
      /\ KeyOf(log', n) = op.msgs[1].dedup_key
  BY <1>2 DEF Publishes, KeyOf
<1>7. ASSUME NEW i \in 1..Len(log'), Publishes(log', i)
      PROVE  /\ Len(log'[i].msgs) \in 1..MaxUids
             /\ \A k \in DOMAIN log'[i].msgs : log'[i].msgs[k].dedup_key = KeyOf(log', i)
  <2>1. CASE i \in 1..Len(log)
    <3>1. log'[i] = log[i] /\ Publishes(log, i) /\ KeyOf(log', i) = KeyOf(log, i)
      BY <1>2, <1>5, <1>7, <2>1, Zenon
    <3> QED
      BY <2>1, <3>1, Zenon DEF LogInv
  <2>2. CASE i = n
    <3>1. op.type = "publish" /\ log'[i] = op /\ KeyOf(log', i) = op.msgs[1].dedup_key
      BY <1>2, <1>6, <1>7, <2>2, Zenon
    <3> QED
      BY <3>1, Zenon DEF Fitting
  <2> QED
    BY <1>2, <2>1, <2>2, Zenon
<1>8. /\ Submitted' = 0..(Cardinality(Submitted') - 1) /\ Cardinality(Submitted') \in Nat
      /\ \A i \in 1..Len(log) : Publishes(log, i) =>
           \A k \in DOMAIN log[i].msgs : /\ log[i].msgs[k].uid \in Nat
                                         /\ log[i].msgs[k].uid < Cardinality(Submitted)
  BY SubmittedGrows, Zenon
<1>9. ASSUME NEW i \in 1..Len(log'), NEW j \in 1..Len(log'),
             Publishes(log', i), Publishes(log', j),
             NEW k \in DOMAIN log'[i].msgs, NEW l \in DOMAIN log'[j].msgs,
             log'[i].msgs[k].uid = log'[j].msgs[l].uid
      PROVE  i = j /\ k = l
  <2> DEFINE C == Cardinality(Submitted)
  <2>0. C \in Nat
    BY Zenon DEF LogInv
  <2>1. ASSUME NEW x \in 1..Len(log), Publishes(log', x), NEW a \in DOMAIN log'[x].msgs
        PROVE  log'[x].msgs[a].uid \in Nat /\ log'[x].msgs[a].uid < C
    BY <1>2, <1>5, <1>8, <2>1, Zenon
  <2>2. ASSUME Publishes(log', n), NEW a \in DOMAIN log'[n].msgs
        PROVE  a \in Nat \ {0} /\ log'[n].msgs[a].uid = C + a - 1
    <3>1. op.type = "publish" /\ op.msgs \in Seq(Plain) /\ log'[n] = op
      BY <1>1, <1>2, <1>6, <2>2, OperationFields, Zenon
    <3>2. a \in DOMAIN op.msgs
      BY <2>2, <3>1
    <3>3. op.msgs[a].uid = C + a - 1
      BY <3>1, <3>2, Zenon DEF Fitting
    <3> QED
      BY <3>1, <3>2, <3>3
  <2> HIDE DEF C, n
  <2>3. CASE i \in 1..Len(log) /\ j \in 1..Len(log)
    <3>1. log'[i] = log[i] /\ log'[j] = log[j] /\ Publishes(log, i) /\ Publishes(log, j)
      BY <1>2, <1>5, <1>9, <2>3, Zenon
    <3>2. /\ k \in DOMAIN log[i].msgs /\ l \in DOMAIN log[j].msgs
          /\ log[i].msgs[k].uid = log[j].msgs[l].uid
      BY <1>9, <3>1, Zenon
    <3>3. \A x, y \in 1..Len(log) : Publishes(log, x) /\ Publishes(log, y) =>
            \A a \in DOMAIN log[x].msgs, c \in DOMAIN log[y].msgs :
              log[x].msgs[a].uid = log[y].msgs[c].uid => x = y /\ a = c
      BY Zenon DEF LogInv
    <3>4. \A a \in DOMAIN log[i].msgs, c \in DOMAIN log[j].msgs :
            log[i].msgs[a].uid = log[j].msgs[c].uid => i = j /\ a = c
      BY <2>3, <3>1, <3>3, Zenon
    <3> QED
      BY <3>2, <3>4, Zenon
  <2>4. CASE i = n /\ j = n
    <3> DEFINE x == log'[i].msgs[k].uid
    <3>1. k \in Nat \ {0} /\ x = C + k - 1
      BY <1>9, <2>2, <2>4, Zenon
    <3>2. l \in Nat \ {0} /\ x = C + l - 1
      BY <1>9, <2>2, <2>4, Zenon
    <3> HIDE DEF x
    <3> QED
      BY <2>0, <2>4, <3>1, <3>2
  <2>5. CASE i \in 1..Len(log) /\ j = n
    <3> DEFINE x == log'[i].msgs[k].uid
    <3>1. x \in Nat /\ x < C
      BY <1>9, <2>1, <2>5, Zenon
    <3>2. l \in Nat \ {0} /\ x = C + l - 1
      BY <1>9, <2>2, <2>5, Zenon
    <3> HIDE DEF x
    <3> QED
      BY <2>0, <3>1, <3>2
  <2>6. CASE i = n /\ j \in 1..Len(log)
    <3> DEFINE x == log'[j].msgs[l].uid
    <3>1. x \in Nat /\ x < C
      BY <1>9, <2>1, <2>6, Zenon
    <3>2. k \in Nat \ {0} /\ x = C + k - 1
      BY <1>9, <2>2, <2>6, Zenon
    <3> HIDE DEF x
    <3> QED
      BY <2>0, <3>1, <3>2
  <2> QED
    BY <1>2, <2>3, <2>4, <2>5, <2>6, Zenon
<1>10. ASSUME NEW i \in 1..Len(log'), log'[i].type = "ack"
       PROVE  \E d \in handed' : d.tag = log'[i].tag /\ d.uid \in acked'
  <2>1. CASE i \in 1..Len(log)
    BY <1>2, <1>10, <2>1, Zenon DEF UseInv
  <2>2. CASE i = n
    BY <1>2, <1>10, <2>2, Zenon DEF Fitting
  <2> QED
    BY <1>2, <2>1, <2>2, Zenon
<1>11. ASSUME NEW i \in 1..Len(log'), log'[i].type = "nack"
       PROVE  \E d \in handed' : d.tag = log'[i].tag
  <2>1. CASE i \in 1..Len(log)
    BY <1>2, <1>11, <2>1, Zenon DEF UseInv
  <2>2. CASE i = n
    BY <1>2, <1>11, <2>2, Zenon DEF Fitting
  <2> QED
    BY <1>2, <2>1, <2>2, Zenon
<1> HIDE DEF n
<1>12. \A d \in handed' : d.at <= Len(log')
  <2>1. \A d \in handed : d.at \in Nat /\ d.at <= Len(log)
    BY <1>0 DEF UseInv, TypeOK
  <2> QED
    BY <1>2, <2>1 DEF n
<1>13. LogInv'
  BY <1>2, <1>3, <1>4, <1>7, <1>8, <1>9, Zenon DEF LogInv
<1>14. UseInv'
  BY <1>10, <1>11, <1>12, Zenon DEF UseInv
<1> QED
  BY <1>13, <1>14

\* A step that leaves the log alone keeps the invariant of the log.
LEMMA LogStays ==
  ASSUME LogInv, log' = log
  PROVE  LogInv'
<1>1. Submitted' = Submitted
  BY Zenon DEF Submitted
<1> DEFINE P(L) ==
             /\ L \in Seq(Operation) /\ Len(L) <= MaxLog
             /\ \A i \in 1..Len(L) : L[i].type = "declare" <=> i = 1
             /\ \A i \in 1..Len(L) : Publishes(L, i) =>
                  /\ Len(L[i].msgs) \in 1..MaxUids
                  /\ \A k \in DOMAIN L[i].msgs : L[i].msgs[k].dedup_key = KeyOf(L, i)
             /\ \A i, j \in 1..Len(L) : Publishes(L, i) /\ Publishes(L, j) =>
                  \A k \in DOMAIN L[i].msgs, l \in DOMAIN L[j].msgs :
                    L[i].msgs[k].uid = L[j].msgs[l].uid => i = j /\ k = l
           R(S) == S = 0..(Cardinality(S) - 1) /\ Cardinality(S) \in Nat
<1>2. P(log) /\ R(Submitted)
  BY Zenon DEF LogInv
<1> HIDE DEF P, R
<1>3. P(log') /\ R(Submitted')
  BY <1>1, <1>2, Zenon
<1> QED
  BY <1>3, Zenon DEF LogInv, P, R

\* So do deliveries to clients.
LEMMA UseStays ==
  ASSUME UseInv, log' = log, acked' = acked, handed \subseteq handed',
         \A d \in handed' : d.at <= Len(log)
  PROVE  UseInv'
BY DEF UseInv

NodeType == [phase : {"down", "starting", "up"}, fresh : BOOLEAN, store : Store, nextId : Nat,
             applied : 0..MaxLog, clock : 0..MaxTime]

\* The state of a node.
LEMMA NodeFacts ==
  ASSUME FlockInv, NEW n \in Nodes
  PROVE  /\ node[n].store \in Store /\ node[n].nextId \in Nat /\ node[n].clock \in 0..MaxTime
         /\ node[n].applied \in Nat /\ node[n].applied <= Len(log)
         /\ Sound(node[n].store, node[n].nextId)
         /\ log \in Seq(Operation) /\ Len(log) \in Nat /\ Len(log) <= MaxLog
         /\ MaxLog \in Nat /\ MaxUids \in Nat /\ MaxTime \in Nat
<1>1. MaxLog \in Nat /\ MaxUids \in Nat /\ MaxTime \in Nat
  BY FlockAssumption, Zenon
<1>2. /\ node[n].store \in Store /\ node[n].nextId \in Nat /\ node[n].clock \in 0..MaxTime
      /\ node[n].applied \in 0..MaxLog
  BY Zenon DEF FlockInv, TypeOK
<1>3. node[n].applied \in Nat
  BY <1>1, <1>2
<1>4. node[n].applied <= Len(log) /\ Sound(node[n].store, node[n].nextId)
  BY Zenon DEF FlockInv, NodeInv
<1>5. log \in Seq(Operation) /\ Len(log) <= MaxLog
  BY Zenon DEF FlockInv, LogInv
<1>6. Len(log) \in Nat
  BY <1>5
<1> QED
  BY <1>1, <1>2, <1>3, <1>4, <1>5, <1>6, Zenon

\* A step that appends the operation.
Submits(op) ==
  /\ Fitting(op) /\ log' = Append(log, op) /\ Len(log) < MaxLog
  /\ UNCHANGED <<node, leader, since, initialized>>
  /\ acked \subseteq acked' /\ acked' \subseteq Nat
  /\ UNCHANGED <<confirmed, handed, restarted, faults, stillborn>>

\* Appending an operation that fits keeps the invariant.
LEMMA SubmitStep ==
  ASSUME FlockInv, NEW op, Submits(op)
  PROVE  FlockInv'
<1>1. /\ log' = Append(log, op) /\ Len(log) < MaxLog
      /\ UNCHANGED <<node, leader, since, initialized>>
      /\ Fitting(op) /\ acked \subseteq acked' /\ acked' \subseteq Nat
      /\ UNCHANGED <<confirmed, handed, restarted, faults, stillborn>>
  BY Zenon DEF Submits
<1>2. TypeOK /\ LogInv /\ UseInv /\ op \in Operation
  BY <1>1, Zenon DEF FlockInv, Fitting
<1>3. LogInv' /\ UseInv'
  BY <1>1, <1>2, LogGrows
<1>4. /\ Len(log') = Len(log) + 1 /\ Len(log) \in Nat
      /\ \A i \in 1..Len(log) : log'[i] = log[i]
  BY <1>1, <1>2, Appended, Zenon
<1>5. TypeOK'
  BY <1>1, <1>2, Zenon DEF TypeOK
<1>6. ASSUME NEW n \in Nodes PROVE NodeInv(n)'
  <2>1. NodeInv(n)
    BY Zenon DEF FlockInv
  <2>2. node[n].applied \in Nat /\ node[n].applied <= Len(log)
    BY NodeFacts, Zenon
  <2>3. node[n].applied <= Len(log')
    BY <1>4, <2>2
  <2>4. node[n].applied > 0 => log'[1] = log[1]
    BY <1>4, <2>2
  <2> QED
    BY <1>1, <2>1, <2>3, <2>4, Zenon DEF NodeInv
<1>7. since' <= Len(log')
  <2>0. since \in 0..MaxLog /\ since <= Len(log)
    BY <1>2, Zenon DEF FlockInv, TypeOK
  <2>1. since \in Nat /\ since <= Len(log)
    BY <2>0, FlockAssumption
  <2> QED
    BY <1>1, <1>4, <2>1
<1>8. /\ IsFiniteSet(restarted') /\ ComesToLife'
      /\ (~node[Lowest].fresh => node[Lowest].phase = "starting" \/ initialized \/ stillborn)'
  BY <1>1, Zenon DEF FlockInv, ComesToLife
<1> QED
  BY <1>3, <1>5, <1>6, <1>7, <1>8, Zenon DEF FlockInv

\* A step of a handler.
Handler ==
  \/ log = <<>> /\ \E policy \in Policies : DeclareQueue(policy)
  \/ /\ log # <<>>
     /\ \/ \E size \in PublishSizes, key \in DedupKeys \cup {None} : PublishBatch(size, key)
        \/ \E max \in ConsumeSizes : ConsumeBatch(max)
  \/ \E d \in handed : Ack(d) \/ Nack(d)

\* The handlers append operations that fit.
LEMMA HandlersFit ==
  ASSUME FlockInv, Handler
  PROVE  \E op : Submits(op)
<1> DEFINE Fits == \E op : Submits(op)
<1> HIDE DEF Fits
<1>0. /\ acked \subseteq Nat /\ handed \subseteq [tag : Nat, uid : Nat, at : 1..MaxLog]
      /\ MaxUids \in Nat /\ MaxLog \in Nat
  BY FlockAssumption, Zenon DEF FlockInv, TypeOK
<1>1. ASSUME NEW op, Fitting(op), Submit(op), UNCHANGED hist PROVE Fits
  <2>1. /\ acked' = acked /\ UNCHANGED <<confirmed, handed, restarted, faults, stillborn>>
    BY <1>1 DEF hist
  <2>2. acked \subseteq acked' /\ acked' \subseteq Nat
    BY <1>0, <2>1
  <2>3. log' = Append(log, op) /\ Len(log) < MaxLog /\ UNCHANGED <<node, leader, since, initialized>>
    BY <1>1, Zenon DEF Submit
  <2> QED
    BY <1>1, <2>1, <2>2, <2>3, Zenon DEF Submits, Fits
<1>2. ASSUME NEW policy \in Policies, log = <<>>, DeclareQueue(policy) PROVE Fits
  <2> DEFINE op == [type |-> "declare", policy |-> policy]
  <2>1. Submit(op) /\ UNCHANGED hist
    BY <1>2, Zenon DEF DeclareQueue
  <2>2. op \in Operation /\ op.type = "declare"
    BY Zenon DEF Operation
  <2> HIDE DEF op
  <2>3. Fitting(op)
    BY <1>2, <2>2 DEF Fitting
  <2> QED
    BY <1>1, <2>1, <2>3, Zenon
<1>3. ASSUME NEW size \in PublishSizes, NEW key \in DedupKeys \cup {None}, log # <<>>,
             PublishBatch(size, key)
      PROVE  Fits
  <2> DEFINE C == Cardinality(Submitted)
             M == [i \in 1..size |->
                     [uid |-> C + i - 1, priority |-> 0, deliver_at |-> None,
                      dedup_key |-> key, timestamp |-> 0, delivery_attempts |-> 0]]
             op == [type |-> "publish", msgs |-> M]
  <2>1. Submit(op) /\ UNCHANGED hist /\ C + size <= MaxUids
    BY <1>3, Zenon DEF PublishBatch
  <2>2. C \in Nat
    BY Zenon DEF FlockInv, LogInv
  <2>3. size \in Nat \ {0}
    BY FlockAssumption, Zenon
  <2> HIDE DEF C
  <2>4. /\ M \in Seq(Plain) /\ Len(M) = size /\ DOMAIN M = 1..size
        /\ \A k \in 1..size : M[k].dedup_key = key /\ M[k].uid = C + k - 1
    <3>1. \A i \in 1..size : C + i - 1 \in Nat
      BY <2>2, <2>3
    <3>2. M \in [1..size -> Plain]
      BY <3>1 DEF Plain
    <3> QED
      BY <2>3, <3>2
  <2> HIDE DEF M
  <2>5. op \in Operation /\ op.type = "publish" /\ op.msgs = M
    BY <2>4, Zenon DEF Operation
  <2> HIDE DEF op
  <2>6. 1 \in 1..size /\ size \in 1..MaxUids
    BY <1>0, <2>1, <2>2, <2>3
  <2>7. Fitting(op)
    BY <1>3, <2>4, <2>5, <2>6, Zenon DEF Fitting, C
  <2> QED
    BY <1>1, <2>1, <2>7
<1>4. ASSUME NEW max \in ConsumeSizes, log # <<>>, ConsumeBatch(max) PROVE Fits
  <2> DEFINE op == [type |-> "consume", max |-> max]
  <2>1. Submit(op) /\ UNCHANGED hist
    BY <1>4, Zenon DEF ConsumeBatch
  <2>2. max \in Nat
    BY FlockAssumption
  <2>3. op \in Operation /\ op.type = "consume"
    BY <2>2 DEF Operation
  <2> HIDE DEF op
  <2>4. Fitting(op)
    BY <1>4, <2>3, Zenon DEF Fitting
  <2> QED
    BY <1>1, <2>1, <2>4
<1>5. ASSUME NEW d \in handed
      PROVE  d.tag \in Nat /\ d.uid \in Nat /\ log # <<>>
  <2>0. d.at <= Len(log)
    BY Zenon DEF FlockInv, UseInv
  <2>1. d.at \in Nat /\ 1 <= d.at /\ d.at <= Len(log)
    BY <1>0, <2>0
  <2>2. Len(log) # 0
    <3>1. log \in Seq(Operation)
      BY Zenon DEF FlockInv, LogInv
    <3> QED
      BY <2>1, <3>1
  <2> QED
    BY <1>0, <2>2
<1>6. ASSUME NEW d \in handed, Ack(d) PROVE Fits
  <2> DEFINE op == [type |-> "ack", tag |-> d.tag]
  <2>1. /\ Submit(op) /\ acked' = acked \cup {d.uid}
        /\ UNCHANGED <<confirmed, handed, restarted, faults, stillborn>>
    BY <1>6, Zenon DEF Ack
  <2>2. op \in Operation /\ op.type = "ack" /\ op.tag = d.tag
    BY <1>5 DEF Operation
  <2> HIDE DEF op
  <2>3. Fitting(op)
    BY <1>5, <2>1, <2>2, Zenon DEF Fitting
  <2>4. acked \subseteq acked' /\ acked' \subseteq Nat
    BY <1>0, <1>5, <2>1, Zenon
  <2>5. log' = Append(log, op) /\ Len(log) < MaxLog /\ UNCHANGED <<node, leader, since, initialized>>
    BY <2>1, Zenon DEF Submit
  <2> QED
    BY <2>1, <2>3, <2>4, <2>5, Zenon DEF Submits, Fits
<1>7. ASSUME NEW d \in handed, Nack(d) PROVE Fits
  <2> DEFINE op == [type |-> "nack", tag |-> d.tag]
  <2>1. Submit(op) /\ UNCHANGED hist
    BY <1>7, Zenon DEF Nack
  <2>2. op \in Operation /\ op.type = "nack" /\ op.tag = d.tag
    BY <1>5, Zenon DEF Operation
  <2> HIDE DEF op
  <2>3. Fitting(op)
    BY <1>5, <2>2 DEF Fitting
  <2> QED
    BY <1>1, <2>1, <2>3
<1> QED
  BY <1>2, <1>3, <1>4, <1>6, <1>7, Zenon DEF Handler, Fits

\* What each operation makes of a store and its next id, and what it answers.
Outcome(r, op, s, b, now) ==
  /\ op.type \in {"declare", "publish", "consume", "ack", "nack"}
  /\ op.type = "declare" => s = EmptyStore /\ DeclareResult(r, b, op.policy)
  /\ op.type = "publish" =>
       /\ op.msgs \in Seq(Plain)
       /\ PublishResult(r, s, b, op.msgs, Stored(s, Q, op.msgs, now), now)
  /\ op.type = "consume" => op.max \in Nat /\ ConsumeResult(r, s, b, op.max)
  /\ op.type = "ack" => AckResult(r, s, b, op.tag)
  /\ op.type = "nack" => NackResult(r, s, b, op.tag)

\* What a node makes of the next entry.
LEMMA ApplyOutcome ==
  ASSUME FlockInv, NEW n \in Nodes, node[n].applied < Len(log), NEW now \in Nat
  PROVE  LET i == node[n].applied + 1
             r == ApplyOperation(n, log[i], now)
         IN  /\ i \in 1..Len(log) /\ log[i] \in Operation
             /\ log[i].type = "declare" <=> i = 1
             /\ i # 1 => /\ node[n].store.queues = {Q}
                         /\ PolicyOf(node[n].store, Q) = log[1].policy
             /\ Outcome(r, log[i], node[n].store, node[n].nextId, now)
<1> DEFINE i == node[n].applied + 1
           s == node[n].store
           b == node[n].nextId
           r == ApplyOperation(n, log[i], now)
<1>1. /\ s \in Store /\ b \in Nat /\ Sound(s, b) /\ node[n].applied \in Nat
      /\ log \in Seq(Operation) /\ Len(log) \in Nat
  BY NodeFacts, Zenon
<1>2. i \in 1..Len(log) /\ log[i] \in Operation
  BY <1>1
<1>3. /\ log[i].type \in {"declare", "publish", "consume", "ack", "nack"}
      /\ log[i].type = "declare" => log[i].policy \in Policies
      /\ log[i].type = "publish" => log[i].msgs \in Seq(Plain)
      /\ log[i].type = "consume" => log[i].max \in Nat
  BY <1>2, OperationFields, Zenon
<1>4. /\ log[i].type = "declare" => r = DeclareOp(Replica(s, b), Q, log[i].policy)
      /\ log[i].type = "publish" => r = PublishOp(Replica(s, b), Q, log[i].msgs, now)
      /\ log[i].type = "consume" => r = ConsumeOp(Replica(s, b), Q, log[i].max)
      /\ log[i].type = "ack" => r = AckOp(Replica(s, b), Q, log[i].tag)
      /\ log[i].type = "nack" => r = NackOp(Replica(s, b), Q, log[i].tag)
  BY ApplyCases, Zenon
<1>5. log[i].type = "declare" <=> i = 1
  BY <1>2, Zenon DEF FlockInv, LogInv
<1>6. /\ node[n].applied = 0 => s = EmptyStore
      /\ node[n].applied > 0 => s.queues = {Q} /\ PolicyOf(s, Q) = log[1].policy
  BY Zenon DEF FlockInv, NodeInv
<1>7. (i = 1 <=> node[n].applied = 0) /\ (i # 1 <=> node[n].applied > 0)
  BY <1>1
<1> HIDE DEF i, s, b, r
<1>8. i # 1 => s.queues = {Q} /\ Q \in s.queues /\ PolicyOf(s, Q) = log[1].policy
  BY <1>6, <1>7, Zenon
<1>9. log[i].type = "declare" => s = EmptyStore /\ DeclareResult(r, b, log[i].policy)
  BY <1>1, <1>3, <1>4, <1>5, <1>6, <1>7, DeclareEffect, Zenon
<1>10. ASSUME log[i].type = "publish"
       PROVE  PublishResult(r, s, b, log[i].msgs, Stored(s, Q, log[i].msgs, now), now)
  <2>1. i # 1
    BY <1>5, <1>10
  <2> QED
    BY <1>1, <1>3, <1>4, <1>8, <1>10, <2>1, PublishEffect, Zenon
<1>11. log[i].type = "consume" => ConsumeResult(r, s, b, log[i].max)
  BY <1>1, <1>4, ConsumeEffect, Zenon
<1>12. log[i].type = "ack" => AckResult(r, s, b, log[i].tag)
  BY <1>1, <1>4, AckEffect, Zenon
<1>13. ASSUME log[i].type = "nack" PROVE NackResult(r, s, b, log[i].tag)
  <2>1. i # 1
    BY <1>5, <1>13
  <2> QED
    BY <1>1, <1>4, <1>8, <1>13, <2>1, NackEffect, Zenon
<1>14. Outcome(r, log[i], s, b, now)
  BY <1>3, <1>9, <1>10, <1>11, <1>12, <1>13, Zenon DEF Outcome
<1> QED
  BY <1>2, <1>5, <1>8, <1>14, Zenon DEF r, i, s, b

\* What a node becomes when it applies the next entry.
LEMMA ApplyFacts ==
  ASSUME FlockInv, NEW n \in Nodes, node[n].applied < Len(log), NEW now \in Nat
  PROVE  LET i == node[n].applied + 1
             r == ApplyOperation(n, log[i], now)
         IN  /\ i \in 1..Len(log) /\ log[i] \in Operation
             /\ r.store \in Store /\ r.nextId \in Nat /\ node[n].nextId <= r.nextId
             /\ Sound(r.store, r.nextId)
             /\ r.store.queues = {Q} /\ PolicyOf(r.store, Q) = log[1].policy
             /\ r.stored \subseteq Nat /\ r.out \subseteq [tag : Nat, uid : Nat]
<1> DEFINE i == node[n].applied + 1
           s == node[n].store
           b == node[n].nextId
           r == ApplyOperation(n, log[i], now)
<1>1. /\ i \in 1..Len(log) /\ log[i] \in Operation
      /\ log[i].type = "declare" <=> i = 1
      /\ i # 1 => s.queues = {Q} /\ PolicyOf(s, Q) = log[1].policy
      /\ Outcome(r, log[i], s, b, now)
  BY ApplyOutcome, Zenon
<1>2. b \in Nat
  BY NodeFacts, Zenon
<1> DEFINE Result == /\ r.store \in Store /\ r.nextId \in Nat /\ b <= r.nextId
                     /\ Sound(r.store, r.nextId)
                     /\ r.store.queues = {Q} /\ PolicyOf(r.store, Q) = log[1].policy
                     /\ r.stored \subseteq Nat /\ r.out \subseteq [tag : Nat, uid : Nat]
<1> HIDE DEF i, s, b, r
<1>3. ASSUME log[i].type = "declare" PROVE Result
  <2>1. DeclareResult(r, b, log[1].policy)
    BY <1>1, <1>3, Zenon DEF Outcome
  <2>2. b <= b
    BY <1>2
  <2>3. r.stored = {} /\ r.out = {}
    BY <2>1, Zenon DEF DeclareResult
  <2>4. r.stored \subseteq Nat /\ r.out \subseteq [tag : Nat, uid : Nat]
    BY <2>3
  <2> QED
    BY <1>2, <2>1, <2>2, <2>4, Zenon DEF DeclareResult
<1>4. ASSUME log[i].type # "declare" PROVE Result
  <2>1. s.queues = {Q} /\ PolicyOf(s, Q) = log[1].policy
    BY <1>1, <1>4, Zenon
  <2>2. Applied(r, s, b)
    <3>1. \/ PublishResult(r, s, b, log[i].msgs, Stored(s, Q, log[i].msgs, now), now)
          \/ ConsumeResult(r, s, b, log[i].max)
          \/ AckResult(r, s, b, log[i].tag)
          \/ NackResult(r, s, b, log[i].tag)
      BY <1>1, <1>4, Zenon DEF Outcome
    <3> QED
      BY <3>1, Zenon DEF PublishResult, ConsumeResult, AckResult, NackResult
  <2>3. PolicyOf(r.store, Q) = PolicyOf(s, Q) /\ r.store.queues = s.queues
    BY <2>2, Zenon DEF Applied, SameMeta, PolicyOf
  <2> QED
    BY <2>1, <2>2, <2>3, Zenon DEF Applied
<1> QED
  BY <1>1, <1>3, <1>4, Zenon DEF r, i, b

\* What the application of an entry changes.
LEMMA ApplyChanges ==
  ASSUME FlockInv, NEW n \in Nodes, Apply(n)
  PROVE  \E now \in Nat :
           LET i == node[n].applied + 1
               r == ApplyOperation(n, log[i], now)
           IN  /\ node[n].applied < Len(log) /\ now <= MaxTime /\ node[n].clock <= now
               /\ node' = [node EXCEPT ![n].store = r.store, ![n].nextId = r.nextId,
                                       ![n].applied = i, ![n].clock = now]
               /\ confirmed' = confirmed \/ confirmed' = confirmed \cup r.stored
               /\ \/ handed' = handed
                  \/ handed' = handed \cup {[tag |-> d.tag, uid |-> d.uid, at |-> i] : d \in r.out}
               /\ UNCHANGED <<log, leader, since, initialized>>
               /\ UNCHANGED <<acked, restarted, faults, stillborn>>
<1>1. node[n].clock \in 0..MaxTime /\ MaxTime \in Nat
  BY NodeFacts, Zenon
<1>2. PICK now \in node[n].clock..MaxTime :
        LET i == node[n].applied + 1
            r == ApplyOperation(n, log[i], now)
            reply == n = leader /\ i > since
        IN  /\ node[n].applied < Len(log)
            /\ node' = [node EXCEPT ![n].store = r.store, ![n].nextId = r.nextId,
                                    ![n].applied = i, ![n].clock = now]
            /\ confirmed' = IF reply THEN confirmed \cup r.stored ELSE confirmed
            /\ handed' = IF reply
                            THEN handed \cup {[tag |-> d.tag, uid |-> d.uid, at |-> i] : d \in r.out}
                            ELSE handed
            /\ UNCHANGED <<cluster, acked, restarted, faults, stillborn>>
  BY Zenon DEF Apply
<1>3. now \in Nat /\ now <= MaxTime /\ node[n].clock <= now
  BY <1>1
<1> DEFINE i == node[n].applied + 1
           r == ApplyOperation(n, log[i], now)
           H == {[tag |-> d.tag, uid |-> d.uid, at |-> i] : d \in r.out}
           upd == [node EXCEPT ![n].store = r.store, ![n].nextId = r.nextId,
                               ![n].applied = i, ![n].clock = now]
<1>4. confirmed' = confirmed \/ confirmed' = confirmed \cup r.stored
  BY <1>2, Zenon
<1>5. handed' = handed \/ handed' = handed \cup H
  BY <1>2, Zenon
<1>6. /\ node[n].applied < Len(log) /\ node' = upd
      /\ UNCHANGED <<log, leader, since, initialized>>
      /\ UNCHANGED <<acked, restarted, faults, stillborn>>
  BY <1>2, Zenon DEF cluster
<1> QED
  BY <1>3, <1>4, <1>5, <1>6, Zenon

\* Applying an entry keeps the invariant.
LEMMA ApplyStep ==
  ASSUME FlockInv, NEW n \in Nodes, Apply(n)
  PROVE  FlockInv'
<1>1. PICK now \in Nat :
         LET i == node[n].applied + 1
             r == ApplyOperation(n, log[i], now)
         IN  /\ node[n].applied < Len(log) /\ now <= MaxTime /\ node[n].clock <= now
             /\ node' = [node EXCEPT ![n].store = r.store, ![n].nextId = r.nextId,
                                     ![n].applied = i, ![n].clock = now]
             /\ confirmed' = confirmed \/ confirmed' = confirmed \cup r.stored
             /\ \/ handed' = handed
                \/ handed' = handed \cup {[tag |-> d.tag, uid |-> d.uid, at |-> i] : d \in r.out}
             /\ UNCHANGED <<log, leader, since, initialized>>
             /\ UNCHANGED <<acked, restarted, faults, stillborn>>
  BY ApplyChanges, Zenon
<1> DEFINE i == node[n].applied + 1
           r == ApplyOperation(n, log[i], now)
           H == {[tag |-> d.tag, uid |-> d.uid, at |-> i] : d \in r.out}
<1>2. /\ node[n].applied < Len(log) /\ now <= MaxTime
      /\ node' = [node EXCEPT ![n].store = r.store, ![n].nextId = r.nextId,
                              ![n].applied = i, ![n].clock = now]
      /\ confirmed' = confirmed \/ confirmed' = confirmed \cup r.stored
      /\ handed' = handed \/ handed' = handed \cup H
      /\ UNCHANGED <<log, leader, since, initialized>>
      /\ UNCHANGED <<acked, restarted, faults, stillborn>>
  BY <1>1, Zenon
<1>3. /\ i \in 1..Len(log) /\ r.store \in Store /\ r.nextId \in Nat
      /\ Sound(r.store, r.nextId)
      /\ r.store.queues = {Q} /\ PolicyOf(r.store, Q) = log[1].policy
      /\ r.stored \subseteq Nat /\ r.out \subseteq [tag : Nat, uid : Nat]
  BY <1>2, ApplyFacts, Zenon
<1>4. /\ TypeOK /\ LogInv /\ UseInv /\ Len(log) \in Nat /\ Len(log) <= MaxLog /\ MaxLog \in Nat
      /\ MaxTime \in Nat /\ node[n].applied \in Nat
  BY NodeFacts, Zenon DEF FlockInv
<1> HIDE DEF r
<1>5. H \subseteq [tag : Nat, uid : Nat, at : 1..MaxLog] /\ \A d \in H : d.at = i
  <2> HIDE DEF i
  <2>0. i \in 1..Len(log) /\ Len(log) \in Nat /\ Len(log) <= MaxLog /\ MaxLog \in Nat
    BY <1>3, <1>4, Zenon
  <2>1. i \in 1..MaxLog
    BY <2>0
  <2>2. ASSUME NEW d \in r.out
        PROVE  [tag |-> d.tag, uid |-> d.uid, at |-> i] \in [tag : Nat, uid : Nat, at : 1..MaxLog]
    <3>1. d.tag \in Nat /\ d.uid \in Nat
      BY <1>3, Zenon
    <3> QED
      BY <2>1, <3>1, Zenon
  <2>3. H \subseteq [tag : Nat, uid : Nat, at : 1..MaxLog]
    BY <2>2, Zenon
  <2>4. \A d \in H : d.at = i
    <3>1. \A d \in r.out : [tag |-> d.tag, uid |-> d.uid, at |-> i].at = i
      BY Zenon
    <3> QED
      BY <3>1
  <2> QED
    BY <2>3, <2>4, Zenon
<1>6. i \in 0..MaxLog /\ now \in 0..MaxTime /\ i <= Len(log) /\ i > 0
  BY <1>2, <1>3, <1>4
<1> HIDE DEF H, i
<1>7. TypeOK'
  <2>1. node' \in [Nodes -> NodeType]
    <3>1. node \in [Nodes -> NodeType]
      BY <1>4, Zenon DEF TypeOK, NodeType
    <3>2. [node[n] EXCEPT !.store = r.store, !.nextId = r.nextId, !.applied = i, !.clock = now]
            \in NodeType
      BY <1>3, <1>6, <3>1, Zenon DEF NodeType
    <3>3. node' = [node EXCEPT ![n] = [node[n] EXCEPT !.store = r.store, !.nextId = r.nextId,
                                                      !.applied = i, !.clock = now]]
      BY <1>2, <3>1, Zenon
    <3> QED
      BY <3>1, <3>2, <3>3, Zenon
  <2>2. UNION {confirmed', acked'} \subseteq Nat
    BY <1>2, <1>3, <1>4, Zenon DEF TypeOK
  <2>3. handed' \subseteq [tag : Nat, uid : Nat, at : 1..MaxLog]
    BY <1>2, <1>4, <1>5, Zenon DEF TypeOK
  <2> QED
    BY <1>2, <1>4, <2>1, <2>2, <2>3, Zenon DEF TypeOK, NodeType
<1>8. /\ node'[n].store = r.store /\ node'[n].nextId = r.nextId /\ node'[n].applied = i
      /\ node'[n].fresh = node[n].fresh /\ node'[n].phase = node[n].phase
      /\ \A m \in Nodes \ {n} : node'[m] = node[m]
  BY <1>2, <1>4 DEF TypeOK
<1>9. \A m \in Nodes : node'[m].fresh = node[m].fresh /\ node'[m].phase = node[m].phase
  BY <1>8, Zenon
<1>10. handed \subseteq handed' /\ \A d \in handed' : d.at <= Len(log)
  BY <1>2, <1>4, <1>5, <1>6, Zenon DEF UseInv
<1>11. LogInv' /\ UseInv'
  BY <1>2, <1>4, <1>10, LogStays, UseStays, Zenon
<1>12. ASSUME NEW m \in Nodes PROVE NodeInv(m)'
  <2>1. NodeInv(m)
    BY Zenon DEF FlockInv
  <2>2. CASE m = n
    <3>1. ~node[n].fresh
      <4>1. Apply(n) => node[n].phase = "up"
        BY Zenon DEF Apply
      <4>2. node[n].phase # "down"
        BY <4>1, Zenon
      <4> QED
        BY <2>1, <2>2, <4>2, Zenon DEF NodeInv
    <3>2. i # 0
      BY <1>6
    <3> QED
      BY <1>2, <1>3, <1>6, <1>8, <2>2, <3>1, <3>2, Zenon DEF NodeInv
  <2>3. CASE m # n
    <3>1. node'[m] = node[m]
      BY <1>8, <2>3, Zenon
    <3> QED
      BY <1>2, <2>1, <3>1, Zenon DEF NodeInv
  <2> QED
    BY <2>2, <2>3, Zenon
<1>13. /\ since' <= Len(log') /\ IsFiniteSet(restarted') /\ ComesToLife'
       /\ (~node[Lowest].fresh => node[Lowest].phase = "starting" \/ initialized \/ stillborn)'
  BY <1>2, <1>9, LowestIsNode, Zenon DEF FlockInv, ComesToLife
<1> QED
  BY <1>7, <1>11, <1>12, <1>13, Zenon DEF FlockInv

\* A start keeps the invariant.
LEMMA StartStep ==
  ASSUME FlockInv, NEW n \in Nodes, Start(n)
  PROVE  FlockInv'
<1> DEFINE s == node[n].store
           I == Inflight(s)
           base == IF node[n].fresh THEN 0 ELSE Reopened(node[n].nextId)
           p == IF n = Lowest /\ IsFresh(n) THEN "starting" ELSE "up"
           w == Recover(s, I, I, base)
           c == base + Cardinality(I)
<1>1. /\ node[n].phase = "down"
      /\ node' = [node EXCEPT ![n].phase = p, ![n].fresh = FALSE, ![n].store = w,
                              ![n].nextId = c]
      /\ restarted' = IF node[n].fresh THEN restarted ELSE restarted \cup {n}
      /\ UNCHANGED <<log, leader, since, initialized>>
      /\ UNCHANGED <<confirmed, handed, acked, faults, stillborn>>
  BY Zenon DEF Start, cluster
<1>2. /\ s \in Store /\ node[n].nextId \in Nat /\ Sound(s, node[n].nextId)
      /\ TypeOK /\ LogInv /\ UseInv /\ NodeInv(n)
  BY NodeFacts, Zenon DEF FlockInv
<1>3. base \in Nat /\ node[n].nextId <= base
  <2>1. node[n].fresh => node[n].nextId = 0
    BY <1>2, Zenon DEF NodeInv
  <2>2. Reopened(node[n].nextId) \in Nat /\ node[n].nextId <= Reopened(node[n].nextId)
    BY <1>2, ReopenedBeyond, Zenon
  <2> QED
    BY <2>1, <2>2
<1> HIDE DEF base
<1>4. /\ w \in Store /\ SameMeta(w, s) /\ w.dedup = s.dedup
      /\ Cardinality(I) \in Nat /\ Sound(w, base + Cardinality(I))
      /\ Recovered(w, s, base)
  <2> HIDE DEF s
  <2> QED
    BY <1>2, <1>3, RecoverEffect, Zenon
<1>5. c \in Nat /\ Sound(w, c)
  <2>1. \A k \in Nat : base + k \in Nat
    BY <1>3
  <2> QED
    BY <1>4, <2>1, Zenon
<1>6. p \in {"down", "starting", "up"} /\ (p = "starting" <=> n = Lowest /\ node[n].fresh)
      /\ (p = "up" <=> ~(n = Lowest /\ node[n].fresh))
  BY DEF IsFresh
<1> HIDE DEF w, c, p, I
<1>7. /\ node'[n].store = w /\ node'[n].nextId = c /\ node'[n].applied = node[n].applied
      /\ node'[n].fresh = FALSE /\ node'[n].phase = p
      /\ \A m \in Nodes \ {n} : node'[m] = node[m]
  BY <1>1, <1>2 DEF TypeOK
<1>8. TypeOK'
  <2>1. node' \in [Nodes -> NodeType]
    <3>1. node \in [Nodes -> NodeType]
      BY <1>2, Zenon DEF TypeOK, NodeType
    <3>2. [node[n] EXCEPT !.phase = p, !.fresh = FALSE, !.store = w, !.nextId = c] \in NodeType
      BY <1>4, <1>5, <1>6, <3>1, Zenon DEF NodeType
    <3>3. node' = [node EXCEPT ![n] = [node[n] EXCEPT !.phase = p, !.fresh = FALSE,
                                                      !.store = w, !.nextId = c]]
      BY <1>1, <3>1, Zenon
    <3> QED
      BY <3>1, <3>2, <3>3, Zenon
  <2>2. restarted' \subseteq Nodes
    BY <1>1, <1>2 DEF TypeOK
  <2> QED
    BY <1>1, <1>2, <2>1, <2>2, Zenon DEF TypeOK, NodeType
<1>9. LogInv' /\ UseInv'
  <2>1. acked' = acked /\ handed \subseteq handed' /\ \A d \in handed' : d.at <= Len(log)
    BY <1>1, <1>2 DEF UseInv
  <2> QED
    BY <1>1, <1>2, <2>1, LogStays, UseStays, Zenon
<1>10. IsFiniteSet(restarted')
  <2>1. IsFiniteSet(restarted)
    BY Zenon DEF FlockInv
  <2>2. IsFiniteSet(restarted \cup {n})
    BY <2>1, FS_AddElement, Zenon
  <2> QED
    BY <1>1, <2>1, <2>2, Zenon
<1>11. ASSUME NEW m \in Nodes PROVE NodeInv(m)'
  <2>1. NodeInv(m)
    BY Zenon DEF FlockInv
  <2>2. CASE m = n
    <3>1. node[n].applied = 0 => w = EmptyStore
      <4> SUFFICES ASSUME node[n].applied = 0 PROVE w = EmptyStore
        OBVIOUS
      <4>1. s = EmptyStore
        BY <1>2, Zenon DEF NodeInv
      <4>2. s.msgs = {}
        <5>1. EmptyStore.msgs = {}
          BY Zenon DEF EmptyStore
        <5> QED
          BY <4>1, <5>1, Zenon
      <4>3. w.msgs = {}
        BY <1>4, <4>2, Zenon DEF Recovered
      <4> HIDE DEF s
      <4> QED
        BY <1>4, <4>1, <4>3, Zenon DEF Store, EmptyStore, SameMeta
    <3>2. PolicyOf(w, Q) = PolicyOf(s, Q) /\ w.queues = s.queues
      BY <1>4, Zenon DEF SameMeta, PolicyOf
    <3> QED
      BY <1>1, <1>2, <1>5, <1>7, <2>2, <3>1, <3>2, Zenon DEF NodeInv
  <2>3. CASE m # n
    <3>1. node'[m] = node[m]
      BY <1>7, <2>3, Zenon
    <3>2. node[m].fresh => m \notin restarted'
      BY <1>1, <2>1, <2>3 DEF NodeInv
    <3> QED
      BY <1>1, <2>1, <3>1, <3>2, Zenon DEF NodeInv
  <2> QED
    BY <2>2, <2>3, Zenon
<1>12. /\ since' <= Len(log') /\ ComesToLife'
       /\ (~node[Lowest].fresh => node[Lowest].phase = "starting" \/ initialized \/ stillborn)'
  <2>1. Lowest \in Nodes
    BY LowestIsNode
  <2>2. CASE Lowest = n
    BY <1>1, <1>6, <1>7, <2>2, Zenon DEF FlockInv, ComesToLife
  <2>3. CASE Lowest # n
    <3>1. node'[Lowest] = node[Lowest]
      BY <1>7, <2>1, <2>3, Zenon
    <3> QED
      BY <1>1, <3>1, Zenon DEF FlockInv, ComesToLife
  <2> QED
    BY <2>2, <2>3, Zenon
<1> QED
  BY <1>8, <1>9, <1>10, <1>11, <1>12, Zenon DEF FlockInv

\* A step that changes nothing but the phases of nodes, who leads and whether
\* the cluster is initialized.
OnlyPhases ==
  /\ log' = log /\ confirmed' = confirmed /\ handed' = handed /\ acked' = acked
  /\ restarted' = restarted
  /\ \A n \in Nodes :
       /\ node'[n].store = node[n].store /\ node'[n].nextId = node[n].nextId
       /\ node'[n].applied = node[n].applied /\ node'[n].clock = node[n].clock
       /\ node'[n].fresh = node[n].fresh
       /\ node[n].fresh => node'[n].phase = node[n].phase

\* Such a step keeps what the nodes have applied.
LEMMA PhasesKeep ==
  ASSUME FlockInv, OnlyPhases
  PROVE  LogInv' /\ UseInv' /\ IsFiniteSet(restarted') /\ \A n \in Nodes : NodeInv(n)'
<1>1. LogInv /\ UseInv /\ IsFiniteSet(restarted)
  BY Zenon DEF FlockInv
<1>2. /\ log' = log /\ acked' = acked /\ handed \subseteq handed' /\ restarted' = restarted
      /\ \A d \in handed' : d.at <= Len(log)
  BY <1>1, Zenon DEF OnlyPhases, UseInv
<1>3. ASSUME NEW n \in Nodes PROVE NodeInv(n)'
  <2>1. NodeInv(n)
    BY Zenon DEF FlockInv
  <2>2. /\ node'[n].store = node[n].store /\ node'[n].nextId = node[n].nextId
        /\ node'[n].applied = node[n].applied /\ node'[n].fresh = node[n].fresh
        /\ node[n].fresh => node'[n].phase = node[n].phase
    BY Zenon DEF OnlyPhases
  <2> QED
    BY <1>2, <2>1, <2>2, Zenon DEF NodeInv
<1> QED
  BY <1>1, <1>2, <1>3, LogStays, UseStays, Zenon

\* Initialize, Stop, Elect and stuttering are such steps.
LEMMA PhaseSteps ==
  ASSUME FlockInv, \/ \E n \in Nodes : Initialize(n) \/ Stop(n) \/ Elect(n)
                   \/ UNCHANGED vars
  PROVE  OnlyPhases /\ FlockInv'
<1>0. /\ TypeOK /\ ComesToLife /\ since <= Len(log) /\ node \in [Nodes -> NodeType]
      /\ (~node[Lowest].fresh => node[Lowest].phase = "starting" \/ initialized \/ stillborn)
  BY Zenon DEF FlockInv, TypeOK, NodeType
<1>1. Lowest \in Nodes
  BY LowestIsNode
<1>2. \A n \in Nodes : node[n].fresh => node[n].phase = "down"
  BY Zenon DEF FlockInv, NodeInv
<1>3. ASSUME NEW n \in Nodes, NEW p \in {"down", "starting", "up"}, ~node[n].fresh,
             node' = [node EXCEPT ![n].phase = p],
             log' = log, confirmed' = confirmed, handed' = handed, acked' = acked,
             restarted' = restarted
      PROVE  /\ OnlyPhases /\ node' \in [Nodes -> NodeType]
             /\ node'[n].phase = p /\ \A m \in Nodes \ {n} : node'[m] = node[m]
  <2>1. /\ node'[n] = [node[n] EXCEPT !.phase = p]
        /\ \A m \in Nodes \ {n} : node'[m] = node[m]
    BY <1>0, <1>3, Zenon
  <2>2. node[n] \in NodeType
    BY <1>0, Zenon
  <2>3. /\ node'[n].store = node[n].store /\ node'[n].nextId = node[n].nextId
        /\ node'[n].applied = node[n].applied /\ node'[n].clock = node[n].clock
        /\ node'[n].fresh = node[n].fresh /\ node'[n].phase = p
        /\ node'[n] \in NodeType
    BY <1>3, <2>1, <2>2 DEF NodeType
  <2>4. \A m \in Nodes :
          /\ node'[m].store = node[m].store /\ node'[m].nextId = node[m].nextId
          /\ node'[m].applied = node[m].applied /\ node'[m].clock = node[m].clock
          /\ node'[m].fresh = node[m].fresh
          /\ node[m].fresh => node'[m].phase = node[m].phase
    BY <1>3, <2>1, <2>3, Zenon
  <2>5. OnlyPhases
    BY <1>3, <2>4, Zenon DEF OnlyPhases
  <2>6. node' \in [Nodes -> NodeType]
    BY <1>0, <1>3, <2>1, <2>3, Zenon
  <2> QED
    BY <2>1, <2>3, <2>5, <2>6, Zenon
<1> DEFINE Rest == /\ leader' \in Nodes /\ since' \in 0..MaxLog /\ initialized' \in BOOLEAN
                   /\ faults' \in Nat /\ stillborn' \in BOOLEAN /\ since' <= Len(log)
                   /\ ComesToLife'
                   /\ (~node[Lowest].fresh =>
                         node[Lowest].phase = "starting" \/ initialized \/ stillborn)'
<1>4. ASSUME OnlyPhases, node' \in [Nodes -> NodeType], Rest PROVE FlockInv'
  <2>1. LogInv' /\ UseInv' /\ IsFiniteSet(restarted') /\ \A n \in Nodes : NodeInv(n)'
    BY <1>4, PhasesKeep, Zenon
  <2>2. TypeOK'
    BY <1>0, <1>4, Zenon DEF TypeOK, NodeType, OnlyPhases
  <2> QED
    BY <1>4, <2>1, <2>2, Zenon DEF FlockInv, OnlyPhases
<1>5. ASSUME NEW n \in Nodes, Initialize(n) PROVE OnlyPhases /\ FlockInv'
  <2>1. /\ node[n].phase = "starting" /\ node' = [node EXCEPT ![n].phase = "up"]
        /\ initialized' = TRUE /\ UNCHANGED <<log, leader, since>>
        /\ UNCHANGED <<confirmed, handed, acked, restarted, faults, stillborn>>
    BY <1>5, Zenon DEF Initialize, hist
  <2>2. ~node[n].fresh
    BY <1>2, <2>1, Zenon
  <2>3. OnlyPhases /\ node' \in [Nodes -> NodeType]
    BY <1>3, <2>1, <2>2, Zenon
  <2>4. Rest
    BY <1>0, <2>1, Zenon DEF TypeOK, ComesToLife
  <2> QED
    BY <1>4, <2>3, <2>4, Zenon
<1>6. ASSUME NEW n \in Nodes, Stop(n) PROVE OnlyPhases /\ FlockInv'
  <2>1. /\ node[n].phase # "down" /\ node' = [node EXCEPT ![n].phase = "down"]
        /\ faults' = faults + 1 /\ stillborn' = (stillborn \/ node[n].phase = "starting")
        /\ UNCHANGED <<log, leader, since, initialized>>
        /\ UNCHANGED <<confirmed, handed, acked, restarted>>
    BY <1>6, Zenon DEF Stop, cluster
  <2>2. ~node[n].fresh
    BY <1>2, <2>1
  <2>3. /\ OnlyPhases /\ node' \in [Nodes -> NodeType]
        /\ node'[n].phase = "down" /\ \A m \in Nodes \ {n} : node'[m] = node[m]
    BY <1>3, <2>1, <2>2, Zenon
  <2>4. faults' \in Nat
    BY <1>0, <2>1 DEF TypeOK
  <2>5. stillborn' \in BOOLEAN /\ (stillborn => stillborn')
        /\ (node[n].phase = "starting" => stillborn')
    BY <2>1, Zenon
  <2>6. node'[Lowest].fresh = node[Lowest].fresh
    BY <1>1, <2>3, Zenon DEF OnlyPhases
  <2>7. CASE Lowest = n
    <3>1. Rest
      BY <1>0, <2>1, <2>3, <2>4, <2>5, <2>6, <2>7, Zenon DEF TypeOK, ComesToLife
    <3> QED
      BY <1>4, <2>3, <3>1, Zenon
  <2>8. CASE Lowest # n
    <3>1. node'[Lowest] = node[Lowest]
      BY <1>1, <2>3, <2>8, Zenon
    <3>2. Rest
      BY <1>0, <2>1, <2>4, <2>5, <3>1, Zenon DEF TypeOK, ComesToLife
    <3> QED
      BY <1>4, <2>3, <3>2, Zenon
  <2> QED
    BY <2>7, <2>8, Zenon
<1>7. ASSUME NEW n \in Nodes, Elect(n) PROVE OnlyPhases /\ FlockInv'
  <2>1. /\ leader' = n /\ since' = Len(log) /\ faults' = faults + 1
        /\ UNCHANGED <<node, log, initialized, confirmed, handed, acked, restarted, stillborn>>
    BY <1>7, Zenon DEF Elect
  <2>2. OnlyPhases /\ node' \in [Nodes -> NodeType]
    BY <1>0, <2>1, Zenon DEF OnlyPhases
  <2>3. since' \in 0..MaxLog /\ since' <= Len(log)
    <3>1. Len(log) \in Nat /\ Len(log) <= MaxLog /\ MaxLog \in Nat
      BY NodeFacts, Zenon
    <3> QED
      BY <2>1, <3>1
  <2>4. faults' \in Nat
    BY <1>0, <2>1 DEF TypeOK
  <2>5. Rest
    BY <1>0, <2>1, <2>3, <2>4, Zenon DEF TypeOK, ComesToLife
  <2> QED
    BY <1>4, <2>2, <2>5, Zenon
<1>8. ASSUME UNCHANGED vars PROVE OnlyPhases /\ FlockInv'
  <2>1. /\ UNCHANGED <<node, log, leader, since, initialized>>
        /\ UNCHANGED <<confirmed, handed, acked, restarted, faults, stillborn>>
    BY <1>8, Zenon DEF vars, cluster, hist
  <2>2. OnlyPhases /\ node' \in [Nodes -> NodeType]
    BY <1>0, <2>1, Zenon DEF OnlyPhases
  <2>3. Rest
    BY <1>0, <2>1, Zenon DEF TypeOK, ComesToLife
  <2> QED
    BY <1>4, <2>2, <2>3, Zenon
<1> QED
  BY <1>5, <1>6, <1>7, <1>8, Zenon

\* Nothing has happened yet.
LEMMA InitialFlock == Init => FlockInv
<1> SUFFICES ASSUME Init PROVE FlockInv
  OBVIOUS
<1>0. Lowest \in Nodes /\ MaxLog \in Nat /\ MaxTime \in Nat /\ MaxUids \in Nat
  BY LowestIsNode, FlockAssumption, Zenon
<1>1. EmptyStore \in Store /\ EmptyStore.msgs = {} /\ EmptyStore.dedup = {}
  BY Zenon DEF EmptyStore, Store
<1>2. NewNode \in NodeType /\ NewNode.store = EmptyStore /\ NewNode.nextId = 0
      /\ NewNode.applied = 0 /\ NewNode.fresh = TRUE /\ NewNode.phase = "down"
  <2> HIDE DEF EmptyStore
  <2>1. /\ NewNode.store = EmptyStore /\ NewNode.nextId = 0
        /\ NewNode.applied = 0 /\ NewNode.fresh = TRUE /\ NewNode.phase = "down"
    BY Zenon DEF NewNode
  <2>2. 0 \in 0..MaxLog /\ 0 \in 0..MaxTime /\ 0 \in Nat
    BY <1>0
  <2>3. NewNode \in NodeType
    BY <1>1, <2>2, Zenon DEF NewNode, NodeType
  <2> QED
    BY <2>1, <2>3, Zenon
<1>3. /\ node \in [Nodes -> NodeType] /\ \A n \in Nodes : node[n] = NewNode
  BY <1>2 DEF Init
<1>4. Submitted = {} /\ Cardinality(Submitted) = 0 /\ Len(log) = 0 /\ log \in Seq(Operation)
  <2>1. log = <<>>
    BY Zenon DEF Init
  <2>2. Submitted = {}
    BY <2>1 DEF Submitted
  <2> QED
    BY <2>1, <2>2, FS_EmptySet
<1>5. LogInv
  BY <1>0, <1>4 DEF LogInv
<1>6. UseInv
  BY <1>4 DEF UseInv, Init
<1>7. TypeOK
  <2>1. /\ leader = Lowest /\ since = 0 /\ initialized = FALSE
        /\ confirmed = {} /\ handed = {} /\ acked = {} /\ restarted = {}
        /\ faults = 0 /\ stillborn = FALSE
    BY Zenon DEF Init
  <2>2. leader \in Nodes /\ since \in 0..MaxLog /\ faults \in Nat
    BY <1>0, <2>1
  <2>3. UNION {confirmed, acked} \subseteq Nat
    BY <2>1, Zenon
  <2>4. handed \subseteq [tag : Nat, uid : Nat, at : 1..MaxLog] /\ restarted \subseteq Nodes
    BY <2>1, Zenon
  <2>5. initialized \in BOOLEAN /\ stillborn \in BOOLEAN
    BY <2>1, Zenon
  <2> QED
    BY <1>3, <2>2, <2>3, <2>4, <2>5, Zenon DEF TypeOK, NodeType
<1>8. Sound(EmptyStore, 0)
  BY <1>1, FS_EmptySet DEF Sound
<1>9. ASSUME NEW n \in Nodes PROVE NodeInv(n)
  <2>1. node[n] = NewNode /\ restarted = {}
    BY <1>3, Zenon DEF Init
  <2>2. ~(0 > 0) /\ 0 <= Len(log)
    BY <1>4
  <2>3. n \notin restarted
    BY <2>1, Zenon
  <2> QED
    BY <1>2, <1>8, <2>1, <2>2, <2>3, Zenon DEF NodeInv
<1>10. /\ since <= Len(log) /\ IsFiniteSet(restarted) /\ ComesToLife
       /\ (~node[Lowest].fresh => node[Lowest].phase = "starting" \/ initialized \/ stillborn)
  BY <1>0, <1>2, <1>3, <1>4, FS_EmptySet DEF Init, ComesToLife
<1> QED
  BY <1>5, <1>6, <1>7, <1>9, <1>10, Zenon DEF FlockInv

\* Every step keeps the invariant.
LEMMA EveryStepKeeps == FlockInv /\ [Next]_vars => FlockInv'
<1> SUFFICES ASSUME FlockInv, [Next]_vars PROVE FlockInv'
  OBVIOUS
<1>1. CASE UNCHANGED vars
  BY <1>1, PhaseSteps, Zenon
<1>2. CASE Next
  <2>1. CASE Handler
    BY <2>1, HandlersFit, SubmitStep, Zenon
  <2>2. ASSUME NEW n \in Nodes, Apply(n) \/ Start(n) \/ Initialize(n) \/ Stop(n) \/ Elect(n)
        PROVE  FlockInv'
    BY <2>2, ApplyStep, StartStep, PhaseSteps, Zenon
  <2> QED
    BY <1>2, <2>1, <2>2, Zenon DEF Next, Handler
<1> QED
  BY <1>1, <1>2, Zenon

\* The invariant holds in every reachable state.
THEOREM FlockAlways == Spec => []FlockInv
BY InitialFlock, EveryStepKeeps, PTL DEF Spec

\* The state of a Flock is well formed, whatever nodes stop, start and lead.
THEOREM FlockTypes == Spec => []TypeOK
<1>1. FlockInv => TypeOK
  BY Zenon DEF FlockInv
<1> QED
  BY <1>1, FlockAlways, PTL

\* Once the first node is up (main, after start_node) the cluster has been
\* initialized, unless the first start of this node was cut short.
THEOREM ClusterComesToLife == Spec => []ComesToLife
<1>1. FlockInv => ComesToLife
  BY Zenon DEF FlockInv
<1> QED
  BY <1>1, FlockAlways, PTL
==============================================================================
