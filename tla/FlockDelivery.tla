---------------------------- MODULE FlockDelivery ----------------------------
(*****************************************************************************)
(* Without restarts and nacks a message is delivered once: the log also      *)
(* decides how far the consumption has got at each index.                    *)
(*****************************************************************************)
EXTENDS FlockReplication

Quiet == restarted = {} /\ WindowsOpen /\ \A i \in DOMAIN log : log[i].type # "nack"

\* A consume at i, with the ids below m delivered before, delivers those below this.
NextMark(L, m, i) ==
  IF L[i].type # "consume" THEN m
  ELSE IF Base(L, i - 1) <= m + L[i].max THEN Base(L, i - 1) ELSE m + L[i].max

\* The entries up to i deliver the ids below c[i].
Marks(L, c) ==
  /\ c \in [0..Len(L) -> Nat] /\ c[0] = 0
  /\ \A i \in 1..Len(L) : c[i] = NextMark(L, c[i - 1], i)
  /\ \A i, j \in 0..Len(L) : i <= j => c[i] <= c[j]
  /\ \A i \in 0..Len(L) : c[i] <= Base(L, i)

\* The ids from lo up to hi wait in s.
Waiting(s, lo, hi) == Ids(In(s, "main", Q)) = lo..(hi - 1)

Between(c, d) == c[d.at - 1] <= d.tag /\ d.tag < c[d.at]

Plan(c) ==
  /\ Marks(log, c)
  /\ \A n \in Nodes : Waiting(node[n].store, c[node[n].applied], Base(log, node[n].applied))
  /\ \A d \in handed : Between(c, d)

OnceInv == Quiet => \E c : Plan(c)

\* The members of a finite set of numbers are numbered from 0 on.
LEMMA Enumerated ==
  ASSUME NEW S \in SUBSET Int, IsFiniteSet(S)
  PROVE  {Cardinality(Below(S, k)) : k \in S} = 0..(Cardinality(S) - 1)
<1> DEFINE F == [k \in S |-> Cardinality(Below(S, k))]
           I == {Cardinality(Below(S, k)) : k \in S}
           N == 0..(Cardinality(S) - 1)
<1>1. /\ Cardinality(S) \in Nat
      /\ \A k \in S : /\ Cardinality(Below(S, k)) \in Nat
                      /\ Cardinality(Below(S, k)) < Cardinality(S)
      /\ \A k, l \in S : k < l => Cardinality(Below(S, k)) < Cardinality(Below(S, l))
  BY Counting, Zenon
<1>2. \A k, l \in S : Cardinality(Below(S, k)) = Cardinality(Below(S, l)) => k = l
  BY <1>1
<1>3. F \in Bijection(S, I)
  BY <1>2 DEF Bijection, Injection, Surjection, IsInjective
<1>4. ExistsBijection(S, I)
  BY <1>3, Zenon DEF ExistsBijection
<1>5. Cardinality(I) = Cardinality(S)
  BY <1>4, FS_Bijection, Zenon
<1>6. IsFiniteSet(N) /\ Cardinality(N) = Cardinality(S)
  <2> DEFINE z == Cardinality(S)
  <2> HIDE DEF z
  <2>1. z \in Nat /\ z - 1 \in Int
    BY <1>1 DEF z
  <2>2. IsFiniteSet(0..(z - 1)) /\ Cardinality(0..(z - 1)) = IF 0 > z - 1 THEN 0 ELSE (z - 1) - 0 + 1
    BY <2>1, FS_Interval
  <2>3. Cardinality(0..(z - 1)) = z
    BY <2>1, <2>2
  <2> QED
    BY <2>2, <2>3 DEF z
<1>7. I \in SUBSET N
  BY <1>1
<1> HIDE DEF I, N
<1>8. I = N
  BY <1>5, <1>6, <1>7, FS_Subset
<1> QED
  BY <1>8 DEF I, N

\* In an interval the number below a member is its distance from the start.
LEMMA BelowInterval ==
  ASSUME NEW lo \in Int, NEW hi \in Int, NEW x \in lo..(hi - 1)
  PROVE  Cardinality(Below(lo..(hi - 1), x)) = x - lo
<1>1. Below(lo..(hi - 1), x) = lo..(x - 1)
  BY DEF Below
<1>2. Cardinality(lo..(x - 1)) = x - lo
  <2>1. Cardinality(lo..(x - 1)) = IF lo > x - 1 THEN 0 ELSE (x - 1) - lo + 1
    BY FS_Interval
  <2> QED
    BY <2>1
<1> QED
  BY <1>1, <1>2

\* A consume of up to max takes the first ids of those that wait.
LEMMA ConsumeWaits ==
  ASSUME NEW s \in Store, NEW b \in Nat, Sound(s, b), NEW max \in Nat,
         NEW lo \in Nat, NEW hi \in Nat, lo <= hi, Waiting(s, lo, hi),
         NEW r, ConsumeResult(r, s, b, max),
         NEW m, m = IF hi <= lo + max THEN hi ELSE lo + max
  PROVE  /\ Waiting(r.store, m, hi)
         /\ \A o \in r.out : lo <= o.tag /\ o.tag < m
<1> DEFINE E == In(s, "main", Q)
<1>1. /\ E \in SUBSET EntryType /\ IsFiniteSet(E) /\ \A e \in E : e.hi = 9 /\ e.id \in Nat
      /\ \A e, f \in E : e.id = f.id => e = f
  <2>1. E \in SUBSET s.msgs /\ \A e \in E : e.tree = "main"
    BY DEF In
  <2>2. s.msgs \subseteq EntryType /\ IsFiniteSet(s.msgs)
    BY DEF Store, Sound
  <2>3. IsFiniteSet(E)
    BY <2>1, <2>2, FS_Subset
  <2>4. \A e \in E : e.hi = 9
    BY <2>1, Zenon DEF Sound
  <2>5. \A e, f \in E : e.id = f.id => e = f
    BY <2>1, Zenon DEF Sound
  <2>6. \A e \in E : e.id \in Nat
    BY <2>1, <2>2 DEF EntryType
  <2> QED
    BY <2>1, <2>2, <2>3, <2>4, <2>5, <2>6, Zenon
<1>2. Ids(E) = lo..(hi - 1)
  BY Zenon DEF Waiting
<1> HIDE DEF E
<1>3. \A e \in E : Rank(e, E) = Cardinality(Below(Ids(E), e.id))
  BY <1>1, RankById
<1>4. ASSUME NEW e \in E PROVE Rank(e, E) = e.id - lo /\ e.id \in lo..(hi - 1)
  <2>1. e.id \in lo..(hi - 1)
    BY <1>2 DEF Ids
  <2>2. Cardinality(Below(lo..(hi - 1), e.id)) = e.id - lo
    BY <2>1, BelowInterval
  <2> QED
    BY <1>2, <1>3, <2>1, <2>2, Zenon
<1>5. FirstOf(s, max) = {e \in E : Rank(e, E) < max}
  BY Zenon DEF FirstOf, E
<1>6. \A e \in E : e \in FirstOf(s, max) <=> e.id < m
  BY <1>1, <1>4, <1>5
<1>7. In(r.store, "main", Q) = E \ FirstOf(s, max)
  BY Zenon DEF ConsumeResult, E
<1>8. Ids(In(r.store, "main", Q)) = m..(hi - 1)
  <2>1. ASSUME NEW x \in m..(hi - 1) PROVE x \in Ids(E \ FirstOf(s, max))
    <3>1. x \in lo..(hi - 1) /\ ~(x < m)
      OBVIOUS
    <3>2. PICK e \in E : e.id = x
      BY <1>2, <3>1, Zenon DEF Ids
    <3> QED
      BY <1>6, <3>1, <3>2, Zenon DEF Ids
  <2>2. ASSUME NEW x \in Ids(E \ FirstOf(s, max)) PROVE x \in m..(hi - 1)
    <3>1. PICK e \in E \ FirstOf(s, max) : e.id = x
      BY <2>2, Zenon DEF Ids
    <3>2. ~(x < m) /\ x \in lo..(hi - 1)
      BY <1>4, <1>6, <3>1, Zenon
    <3> QED
      BY <3>2
  <2> QED
    BY <1>7, <2>1, <2>2, Zenon
<1>9. ASSUME NEW o \in r.out PROVE lo <= o.tag /\ o.tag < m
  <2>1. PICK e \in FirstOf(s, max) : o = [tag |-> e.id, uid |-> e.msg.uid]
    BY Zenon DEF ConsumeResult
  <2>2. e \in E /\ e.id < m /\ o.tag = e.id
    BY <1>5, <1>6, <2>1
  <2> QED
    BY <1>4, <2>2
<1> QED
  BY <1>8, <1>9, Zenon DEF Waiting

\* A publish adds the next ids.
LEMMA PublishWaits ==
  ASSUME NEW s \in Store, NEW b \in Nat, Sound(s, b), NEW M \in Seq(Plain),
         NEW S \in SUBSET (DOMAIN M),
         NEW lo \in Nat, lo <= b, Waiting(s, lo, b),
         NEW r, NEW t, PublishResult(r, s, b, M, S, t)
  PROVE  Waiting(r.store, lo, b + Cardinality(S))
<1> DEFINE A == AddedSet(M, S, b)
           z == Cardinality(S)
<1>1. /\ IsFiniteSet(S) /\ z \in Nat /\ \A f \in A : Regular(f)
      /\ Numbered(M, S, b)
  BY AddedEntries, Zenon
<1>2. S \in SUBSET Int
  OBVIOUS
<1>3. {Cardinality(Below(S, k)) : k \in S} = 0..(z - 1)
  BY <1>1, <1>2, Enumerated, Zenon
<1>4. \A f \in A : f.tree = "main" /\ f.queue = Q
  BY DEF AddedSet, Added, Entry
<1>5. r.store.msgs = s.msgs \cup A
  BY Zenon DEF PublishResult
<1>6. In(r.store, "main", Q) = In(s, "main", Q) \cup A
  <2> HIDE DEF A
  <2> QED
    BY <1>4, <1>5, Zenon DEF In
<1>7. Ids(A) = {b + Cardinality(Below(S, k)) : k \in S}
  <2>1. Ids(A) = {Added(M, S, b, k).id : k \in S}
    BY Zenon DEF Ids, AddedSet
  <2>2. \A k \in S : Added(M, S, b, k).id = b + Cardinality(Below(S, k))
    BY <1>1, Zenon DEF Numbered
  <2> QED
    BY <2>1, <2>2, Zenon
<1>8. Ids(A) = b..((b + z) - 1)
  <2> DEFINE C(k) == Cardinality(Below(S, k))
  <2>1. \A k \in S : C(k) \in 0..(z - 1)
    BY <1>3, Zenon
  <2>2. \A x \in 0..(z - 1) : \E k \in S : x = C(k)
    BY <1>3, Zenon
  <2>3. Ids(A) = {b + C(k) : k \in S}
    BY <1>7, Zenon
  <2> HIDE DEF C, A, z
  <2>4. ASSUME NEW y \in b..((b + z) - 1) PROVE \E k \in S : y = b + C(k)
    <3>1. y - b \in 0..(z - 1)
      BY <1>1
    <3>2. PICK k \in S : y - b = C(k)
      BY <2>2, <3>1, Zenon
    <3>3. y = b + C(k)
      BY <1>1, <2>1, <3>2
    <3> QED
      BY <3>3, Zenon
  <2>5. \A k \in S : b + C(k) \in b..((b + z) - 1)
    BY <1>1, <2>1
  <2> QED
    BY <2>3, <2>4, <2>5, Zenon
<1>9. Ids(In(r.store, "main", Q)) = Ids(In(s, "main", Q)) \cup Ids(A)
  <2> HIDE DEF A
  <2> QED
    BY <1>6, Zenon DEF Ids
<1>10. (lo..(b - 1)) \cup (b..((b + z) - 1)) = lo..((b + z) - 1)
  <2> HIDE DEF z
  <2> QED
    BY <1>1
<1>11. Ids(In(s, "main", Q)) = lo..(b - 1)
  BY Zenon DEF Waiting
<1> QED
  BY <1>8, <1>9, <1>10, <1>11, Zenon DEF Waiting

\* An ack takes nothing from what waits.
LEMMA AckWaits ==
  ASSUME NEW s, NEW b, NEW t, NEW r, AckResult(r, s, b, t)
  PROVE  r.out = {} /\ In(r.store, "main", Q) = In(s, "main", Q)
<1>1. /\ r.store.msgs \subseteq s.msgs /\ r.out = {}
      /\ \A e \in s.msgs \ r.store.msgs : e.tree = "inflight"
  BY Zenon DEF AckResult
<1> QED
  BY <1>1 DEF In

\* The marks are numbers, and those of an index and its predecessor.
LEMMA MarkFacts ==
  ASSUME FlockInv, NEW c, Marks(log, c), NEW i \in 1..Len(log)
  PROVE  /\ c[i - 1] \in Nat /\ c[i] \in Nat /\ Base(log, i - 1) \in Nat /\ Base(log, i) \in Nat
         /\ c[i - 1] <= Base(log, i - 1)
         /\ c[i] = NextMark(log, c[i - 1], i)
         /\ Base(log, i) = Base(log, i - 1) + Cardinality(Slots(log, i))
<1>1. /\ i \in Nat \ {0} /\ i <= MaxLog /\ Slots(log, i) \in SUBSET (0..MaxUids)
  BY SlotsInRange, Zenon
<1>2. MaxLog \in Nat
  BY FlockAssumption
<1>3. i - 1 \in Nat /\ i - 1 <= MaxLog /\ i \in Nat /\ i - 1 \in 0..Len(log) /\ i \in 0..Len(log)
  BY <1>1, <1>2
<1>4. Base(log, i - 1) \in Nat /\ Base(log, i) \in Nat
  BY <1>1, <1>3, BaseBound, Zenon
<1>5. Base(log, i) = Base(log, i - 1) + Cardinality(Slots(log, i))
  BY <1>1, BaseStep, Zenon
<1>6. c[i - 1] \in Nat /\ c[i] \in Nat
  BY <1>3 DEF Marks
<1> QED
  BY <1>3, <1>4, <1>5, <1>6, Zenon DEF Marks

\* A node that applies the entry at i: what waits goes on from mark to mark.
LEMMA ApplyWaits ==
  ASSUME FlockInv, NEW n \in Nodes, node[n].applied < Len(log), NEW now \in Nat, Open(now),
         n \notin restarted, Agrees(n, node[n].store, node[n].nextId, node[n].applied),
         log[node[n].applied + 1].type # "nack",
         NEW c, Marks(log, c),
         Waiting(node[n].store, c[node[n].applied], Base(log, node[n].applied))
  PROVE  LET i == node[n].applied + 1
             r == ApplyOperation(n, log[i], now)
         IN  /\ Waiting(r.store, c[i], Base(log, i))
             /\ \A o \in r.out : c[i - 1] <= o.tag /\ o.tag < c[i]
<1> DEFINE i == node[n].applied + 1
           s == node[n].store
           b == node[n].nextId
           r == ApplyOperation(n, log[i], now)
<1>1. /\ s \in Store /\ b \in Nat /\ Sound(s, b) /\ node[n].applied \in Nat
  BY NodeFacts, Zenon
<1>2. /\ i \in 1..Len(log) /\ log[i] \in Operation
      /\ log[i].type = "declare" <=> i = 1
      /\ i # 1 => s.queues = {Q} /\ PolicyOf(s, Q) = log[1].policy
      /\ Outcome(r, log[i], s, b, now)
  BY ApplyOutcome, Zenon
<1>3. i - 1 = node[n].applied /\ (i # 1 => i > 1)
  BY <1>1
<1>4. /\ b = Base(log, i - 1) /\ KeysKnown(s, i - 1) /\ Waiting(s, c[i - 1], Base(log, i - 1))
      /\ log[i].type # "nack"
  BY <1>3, Zenon DEF Agrees
<1> HIDE DEF i, s, r, b
<1> DEFINE lo == c[i - 1]
           hi == Base(log, i - 1)
<1>5. /\ lo \in Nat /\ c[i] \in Nat /\ hi \in Nat /\ Base(log, i) \in Nat /\ lo <= hi
      /\ c[i] = NextMark(log, lo, i)
      /\ Base(log, i) = hi + Cardinality(Slots(log, i))
  BY <1>2, MarkFacts, Zenon
<1>6. Waiting(s, lo, hi) /\ b = hi
  BY <1>4, Zenon
<1> HIDE DEF lo, hi
<1>7. /\ log[i].type # "consume" => c[i] = lo
      /\ log[i].type = "consume" => c[i] = IF hi <= lo + log[i].max THEN hi ELSE lo + log[i].max
      /\ log[i].type \notin {"publish", "nack"} => Base(log, i) = hi
  <2>1. log[i].type \notin {"publish", "nack"} => Slots(log, i) = {}
    BY DEF Slots, Publishes
  <2>2. log[i].type \notin {"publish", "nack"} => Base(log, i) = hi
    <3>1. Slots(log, i) = {} => Cardinality(Slots(log, i)) = 0
      BY FS_EmptySet, Zenon
    <3> QED
      BY <1>5, <2>1, <3>1
  <2> QED
    BY <1>5, <2>2, Zenon DEF NextMark, hi
<1> SUFFICES Waiting(r.store, c[i], Base(log, i)) /\ \A o \in r.out : lo <= o.tag /\ o.tag < c[i]
  BY Zenon DEF i, r, lo
<1>8. CASE log[i].type = "declare"
  <2>1. DeclareResult(r, b, log[i].policy) /\ s = EmptyStore
    BY <1>2, <1>8, Zenon DEF Outcome
  <2>2. r.store.msgs = {} /\ s.msgs = {} /\ r.out = {}
    BY <2>1 DEF DeclareResult, EmptyStore
  <2>3. In(r.store, "main", Q) = In(s, "main", Q)
    BY <2>2, Zenon DEF In
  <2>4. c[i] = lo /\ Base(log, i) = hi
    BY <1>7, <1>8
  <2> QED
    BY <1>6, <2>2, <2>3, <2>4, Zenon DEF Waiting
<1>9. CASE log[i].type = "publish"
  <2>1. /\ log[i].msgs \in Seq(Plain)
        /\ PublishResult(r, s, b, log[i].msgs, Stored(s, Q, log[i].msgs, now), now)
        /\ Publishes(log, i)
    BY <1>2, <1>9, Zenon DEF Outcome, Publishes
  <2>2. PolicyOf(s, Q) = log[1].policy
    BY <1>2, <1>9
  <2>3. Stored(s, Q, log[i].msgs, now) = Chosen(log, i)
    BY <1>1, <1>2, <1>4, <2>1, <2>2, StoredIsChosen, Zenon
  <2> DEFINE M == log[i].msgs
             S == Chosen(log, i)
  <2>4. Slots(log, i) = S /\ S \in SUBSET (DOMAIN M)
    BY <1>2, <2>1, SlotsInRange, Zenon
  <2>5. PublishResult(r, s, b, M, S, now)
    BY <2>1, <2>3, Zenon
  <2>6. M \in Seq(Plain)
    BY <2>1, Zenon
  <2>7. lo <= b /\ Waiting(s, lo, b)
    BY <1>5, <1>6, Zenon
  <2> HIDE DEF M, S
  <2>8. Waiting(r.store, lo, b + Cardinality(S))
    BY <1>1, <1>5, <2>4, <2>5, <2>6, <2>7, PublishWaits, Zenon
  <2>9. r.out = {}
    BY <2>5, Zenon DEF PublishResult
  <2>10. c[i] = lo /\ Base(log, i) = b + Cardinality(S)
    BY <1>5, <1>6, <1>7, <1>9, <2>4
  <2> QED
    BY <2>8, <2>9, <2>10, Zenon
<1>10. CASE log[i].type = "consume"
  <2> DEFINE max == log[i].max
             m == c[i]
  <2>1. max \in Nat /\ ConsumeResult(r, s, b, max)
    BY <1>2, <1>10, Zenon DEF Outcome
  <2>2. m = IF hi <= lo + max THEN hi ELSE lo + max
    BY <1>7, <1>10, Zenon
  <2>3. Base(log, i) = hi
    BY <1>7, <1>10
  <2> HIDE DEF max, m
  <2>4. Waiting(r.store, m, hi) /\ \A o \in r.out : lo <= o.tag /\ o.tag < m
    BY <1>1, <1>5, <1>6, <2>1, <2>2, ConsumeWaits, Zenon
  <2> QED
    BY <2>3, <2>4, Zenon DEF m
<1>11. CASE log[i].type = "ack"
  <2>1. AckResult(r, s, b, log[i].tag)
    BY <1>2, <1>11, Zenon DEF Outcome
  <2>2. r.out = {} /\ In(r.store, "main", Q) = In(s, "main", Q)
    BY <2>1, AckWaits
  <2>3. c[i] = lo /\ Base(log, i) = hi
    BY <1>7, <1>11
  <2> QED
    BY <1>6, <2>2, <2>3, Zenon DEF Waiting
<1> QED
  BY <1>2, <1>4, <1>8, <1>9, <1>10, <1>11 DEF Outcome

\* If no node was restarted, one at most was.
LEMMA QuietIsSteady == Quiet => Steady
BY FS_EmptySet DEF Quiet, Steady

\* Quiet steps lead from quiet states.
LEMMA QuietBefore ==
  ASSUME FlockInv, FlockInv', Quiet', restarted \subseteq restarted', log' = log,
         \A m \in Nodes : node[m].clock <= node'[m].clock
  PROVE  Quiet /\ Steady /\ \A m \in Nodes : Open(node'[m].clock)
<1>1. Steady'
  <2>1. restarted' = {} /\ WindowsOpen'
    BY Zenon DEF Quiet
  <2>2. Cardinality(restarted') = 0
    BY <2>1, FS_EmptySet, Zenon
  <2> QED
    BY <2>1, <2>2 DEF Steady
<1>2. Steady /\ \A m \in Nodes : Open(node'[m].clock)
  BY <1>1, SteadyBefore, Zenon
<1>3. restarted = {} /\ \A i \in DOMAIN log : log[i].type # "nack"
  BY Zenon DEF Quiet
<1> QED
  BY <1>2, <1>3, Zenon DEF Quiet, Steady

\* Applying an entry keeps to the plan.
LEMMA OnceApply ==
  ASSUME FlockInv, FlockInv', SteadyInv, OnceInv, NEW n \in Nodes, Apply(n)
  PROVE  OnceInv'
<1> SUFFICES ASSUME Quiet' PROVE \E c : Plan(c)'
  BY Zenon DEF OnceInv
<1>1. PICK now \in Nat :
         LET i == node[n].applied + 1
             r == ApplyOperation(n, log[i], now)
         IN  /\ node[n].applied < Len(log) /\ now <= MaxTime /\ node[n].clock <= now
             /\ node' = [node EXCEPT ![n].store = r.store, ![n].nextId = r.nextId,
                                     ![n].applied = i, ![n].clock = now]
             /\ confirmed' = confirmed \/ confirmed' = confirmed \cup r.stored
             /\ \/ handed' = handed
                \/ handed' = handed \cup {[tag |-> d.tag, uid |-> d.uid, at |-> i] : d \in r.out}
             /\ UNCHANGED <<log, leader, since, initialized>>
             /\ UNCHANGED <<acked, restarted, faults, stillborn>>
  BY ApplyChanges, Zenon
<1> DEFINE i == node[n].applied + 1
           r == ApplyOperation(n, log[i], now)
           H == {[tag |-> d.tag, uid |-> d.uid, at |-> i] : d \in r.out}
<1>2. /\ node[n].applied < Len(log) /\ node[n].clock <= now
      /\ node' = [node EXCEPT ![n].store = r.store, ![n].nextId = r.nextId,
                              ![n].applied = i, ![n].clock = now]
      /\ handed' = handed \/ handed' = handed \cup H
      /\ log' = log /\ restarted' = restarted
  BY <1>1, Zenon
<1>3. i \in 1..Len(log)
  BY <1>2, ApplyFacts, Zenon
<1> HIDE DEF i, r
<1>4. /\ node'[n].store = r.store /\ node'[n].applied = i
      /\ node'[n].clock = now /\ \A m \in Nodes \ {n} : node'[m] = node[m]
  <2>1. node \in [Nodes -> NodeType]
    BY Zenon DEF FlockInv, TypeOK, NodeType
  <2> QED
    BY <1>2, <2>1 DEF NodeType
<1>5. \A m \in Nodes : node[m].clock <= node'[m].clock
  <2>1. \A m \in Nodes : node[m].clock \in 0..MaxTime /\ MaxTime \in Nat
    BY NodeFacts
  <2>2. ASSUME NEW m \in Nodes PROVE node[m].clock <= node'[m].clock
    <3>1. CASE m = n
      BY <1>2, <1>4, <3>1, Zenon
    <3>2. CASE m # n
      <4>1. node'[m] = node[m]
        BY <1>4, <3>2
      <4> QED
        BY <2>1, <4>1
    <3> QED
      BY <3>1, <3>2, Zenon
  <2> QED
    BY <2>2
<1>6. Quiet /\ Steady /\ Open(now)
  <2>1. restarted \subseteq restarted'
    BY <1>2, Zenon
  <2> QED
    BY <1>2, <1>4, <1>5, <2>1, QuietBefore, Zenon
<1>7. /\ Agrees(n, node[n].store, node[n].nextId, node[n].applied)
      /\ n \notin restarted /\ log[i].type # "nack"
  <2>1. i \in DOMAIN log
    <3>1. log \in Seq(Operation)
      BY NodeFacts, Zenon
    <3> QED
      BY <1>3, <3>1
  <2> QED
    BY <1>6, <2>1, Zenon DEF SteadyInv, Quiet
<1>8. PICK c : Plan(c)
  BY <1>6, Zenon DEF OnceInv
<1>9. /\ Waiting(r.store, c[i], Base(log, i))
      /\ \A o \in r.out : c[i - 1] <= o.tag /\ o.tag < c[i]
  <2>1. Marks(log, c) /\ Waiting(node[n].store, c[node[n].applied], Base(log, node[n].applied))
    BY <1>8, Zenon DEF Plan
  <2> QED
    BY <1>2, <1>6, <1>7, <2>1, ApplyWaits, Zenon DEF i, r
<1>10. ASSUME NEW m \in Nodes
       PROVE  Waiting(node'[m].store, c[node'[m].applied], Base(log, node'[m].applied))
  <2>1. CASE m = n
    BY <1>4, <1>9, <2>1, Zenon
  <2>2. CASE m # n
    <3>1. node'[m] = node[m]
      BY <1>4, <2>2
    <3> QED
      BY <1>8, <3>1, Zenon DEF Plan
  <2> QED
    BY <2>1, <2>2, Zenon
<1>11. ASSUME NEW d \in handed' PROVE Between(c, d)
  <2>1. CASE d \in handed
    BY <1>8, <2>1, Zenon DEF Plan
  <2>2. CASE d \in H
    <3>1. PICK o \in r.out : d = [tag |-> o.tag, uid |-> o.uid, at |-> i]
      BY <2>2, Zenon
    <3>2. d.tag = o.tag /\ d.at = i
      BY <3>1
    <3> QED
      BY <1>9, <3>2, Zenon DEF Between
  <2> HIDE DEF H
  <2> QED
    BY <1>2, <2>1, <2>2, Zenon
<1>12. Plan(c)'
  <2>1. Marks(log', c)
    BY <1>2, <1>8, Zenon DEF Plan
  <2> QED
    BY <1>2, <1>10, <1>11, <2>1, Zenon DEF Plan
<1> QED
  BY <1>12, Zenon

\* So do steps that change phases only, and first starts.
LEMMA OnceSame ==
  ASSUME FlockInv, FlockInv', OnceInv, log' = log, handed' = handed, restarted \subseteq restarted',
         \A m \in Nodes : /\ node'[m].applied = node[m].applied /\ node'[m].clock = node[m].clock
                          /\ restarted' = {} => In(node'[m].store, "main", Q)
                                                  = In(node[m].store, "main", Q)
  PROVE  OnceInv'
<1> SUFFICES ASSUME Quiet' PROVE \E c : Plan(c)'
  BY Zenon DEF OnceInv
<1>1. \A m \in Nodes : node[m].clock <= node'[m].clock
  <2>1. \A m \in Nodes : node[m].clock \in 0..MaxTime /\ MaxTime \in Nat
    BY NodeFacts
  <2> QED
    BY <2>1
<1>2. Quiet /\ restarted' = {}
  <2>1. Quiet
    BY <1>1, QuietBefore, Zenon
  <2> QED
    BY <2>1, Zenon DEF Quiet
<1>3. PICK c : Plan(c)
  BY <1>2, Zenon DEF OnceInv
<1>4. ASSUME NEW m \in Nodes
      PROVE  Waiting(node'[m].store, c[node'[m].applied], Base(log, node'[m].applied))
  <2>1. Waiting(node[m].store, c[node[m].applied], Base(log, node[m].applied))
    BY <1>3, Zenon DEF Plan
  <2>2. /\ node'[m].applied = node[m].applied
        /\ In(node'[m].store, "main", Q) = In(node[m].store, "main", Q)
    BY <1>2, Zenon
  <2> QED
    BY <2>1, <2>2, Zenon DEF Waiting
<1>5. Marks(log, c) /\ \A d \in handed : Between(c, d)
  BY <1>3, Zenon DEF Plan
<1>6. Plan(c)'
  BY <1>4, <1>5, Zenon DEF Plan
<1> QED
  BY <1>6, Zenon

\* A start of a node keeps to the plan: if it is not the first one, it ends it.
LEMMA OnceStart ==
  ASSUME FlockInv, FlockInv', OnceInv, NEW n \in Nodes, Start(n)
  PROVE  OnceInv'
<1>1. PICK w \in Store, base \in Nat, c \in Nat : Started(n, w, base, c)
  BY StartFacts, Zenon
<1>2. /\ node'[n].store = w /\ node'[n].applied = node[n].applied
      /\ node'[n].clock = node[n].clock
      /\ \A m \in Nodes \ {n} : node'[m] = node[m]
      /\ restarted' = IF node[n].fresh THEN restarted ELSE restarted \cup {n}
      /\ log' = log /\ handed' = handed /\ Recovered(w, node[n].store, base)
  BY <1>1, Zenon DEF Started
<1>3. restarted \subseteq restarted'
  BY <1>2
<1>4. ASSUME restarted' = {} PROVE In(w, "main", Q) = In(node[n].store, "main", Q)
  <2>1. node[n].fresh /\ NodeInv(n)
    BY <1>2, <1>4, Zenon DEF FlockInv
  <2>2. node[n].store.msgs = {}
    BY <2>1 DEF NodeInv, EmptyStore
  <2>3. w.msgs = {}
    BY <1>2, <2>2, Zenon DEF Recovered
  <2> QED
    BY <2>2, <2>3, Zenon DEF In
<1>5. ASSUME NEW m \in Nodes
      PROVE  /\ node'[m].applied = node[m].applied /\ node'[m].clock = node[m].clock
             /\ restarted' = {} => In(node'[m].store, "main", Q) = In(node[m].store, "main", Q)
  <2>1. CASE m = n
    BY <1>2, <1>4, <2>1, Zenon
  <2>2. CASE m # n
    <3>1. node'[m] = node[m]
      BY <1>2, <2>2
    <3> QED
      BY <3>1, Zenon
  <2> QED
    BY <2>1, <2>2, Zenon
<1> QED
  BY <1>2, <1>3, <1>5, OnceSame, Zenon

\* Later entries take later ids.
LEMMA BaseGrows ==
  ASSUME NEW L, NEW i \in Nat, i + 1 <= MaxLog
  PROVE  Base(L, i) \in Nat /\ Base(L, i + 1) \in Nat /\ Base(L, i) <= Base(L, i + 1)
<1>1. MaxLog \in Nat /\ i <= MaxLog /\ i + 1 \in Nat
  BY FlockAssumption
<1>2. /\ IsFiniteSet(SlotsTo(L, i + 1)) /\ Base(L, i) \in Nat /\ Base(L, i + 1) \in Nat
  BY <1>1, BaseBound, Zenon
<1>3. SlotsTo(L, i) \in SUBSET SlotsTo(L, i + 1)
  <2>1. 1..i \subseteq 1..(i + 1)
    OBVIOUS
  <2> QED
    BY <2>1 DEF SlotsTo
<1>4. Cardinality(SlotsTo(L, i)) <= Cardinality(SlotsTo(L, i + 1))
  BY <1>2, <1>3, FS_Subset
<1> QED
  BY <1>2, <1>4, Zenon DEF Base

\* K has one entry more than L.
Longer(L, K) ==
  /\ Len(L) \in Nat /\ Len(K) = Len(L) + 1 /\ Len(L) + 1 <= MaxLog
  /\ \A i \in 1..Len(L) : K[i] = L[i]
  /\ K[Len(L) + 1].type = "consume" => K[Len(L) + 1].max \in Nat

\* The marks c of L go on in K.
Continued(L, K, c) == \E d : Marks(K, d) /\ \A i \in 0..Len(L) : d[i] = c[i]

\* A new entry adds a mark, and leaves those before.
LEMMA MarksGrow ==
  ASSUME NEW L, NEW K, Longer(L, K), NEW c, Marks(L, c)
  PROVE  Continued(L, K, c)
<1>0. /\ Len(L) \in Nat /\ Len(K) = Len(L) + 1 /\ Len(L) + 1 <= MaxLog
      /\ \A i \in 1..Len(L) : K[i] = L[i]
      /\ K[Len(L) + 1].type = "consume" => K[Len(L) + 1].max \in Nat
  BY Zenon DEF Longer
<1> DEFINE N == Len(L)
           x == NextMark(K, c[N], N + 1)
           d == [i \in 0..(N + 1) |-> IF i <= N THEN c[i] ELSE x]
<1>1. N \in Nat /\ N + 1 <= MaxLog /\ Len(K) = N + 1 /\ N \in 0..N
  BY <1>0
<1>2. /\ c \in [0..N -> Nat] /\ c[0] = 0
      /\ \A i \in 1..N : c[i] = NextMark(L, c[i - 1], i)
      /\ \A i, j \in 0..N : i <= j => c[i] <= c[j]
      /\ \A i \in 0..N : c[i] <= Base(L, i)
  BY DEF Marks
<1>3. \A i \in 0..N : Base(K, i) = Base(L, i)
  <2>1. SaysSame(K, L)
    BY <1>0, Prefix, Zenon
  <2> QED
    BY <2>1, Zenon DEF SaysSame
<1>4. /\ Base(K, N) \in Nat /\ Base(K, N + 1) \in Nat /\ Base(K, N) <= Base(K, N + 1)
  BY <1>1, BaseGrows, Zenon
<1>5. x \in Nat /\ c[N] <= x /\ x <= Base(K, N + 1)
  <2> DEFINE m == c[N]
             b == Base(K, N)
             max == K[N + 1].max
  <2>1. m \in Nat /\ m <= b
    BY <1>1, <1>2, <1>3
  <2>2. x = IF K[N + 1].type # "consume" THEN m ELSE IF b <= m + max THEN b ELSE m + max
    <3>1. (N + 1) - 1 = N
      BY <1>1
    <3> QED
      BY <3>1, Zenon DEF NextMark
  <2>3. K[N + 1].type = "consume" => max \in Nat
    BY <1>0, Zenon
  <2> HIDE DEF m, b, max, x, N
  <2>4. x \in Nat /\ m <= x /\ x <= b
    BY <1>4, <2>1, <2>2, <2>3 DEF b
  <2> QED
    BY <1>4, <2>4 DEF m, b
<1> HIDE DEF N, x
<1>6. /\ d \in [0..(N + 1) -> Nat] /\ d[N + 1] = x /\ \A i \in 0..N : d[i] = c[i]
  BY <1>1, <1>2, <1>5
<1> HIDE DEF d
<1>7. \A i \in 0..(N + 1) : i \in 0..N \/ i = N + 1
  BY <1>1
<1>8. d[0] = 0
  BY <1>1, <1>2, <1>6
<1>9. ASSUME NEW i \in 1..(N + 1) PROVE d[i] = NextMark(K, d[i - 1], i)
  <2>1. i - 1 \in 0..N
    BY <1>1
  <2>2. CASE i \in 1..N
    <3>1. K[i] = L[i] /\ i \in 0..N
      BY <1>0, <2>2 DEF N
    <3>2. d[i] = NextMark(L, d[i - 1], i)
      BY <1>2, <1>6, <2>1, <2>2, <3>1, Zenon
    <3> QED
      BY <1>3, <2>1, <3>1, <3>2, Zenon DEF NextMark
  <2>3. CASE i = N + 1
    <3>1. i - 1 = N
      BY <1>1, <2>3
    <3> QED
      BY <1>1, <1>6, <2>3, <3>1, Zenon DEF x
  <2> QED
    BY <1>1, <2>2, <2>3
<1>10. ASSUME NEW i \in 0..(N + 1), NEW j \in 0..(N + 1), i <= j PROVE d[i] <= d[j]
  <2>1. CASE j \in 0..N
    <3>1. i \in 0..N
      BY <1>1, <1>10, <2>1
    <3> QED
      BY <1>2, <1>6, <1>10, <2>1, <3>1, Zenon
  <2>2. CASE j = N + 1 /\ i \in 0..N
    <3>1. c[i] <= c[N] /\ c[i] \in Nat /\ c[N] \in Nat
      BY <1>1, <1>2, <2>2
    <3>2. c[i] <= x
      BY <1>5, <3>1
    <3> QED
      BY <1>6, <2>2, <3>2, Zenon
  <2>3. CASE j = N + 1 /\ i = N + 1
    <3>1. x <= x
      BY <1>5
    <3> QED
      BY <1>6, <2>3, <3>1, Zenon
  <2> QED
    BY <1>7, <2>1, <2>2, <2>3, Zenon
<1>11. \A i \in 0..(N + 1) : d[i] <= Base(K, i)
  BY <1>2, <1>3, <1>5, <1>6, <1>7, Zenon
<1>12. Marks(K, d)
  BY <1>1, <1>6, <1>8, <1>9, <1>10, <1>11, Zenon DEF Marks
<1>13. Marks(K, d) /\ \A i \in 0..Len(L) : d[i] = c[i]
  BY <1>6, <1>12, Zenon DEF N
<1> QED
  BY <1>13, Zenon DEF Continued

\* A new entry of the log extends the plan.
LEMMA OnceSubmit ==
  ASSUME FlockInv, FlockInv', OnceInv, NEW op \in Operation, log' = Append(log, op),
         node' = node, handed' = handed, restarted' = restarted
  PROVE  OnceInv'
<1> SUFFICES ASSUME Quiet' PROVE \E c : Plan(c)'
  BY Zenon DEF OnceInv
<1>1. /\ Len(log') = Len(log) + 1 /\ Len(log) \in Nat /\ log'[Len(log) + 1] = op
      /\ \A i \in 1..Len(log) : log'[i] = log[i]
      /\ log' \in Seq(Operation)
  BY Appended, Zenon DEF FlockInv
<1>2. Len(log) + 1 <= MaxLog
  BY <1>1, Zenon DEF FlockInv, LogInv
<1>3. Quiet
  <2>1. log \in Seq(Operation)
    BY Zenon DEF FlockInv, LogInv
  <2>2. \A i \in DOMAIN log : i \in DOMAIN log' /\ i \in 1..Len(log)
    BY <1>1, <2>1
  <2>3. \A i \in DOMAIN log : log[i].type # "nack"
    BY <1>1, <2>2, Zenon DEF Quiet
  <2> QED
    BY <2>3, Zenon DEF Quiet, WindowsOpen
<1>4. PICK c : Plan(c)
  BY <1>3, Zenon DEF OnceInv
<1>5. Continued(log, log', c)
  <2>1. log'[Len(log) + 1].type = "consume" => log'[Len(log) + 1].max \in Nat
    BY <1>1, OperationFields, Zenon
  <2>2. Marks(log, c)
    BY <1>4, Zenon DEF Plan
  <2> QED
    <3>1. Longer(log, log')
      BY <1>1, <1>2, <2>1, Zenon DEF Longer
    <3> QED
      BY <2>2, <3>1, MarksGrow, Zenon
<1>6. PICK d : Marks(log', d) /\ \A i \in 0..Len(log) : d[i] = c[i]
  BY <1>5, Zenon DEF Continued
<1>7. \A i \in 0..Len(log) : Base(log', i) = Base(log, i)
  <2>1. SaysSame(log', log)
    BY <1>1, Prefix, Zenon
  <2> QED
    BY <2>1, Zenon DEF SaysSame
<1>8. ASSUME NEW m \in Nodes
      PROVE  Waiting(node[m].store, d[node[m].applied], Base(log', node[m].applied))
  <2>1. node[m].applied \in 0..Len(log)
    <3>1. node[m].applied \in Nat /\ node[m].applied <= Len(log)
      BY NodeFacts, Zenon
    <3> QED
      BY <1>1, <3>1
  <2> QED
    BY <1>4, <1>6, <1>7, <2>1, Zenon DEF Plan
<1>9. ASSUME NEW e \in handed PROVE Between(d, e)
  <2>1. e.at \in 1..MaxLog /\ e.at <= Len(log)
    <3>1. TypeOK /\ UseInv
      BY Zenon DEF FlockInv
    <3> QED
      BY <3>1 DEF TypeOK, UseInv
  <2>2. e.at \in 0..Len(log) /\ e.at - 1 \in 0..Len(log)
    BY <1>1, <2>1, FlockAssumption
  <2> QED
    BY <1>4, <1>6, <2>2, Zenon DEF Plan, Between
<1>10. Plan(d)'
  BY <1>6, <1>8, <1>9, Zenon DEF Plan
<1> QED
  BY <1>10, Zenon

\* At first nothing waits.
LEMMA InitialOnce == Init => OnceInv
<1> SUFFICES ASSUME Init PROVE \E c : Plan(c)
  BY Zenon DEF OnceInv
<1> DEFINE c == [i \in 0..0 |-> 0]
<1>1. /\ handed = {} /\ log = <<>> /\ Len(log) = 0
      /\ \A n \in Nodes : node[n].store = EmptyStore /\ node[n].applied = 0
  BY DEF Init, NewNode
<1>2. Base(log, 0) = 0
  <2>1. SlotsTo(log, 0) = {}
    BY DEF SlotsTo
  <2> QED
    BY <2>1, FS_EmptySet, Zenon DEF Base
<1>3. c \in [0..0 -> Nat] /\ c[0] = 0
  OBVIOUS
<1> HIDE DEF c
<1>4. Marks(log, c)
  <2>1. \A i \in 0..0 : i = 0
    OBVIOUS
  <2>2. 1..0 = {} /\ 0 <= 0
    OBVIOUS
  <2>3. \A i \in 1..Len(log) : c[i] = NextMark(log, c[i - 1], i)
    BY <1>1, <2>2, Zenon
  <2>4. \A i, j \in 0..Len(log) : i <= j => c[i] <= c[j]
    BY <1>1, <1>3, <2>1, <2>2, Zenon
  <2>5. \A i \in 0..Len(log) : c[i] <= Base(log, i)
    BY <1>1, <1>2, <1>3, <2>1, <2>2, Zenon
  <2> QED
    BY <1>1, <1>3, <2>3, <2>4, <2>5, Zenon DEF Marks
<1>5. Waiting(EmptyStore, 0, 0)
  <2>1. In(EmptyStore, "main", Q) = {}
    BY DEF In, EmptyStore
  <2>2. 0..(0 - 1) = {}
    OBVIOUS
  <2> QED
    BY <2>1, <2>2, Zenon DEF Waiting, Ids
<1>6. Plan(c)
  BY <1>1, <1>2, <1>3, <1>4, <1>5, Zenon DEF Plan
<1> QED
  BY <1>6, Zenon

\* Every step keeps to the plan.
LEMMA OnceStep == FlockInv /\ FlockInv' /\ SteadyInv /\ OnceInv /\ [Next]_vars => OnceInv'
<1> SUFFICES ASSUME FlockInv, FlockInv', SteadyInv, OnceInv, [Next]_vars PROVE OnceInv'
  OBVIOUS
<1>1. ASSUME OnlyPhases PROVE OnceInv'
  <2>1. /\ log' = log /\ handed' = handed /\ restarted \subseteq restarted'
        /\ \A m \in Nodes : /\ node'[m].applied = node[m].applied
                            /\ node'[m].clock = node[m].clock
                            /\ node'[m].store = node[m].store
    BY <1>1, Zenon DEF OnlyPhases
  <2> QED
    BY <2>1, OnceSame, Zenon
<1>2. CASE UNCHANGED vars
  BY <1>1, <1>2, PhaseSteps, Zenon
<1>3. CASE Handler
  <2>1. PICK op : Submits(op)
    BY <1>3, HandlersFit, Zenon
  <2>2. /\ op \in Operation /\ log' = Append(log, op) /\ node' = node
        /\ handed' = handed /\ restarted' = restarted
    BY <2>1, Zenon DEF Submits, Fitting
  <2> QED
    BY <2>2, OnceSubmit, Zenon
<1>4. ASSUME NEW n \in Nodes, Apply(n) PROVE OnceInv'
  BY <1>4, OnceApply, Zenon
<1>5. ASSUME NEW n \in Nodes, Start(n) PROVE OnceInv'
  BY <1>5, OnceStart, Zenon
<1>6. ASSUME NEW n \in Nodes, Initialize(n) \/ Stop(n) \/ Elect(n) PROVE OnceInv'
  BY <1>1, <1>6, PhaseSteps, Zenon
<1> QED
  BY <1>2, <1>3, <1>4, <1>5, <1>6, Zenon DEF Next, Handler

\* In quiet states a message has one id.
LEMMA OneIdEach ==
  ASSUME FlockInv, Quiet, NEW id, NEW ie, NEW u, Named(id, u), Named(ie, u)
  PROVE  id = ie
<1>1. ASSUME NEW x, Named(x, u)
      PROVE  \E i \in 1..Len(log) :
               /\ Publishes(log, i)
               /\ \E k \in Chosen(log, i) : IdAt(log, i, k) = x /\ log[i].msgs[k].uid = u
  <2>1. ~NamedByNack(log, handed, x, u)
    <3>1. DOMAIN log = 1..Len(log)
      <4>1. log \in Seq(Operation)
        BY Zenon DEF FlockInv, LogInv
      <4> QED
        BY <4>1
    <3> QED
      BY <3>1, Zenon DEF NamedByNack, Quiet
  <2> QED
    BY <1>1, <2>1, Zenon DEF Named, NamedByPublish
<1>2. PICK i \in 1..Len(log) :
        /\ Publishes(log, i)
        /\ \E k \in Chosen(log, i) : IdAt(log, i, k) = id /\ log[i].msgs[k].uid = u
  BY <1>1, Zenon
<1>3. PICK k \in Chosen(log, i) : IdAt(log, i, k) = id /\ log[i].msgs[k].uid = u
  BY <1>2, Zenon
<1>4. PICK j \in 1..Len(log) :
        /\ Publishes(log, j)
        /\ \E l \in Chosen(log, j) : IdAt(log, j, l) = ie /\ log[j].msgs[l].uid = u
  BY <1>1, Zenon
<1>5. PICK l \in Chosen(log, j) : IdAt(log, j, l) = ie /\ log[j].msgs[l].uid = u
  BY <1>4, Zenon
<1>6. k \in DOMAIN log[i].msgs /\ l \in DOMAIN log[j].msgs
  BY <1>2, <1>4, SlotsInRange, Zenon
<1>7. i = j /\ k = l
  <2>1. \A a, b \in 1..Len(log) : Publishes(log, a) /\ Publishes(log, b) =>
          \A f \in DOMAIN log[a].msgs, g \in DOMAIN log[b].msgs :
            log[a].msgs[f].uid = log[b].msgs[g].uid => a = b /\ f = g
    BY Zenon DEF FlockInv, LogInv
  <2>2. log[i].msgs[k].uid = log[j].msgs[l].uid
    BY <1>3, <1>5, Zenon
  <2>3. Publishes(log, i) /\ Publishes(log, j)
    BY <1>2, <1>4, Zenon
  <2> QED
    BY <1>6, <2>1, <2>2, <2>3, Zenon
<1> QED
  BY <1>3, <1>5, <1>7, Zenon

\* What is delivered according to the plan is delivered once.
LEMMA PlannedIsOnce ==
  ASSUME FlockInv, SteadyInv, OnceInv
  PROVE  DeliveredOnce
<1> SUFFICES ASSUME Quiet, NEW d \in handed, NEW e \in handed, d.uid = e.uid PROVE d = e
  BY Zenon DEF DeliveredOnce, Quiet
<1>1. PICK c : Plan(c)
  BY Zenon DEF OnceInv
<1>2. /\ d \in [tag : Nat, uid : Nat, at : 1..MaxLog] /\ e \in [tag : Nat, uid : Nat, at : 1..MaxLog]
      /\ d.at <= Len(log) /\ e.at <= Len(log)
  <2>1. TypeOK /\ UseInv
    BY Zenon DEF FlockInv
  <2> QED
    BY <2>1 DEF TypeOK, UseInv
<1>3. d.tag = e.tag
  <2>1. \A x \in handed : Named(x.tag, x.uid)
    <3>1. TagsAgree
      BY QuietIsSteady, Zenon DEF SteadyInv
    <3> QED
      BY <3>1, Zenon DEF TagsAgree, Quiet
  <2>2. Named(d.tag, d.uid) /\ Named(e.tag, d.uid)
    BY <2>1, Zenon
  <2> QED
    BY <2>2, OneIdEach, Zenon
<1>4. /\ Between(c, d) /\ Between(c, e) /\ c \in [0..Len(log) -> Nat] /\ Len(log) \in Nat
      /\ \A i, j \in 0..Len(log) : i <= j => c[i] <= c[j]
  BY <1>1, NodeFacts, LowestIsNode, Zenon DEF Plan, Marks
<1>5. ASSUME NEW x \in 1..MaxLog, NEW y \in 1..MaxLog, x <= Len(log), y <= Len(log), x < y
      PROVE  c[x] <= c[y - 1] /\ c[x] \in Nat /\ c[y - 1] \in Nat
  <2>1. x \in 0..Len(log) /\ y - 1 \in 0..Len(log) /\ x <= y - 1
    BY <1>4, <1>5, FlockAssumption
  <2> QED
    BY <1>4, <2>1
<1>6. d.at \in 1..MaxLog /\ e.at \in 1..MaxLog /\ d.tag \in Nat
  BY <1>2
<1>7. ~(d.at < e.at)
  <2> SUFFICES ASSUME d.at < e.at PROVE FALSE
    OBVIOUS
  <2>1. c[d.at] <= c[e.at - 1] /\ c[d.at] \in Nat /\ c[e.at - 1] \in Nat
    BY <1>2, <1>5, <1>6, Zenon
  <2>2. d.tag < c[d.at] /\ c[e.at - 1] <= d.tag
    BY <1>3, <1>4, Zenon DEF Between
  <2> QED
    BY <1>6, <2>1, <2>2
<1>8. ~(e.at < d.at)
  <2> SUFFICES ASSUME e.at < d.at PROVE FALSE
    OBVIOUS
  <2>1. c[e.at] <= c[d.at - 1] /\ c[e.at] \in Nat /\ c[d.at - 1] \in Nat
    BY <1>2, <1>5, <1>6, Zenon
  <2>2. d.tag < c[e.at] /\ c[d.at - 1] <= d.tag
    BY <1>3, <1>4, Zenon DEF Between
  <2> QED
    BY <1>6, <2>1, <2>2
<1>9. d.at = e.at
  BY <1>6, <1>7, <1>8, FlockAssumption
<1> QED
  BY <1>2, <1>3, <1>9

\* Without restarts, nacks and passed dedup windows a message is delivered once,
\* by one entry of the log, however often the leader changes between a consume
\* and its reply.
THEOREM OneDelivery == Spec => []DeliveredOnce
<1>1. FlockInv /\ SteadyInv /\ OnceInv => DeliveredOnce
  BY PlannedIsOnce
<1>2. Spec => []OnceInv
  BY FlockAlways, ReplicasAgree, InitialOnce, OnceStep, PTL DEF Spec
<1> QED
  BY <1>1, <1>2, FlockAlways, ReplicasAgree, PTL
==============================================================================
