--------------------------- MODULE RaftStoreProofs ---------------------------
(***************************************************************************)
(* Proofs about the storage of one Flock node: what append_to_log, the     *)
(* votes, purge_logs_upto and the snapshots promise holds across crashes   *)
(* after any write of any handler, for every length of the log and every   *)
(* number of terms, votes, crashes and installed snapshots.                *)
(***************************************************************************)
EXTENDS RaftStore, FiniteSetTheorems, SequenceTheorems, TLAPS

-----------------------------------------------------------------------------
(* Finite sets of keys and their order *)

\* The places of the keys of K in ascending order are 0, 1, ... up to its size,
\* each taken once.
LEMMA Places ==
  ASSUME NEW K \in SUBSET Int, IsFiniteSet(K)
  PROVE  /\ Cardinality(K) \in Nat
         /\ \A k \in K : Before(K, k) \in 0..(Cardinality(K) - 1)
         /\ \A j, k \in K : j < k => Before(K, j) < Before(K, k)
         /\ \A i \in 0..(Cardinality(K) - 1) : \E k \in K : Before(K, k) = i
<1> DEFINE n == Cardinality(K)
           Below(k) == {j \in K : j < k}
           F == [k \in K |-> Before(K, k)]
<1>1. n \in Nat
  BY FS_CardinalityType
<1>2. \A k \in K : IsFiniteSet(Below(k)) /\ Cardinality(Below(k)) \in Nat
  BY FS_Subset, FS_CardinalityType
<1>3. ASSUME NEW k \in K, NEW T \in SUBSET K, Below(k) \subseteq T, k \in T
      PROVE  Cardinality(Below(k)) < Cardinality(T)
  <2>1. IsFiniteSet(T) /\ Cardinality(T) \in Nat
    BY FS_Subset, FS_CardinalityType
  <2>2. IsFiniteSet(T \ {k}) /\ Cardinality(T \ {k}) = Cardinality(T) - 1
    BY <1>3, <2>1, FS_RemoveElement, SMTT(40)
  <2>3. Below(k) \in SUBSET (T \ {k})
    BY <1>3
  <2>4. Cardinality(Below(k)) <= Cardinality(T \ {k})
    BY <2>2, <2>3, FS_Subset
  <2> HIDE DEF Below
  <2> QED
    BY <1>2, <2>1, <2>2, <2>4
<1>4. \A k \in K : Cardinality(Below(k)) < n
  BY <1>3
<1>5. ASSUME NEW j \in K, NEW k \in K, j < k
      PROVE  Cardinality(Below(j)) < Cardinality(Below(k))
  <2>1. \A i \in K : i < j => i < k
    BY <1>5
  <2>2. Below(j) \subseteq Below(k) /\ j \in Below(k)
    BY <1>5, <2>1
  <2> QED
    BY <2>2, <1>3
<1>6. \A k \in K : Before(K, k) = Cardinality(Below(k))
  BY DEF Before
<1> HIDE DEF Below, n
<1>7. \A k \in K : Before(K, k) \in 0..(n - 1)
  BY <1>1, <1>2, <1>4, <1>6
<1>8. \A j, k \in K : j < k => Before(K, j) < Before(K, k)
  BY <1>5, <1>6
<1>9. F \in Injection(K, 0..(n - 1))
  <2>1. F \in [K -> 0..(n - 1)]
    BY <1>7
  <2>2. \A j, k \in K : F[j] = F[k] => j = k
    BY <1>1, <1>7, <1>8
  <2> HIDE DEF F
  <2> QED
    BY <2>1, <2>2 DEF Injection, IsInjective
<1>10. IsFiniteSet(0..(n - 1)) /\ Cardinality(0..(n - 1)) = n
  <2>1. n - 1 \in Int /\ 0 \in Int
    BY <1>1
  <2> QED
    BY <1>1, <2>1, FS_Interval
<1>11. F \in Surjection(K, 0..(n - 1))
  BY <1>9, <1>10, FS_Injection DEF n
<1>12. \A i \in 0..(n - 1) : \E k \in K : F[k] = i
  BY <1>11 DEF Surjection
<1> QED
  BY <1>1, <1>7, <1>8, <1>12 DEF n

\* A finite set of keys has a last one.
LEMMA LastKey ==
  ASSUME NEW K \in SUBSET Int, IsFiniteSet(K), K # {}
  PROVE  \E k \in K : \A j \in K : j <= k
<1> DEFINE n == Cardinality(K)
<1>1. /\ n \in Nat
      /\ \A k \in K : Before(K, k) \in 0..(n - 1)
      /\ \A j, k \in K : j < k => Before(K, j) < Before(K, k)
      /\ \A i \in 0..(n - 1) : \E k \in K : Before(K, k) = i
  BY Places
<1>2. n # 0
  BY FS_EmptySet
<1> HIDE DEF n
<1>3. n - 1 \in 0..(n - 1)
  BY <1>1, <1>2
<1>4. PICK k \in K : Before(K, k) = n - 1
  BY <1>1, <1>3
<1>5. ASSUME NEW j \in K PROVE j <= k
  BY <1>1, <1>4
<1> QED
  BY <1>5

\* The keys of K in ascending order: a sequence that grows, of keys of K.
LEMMA AscendingFacts ==
  ASSUME NEW K \in SUBSET Int, IsFiniteSet(K)
  PROVE  /\ Ascending(K) \in Seq(K)
         /\ \A i, j \in DOMAIN Ascending(K) : i < j => Ascending(K)[i] <= Ascending(K)[j]
<1> DEFINE n == Cardinality(K)
           a == Ascending(K)
<1>1. /\ n \in Nat
      /\ \A k \in K : Before(K, k) \in 0..(n - 1)
      /\ \A j, k \in K : j < k => Before(K, j) < Before(K, k)
      /\ \A i \in 0..(n - 1) : \E k \in K : Before(K, k) = i
  BY Places
<1>2. a = [i \in 1..n |-> CHOOSE k \in K : Before(K, k) = i - 1]
  BY DEF Ascending
<1> HIDE DEF n, a
<1>3. ASSUME NEW i \in 1..n PROVE a[i] \in K /\ Before(K, a[i]) = i - 1
  <2>1. i - 1 \in 0..(n - 1)
    BY <1>1
  <2>2. \E k \in K : Before(K, k) = i - 1
    BY <1>1, <2>1
  <2>3. a[i] = CHOOSE k \in K : Before(K, k) = i - 1
    BY <1>2
  <2> QED
    BY <2>2, <2>3, Zenon
<1>4. DOMAIN a = 1..n
  BY <1>2
<1>5. a \in [1..n -> K]
  BY <1>2, <1>3, <1>4
<1>6. a \in Seq(K)
  BY <1>1, <1>5
<1>7. ASSUME NEW i \in 1..n, NEW j \in 1..n, i < j PROVE a[i] <= a[j]
  <2>1. a[i] \in Int /\ a[j] \in Int
    BY <1>3
  <2>2. ~(Before(K, a[j]) < Before(K, a[i]))
    BY <1>1, <1>3, <1>7
  <2>3. ~(a[j] < a[i])
    BY <1>1, <1>3, <2>2
  <2> QED
    BY <2>1, <2>3
<1> QED
  BY <1>4, <1>6, <1>7 DEF a

\* A loop of removes takes only keys of its range, and all of them in the end.
LEMMA FirstKeysFacts ==
  ASSUME NEW K \in SUBSET Int, IsFiniteSet(K), NEW n \in Nat
  PROVE  /\ FirstKeys(K, n) \subseteq K
         /\ Cardinality(K) <= n => FirstKeys(K, n) = K
<1>1. Cardinality(K) \in Nat /\ \A k \in K : Before(K, k) \in 0..(Cardinality(K) - 1)
  BY Places
<1>2. Cardinality(K) <= n => \A k \in K : Before(K, k) < n
  BY <1>1
<1> QED
  BY <1>2 DEF FirstKeys

\* A part of an interval is a finite set of integers.
LEMMA PartOfInterval ==
  ASSUME NEW a \in Int, NEW b \in Int, NEW K \in SUBSET (a..b)
  PROVE  K \in SUBSET Int /\ IsFiniteSet(K)
<1>1. IsFiniteSet(a..b)
  BY FS_Interval
<1>2. IsFiniteSet(K)
  BY <1>1, FS_Subset
<1>3. K \in SUBSET Int
  OBVIOUS
<1> QED
  BY <1>2, <1>3

\* The operations of a log from a to b are executed in log order.
LEMMA OperationsFacts ==
  ASSUME NEW log, NEW a \in Int, NEW b \in Int
  PROVE  /\ Operations(log, a, b) \in Seq(a..b)
         /\ \A i, j \in DOMAIN Operations(log, a, b) :
              i < j => Operations(log, a, b)[i] <= Operations(log, a, b)[j]
<1> DEFINE N == {i \in a..b : log[i].kind = "normal"}
<1>1. N \in SUBSET (a..b)
  OBVIOUS
<1>2. Operations(log, a, b) = Ascending(N)
  BY DEF Operations
<1> HIDE DEF N
<1>3. N \in SUBSET Int /\ IsFiniteSet(N)
  BY <1>1, PartOfInterval
<1>4. /\ Ascending(N) \in Seq(N)
      /\ \A i, j \in DOMAIN Ascending(N) : i < j => Ascending(N)[i] <= Ascending(N)[j]
  BY <1>3, AscendingFacts
<1>5. Ascending(N) \in Seq(a..b)
  BY <1>1, <1>4, SeqMonotonic
<1> QED
  BY <1>2, <1>4, <1>5

\* The last membership is m or the index of an entry between a and b.
LEMMA LastMembershipFacts ==
  ASSUME NEW log, NEW a \in Int, NEW b \in Int, NEW m
  PROVE  LastMembership(log, a, b, m) \in (a..b) \cup {m}
<1> DEFINE M == {i \in a..b : log[i].kind = "membership"}
<1>1. M \in SUBSET (a..b)
  OBVIOUS
<1>2. LastMembership(log, a, b, m) =
        IF M = {} THEN m ELSE CHOOSE i \in M : \A j \in M : j <= i
  BY DEF LastMembership
<1> HIDE DEF M
<1>3. M # {} => \E i \in M : \A j \in M : j <= i
  BY <1>1, PartOfInterval, LastKey
<1>4. CASE M = {}
  BY <1>2, <1>4
<1>5. CASE M # {}
  <2>1. (CHOOSE i \in M : \A j \in M : j <= i) \in M
    BY <1>3, <1>5, Zenon
  <2> QED
    BY <1>1, <1>2, <1>5, <2>1
<1> QED
  BY <1>4, <1>5

-----------------------------------------------------------------------------
(* The invariant *)

\* What a raft database contains.
Logs == UNION {[D -> LogEntry] : D \in SUBSET (1..MaxIndex)}

RaftType ==
  [log : Logs, vote : Votes \cup {0}, last_applied : 0..MaxIndex,
   last_purged : 0..MaxIndex, last_membership : 0..MaxIndex, snapshot_idx : {0, 1}]

\* Only what was applied is purged, and a purge that is recorded is complete.
Sound(r) ==
  /\ r \in RaftType
  /\ r.last_purged <= r.last_applied
  /\ \A k \in DOMAIN r.log : r.last_purged < k

\* The entries of A are in the log or applied.
Kept(r, A) ==
  \A a \in A : \/ a.index <= r.last_applied
               \/ a.index \in DOMAIN r.log /\ r.log[a.index] = a.entry

\* Between the last applied entry and an entry of the log none is missing.
NoGap(r) ==
  \A k \in DOMAIN r.log : \A j \in (r.last_applied + 1)..k : j \in DOMAIN r.log

\* The operations were executed in log order, none beyond the entry after the
\* last one that is recorded as applied.
Ordered(r, q) ==
  /\ \A i, j \in DOMAIN q : i < j => q[i] <= q[j]
  /\ \A i \in DOMAIN q : q[i] <= r.last_applied + 1

\* The databases s are in order, where A are the entries appended so far, t the
\* handlers a crash has cut short and n the number of installed snapshots.
Fine(s, A, t, n) ==
  /\ Sound(s.raft)
  /\ s.queue \in Seq(1..MaxIndex) /\ qsynced <= Len(s.queue)
  /\ Kept(s.raft, A)
  /\ "delete_conflict" \notin t => NoGap(s.raft)
  /\ n = 0 /\ "install" \notin t => Ordered(s.raft, s.queue)
  /\ raft.vote <= s.raft.vote

AllFine(steps, A, t, n) == \A i \in DOMAIN steps : Fine(steps[i], A, t, n)

\* Snapshot c reaches from what was purged to what was applied.  When the log
\* has lost the last applied entry to a purge that was not recorded, or never
\* had it because a snapshot was installed, the snapshot is as recent as the
\* state machine: a purge that makes up for it does not outrun the snapshot.
Bridged(r, c) ==
  /\ c.last \in 0..MaxIndex
  /\ r.last_purged <= c.last /\ c.last <= r.last_applied
  /\ \/ r.last_applied \in DOMAIN r.log
     \/ r.last_applied = r.last_purged
     \/ r.last_applied = c.last

\* The variables that the handlers' writes do not touch.
OthersOK ==
  /\ clog \in Seq(LogEntry)
  /\ appended \subseteq [index : 1..MaxIndex, entry : LogEntry]
  /\ installs \in Nat

RaftInv ==
  /\ raftdisk = {raft}
  /\ qsynced \in Nat
  /\ Fine(At(raft, queue), appended, torn, installs)
  /\ current_snapshot # None => Bridged(raft, current_snapshot)
  /\ OthersOK

-----------------------------------------------------------------------------
(* Facts about a raft database *)

\* The bounds are numbers.
LEMMA Bounds ==
  MaxIndex \in Nat /\ MaxIndex \in Int /\ 1 \in Int /\ Votes \cup {0} \subseteq Nat
<1>1. MaxIndex \in Nat /\ Votes \subseteq Nat
  BY RaftStoreAssumption, Zenon
<1>2. 0 \in Nat /\ 1 \in Int /\ MaxIndex \in Int
  BY <1>1
<1> QED
  BY <1>1, <1>2, Zenon

\* A snapshot that bridges a store is not ahead of it.
LEMMA BridgedBelow ==
  ASSUME NEW r, NEW c, Bridged(r, c)
  PROVE  c.last \in Int /\ c.last <= r.last_applied
BY Bounds DEF Bridged

\* The keys of a log are a finite set of indexes.
LEMMA LogFacts ==
  ASSUME NEW r, Sound(r)
  PROVE  /\ DOMAIN r.log \in SUBSET (1..MaxIndex)
         /\ DOMAIN r.log \in SUBSET Int /\ IsFiniteSet(DOMAIN r.log)
         /\ \A k \in DOMAIN r.log : r.log[k] \in LogEntry
         /\ r.log \in Logs
<1>1. r.log \in Logs
  BY DEF Sound, RaftType
<1>2. PICK D \in SUBSET (1..MaxIndex) : r.log \in [D -> LogEntry]
  BY <1>1, Zenon DEF Logs
<1>3. DOMAIN r.log \in SUBSET (1..MaxIndex) /\ \A k \in DOMAIN r.log : r.log[k] \in LogEntry
  BY <1>2
<1>4. DOMAIN r.log \in SUBSET Int /\ IsFiniteSet(DOMAIN r.log)
  BY <1>3, PartOfInterval, Bounds
<1> QED
  BY <1>1, <1>3, <1>4

\* The fields of a raft database are of their types.
LEMMA RaftFacts ==
  ASSUME NEW r, Sound(r)
  PROVE  /\ r.last_applied \in 0..MaxIndex /\ r.last_purged \in 0..MaxIndex
         /\ r.last_membership \in 0..MaxIndex /\ r.snapshot_idx \in {0, 1}
         /\ r.vote \in Votes \cup {0} /\ r.vote \in Nat
         /\ r.last_applied \in Int /\ r.last_purged \in Int
         /\ r.last_purged <= r.last_applied /\ MaxIndex \in Nat
<1>1. /\ r.last_applied \in 0..MaxIndex /\ r.last_purged \in 0..MaxIndex
      /\ r.last_membership \in 0..MaxIndex /\ r.snapshot_idx \in {0, 1}
      /\ r.vote \in Votes \cup {0} /\ r.last_purged <= r.last_applied
  BY SMTT(40) DEF Sound, RaftType
<1>2. r.vote \in Nat
  BY <1>1, Bounds, Zenon
<1>3. r.last_applied \in Int /\ r.last_purged \in Int
  BY <1>1, Bounds
<1> QED
  BY <1>1, <1>2, <1>3, Bounds

\* get_log_state returns the last index of the log, or what was purged last.
LEMMA LastLogIdFacts ==
  ASSUME NEW r, Sound(r)
  PROVE  /\ LastLogId(r) \in 0..MaxIndex
         /\ \A k \in DOMAIN r.log : k <= LastLogId(r)
         /\ r.last_purged <= LastLogId(r)
         /\ \/ LastLogId(r) \in DOMAIN r.log
            \/ LastLogId(r) = r.last_purged /\ DOMAIN r.log = {}
<1> DEFINE D == DOMAIN r.log
<1>1. D \in SUBSET (1..MaxIndex) /\ D \in SUBSET Int /\ IsFiniteSet(D)
  BY LogFacts
<1>2. r.last_purged \in 0..MaxIndex /\ r.last_purged \in Int /\ MaxIndex \in Nat
  BY RaftFacts
<1>3. CASE D = {}
  BY <1>2, <1>3 DEF LastLogId
<1>4. CASE D # {}
  <2>1. LastLogId(r) = CHOOSE k \in D : \A j \in D : j <= k
    BY <1>4 DEF LastLogId
  <2>2. \E k \in D : \A j \in D : j <= k
    BY <1>1, <1>4, LastKey
  <2>3. LastLogId(r) \in D /\ \A j \in D : j <= LastLogId(r)
    BY <2>1, <2>2, Zenon
  <2>4. r.last_purged < LastLogId(r)
    BY <2>3 DEF Sound
  <2> QED
    BY <1>1, <1>2, <2>3, <2>4
<1> QED
  BY <1>3, <1>4

\* Removing keys leaves a log.
LEMMA WithoutFacts ==
  ASSUME NEW r, Sound(r), NEW K
  PROVE  LET w == Without(r.log, K)
         IN  /\ w \in Logs
             /\ DOMAIN w = DOMAIN r.log \ K
             /\ \A k \in DOMAIN w : w[k] = r.log[k]
<1> DEFINE w == Without(r.log, K)
           D == DOMAIN r.log \ K
<1>1. w = [k \in D |-> r.log[k]]
  BY DEF Without
<1>2. D \in SUBSET (1..MaxIndex) /\ \A k \in D : r.log[k] \in LogEntry
  BY LogFacts
<1> HIDE DEF D
<1>3. w \in [D -> LogEntry]
  BY <1>1, <1>2
<1>4. w \in Logs
  BY <1>2, <1>3, Zenon DEF Logs
<1> QED
  BY <1>1, <1>4 DEF D

-----------------------------------------------------------------------------
(* How a handler ends *)

\* The two fields of the databases after a write.
LEMMA AtFields ==
  ASSUME NEW r, NEW q
  PROVE  At(r, q).raft = r /\ At(r, q).queue = q
BY DEF At

\* Nothing changes before the first write.
LEMMA BeforeWrites ==
  ASSUME RaftInv, NEW A \in SUBSET appended, NEW t, torn \subseteq t
  PROVE  Fine(At(raft, queue), A, t, installs)
BY AtFields, SMTT(40) DEF RaftInv, Fine, Kept

\* Databases that are in order are so when they have become the node's.
LEMMA BecomeOurs ==
  ASSUME NEW s, Fine(s, appended', torn', installs'), raft' = s.raft, queue' = s.queue,
         qsynced' = qsynced
  PROVE  Fine(At(raft, queue), appended, torn, installs)' /\ VoteKept
<1>1. At(raft, queue)' = At(s.raft, s.queue)
  BY DEF At
<1>2. s.raft.vote \in Nat /\ raft' = s.raft
  BY RaftFacts DEF Fine
<1> QED
  BY <1>1, <1>2, AtFields, SMTT(40) DEF Fine, VoteKept

\* A handler that returns.
LEMMA ReturnInv ==
  ASSUME RaftInv, NEW steps, Return(steps),
         Fine(steps[Len(steps)], appended', torn', installs'),
         current_snapshot' # None => Bridged(raft', current_snapshot'),
         OthersOK'
  PROVE  RaftInv' /\ VoteKept
<1> DEFINE s == steps[Len(steps)]
<1>1. /\ raft' = s.raft /\ queue' = s.queue
      /\ raftdisk' = {s.raft} /\ qsynced' = qsynced
  BY DEF Return, Flushed
<1>2. Fine(s, appended', torn', installs')
  OBVIOUS
<1> HIDE DEF s
<1>3. Fine(At(raft, queue), appended, torn, installs)' /\ VoteKept
  BY <1>1, <1>2, BecomeOurs
<1>4. (qsynced \in Nat)'
  BY <1>1 DEF RaftInv
<1> QED
  BY <1>1, <1>3, <1>4 DEF RaftInv

\* What is left of a queue database after a crash is in order.
LEMMA CutQueue ==
  ASSUME NEW q \in Seq(1..MaxIndex), NEW n \in 0..Len(q), NEW r
  PROVE  /\ SubSeq(q, 1, n) \in Seq(1..MaxIndex) /\ Len(SubSeq(q, 1, n)) = n
         /\ Ordered(r, q) => Ordered(r, SubSeq(q, 1, n))
<1> DEFINE c == SubSeq(q, 1, n)
<1>1. Len(q) \in Nat /\ DOMAIN q = 1..Len(q)
  BY LenProperties
<1>2. \A i \in 1..n : q[i] \in 1..MaxIndex
  <2>1. 1..n \subseteq 1..Len(q)
    BY <1>1
  <2> QED
    BY <2>1, ElementOfSeq
<1>3. 1 \in Int /\ n \in Int /\ n >= 0
  BY <1>1
<1>4. /\ c \in Seq(1..MaxIndex) /\ Len(c) = IF 1 <= n THEN n - 1 + 1 ELSE 0
      /\ \A i \in 1..(n - 1 + 1) : c[i] = q[1 + i - 1]
  BY <1>2, <1>3, SubSeqProperties
<1> HIDE DEF c
<1>5. Len(c) = n /\ \A i \in 1..n : c[i] = q[i]
  <2>1. n - 1 + 1 = n /\ \A i \in 1..n : 1 + i - 1 = i
    BY <1>3
  <2> QED
    BY <1>3, <1>4, <2>1
<1>6. DOMAIN c = 1..n /\ 1..n \subseteq DOMAIN q
  BY <1>1, <1>4, <1>5, LenProperties
<1>7. ASSUME Ordered(r, q) PROVE Ordered(r, c)
  <2>1. \A i, j \in 1..n : i < j => c[i] <= c[j]
    BY <1>5, <1>6, <1>7 DEF Ordered
  <2>2. \A i \in 1..n : c[i] <= r.last_applied + 1
    BY <1>5, <1>6, <1>7 DEF Ordered
  <2> QED
    BY <1>6, <2>1, <2>2 DEF Ordered
<1> QED
  BY <1>4, <1>5, <1>7 DEF c

\* A handler that a crash cuts short.
LEMMA CrashInv ==
  ASSUME RaftInv, NEW steps, Crash(steps), AllFine(steps, appended', torn', installs'),
         appended' \subseteq appended, torn \subseteq torn', installs' = installs,
         clog' = clog
  PROVE  RaftInv' /\ VoteKept
<1> DEFINE Left == {At(r, queue) : r \in raftdisk} \cup {steps[i] : i \in DOMAIN steps}
<1>1. PICK s \in Left : \E n \in qsynced..Len(s.queue) :
        /\ raft' = s.raft /\ raftdisk' = {s.raft}
        /\ queue' = SubSeq(s.queue, 1, n) /\ qsynced' = n
  BY Zenon DEF Crash
<1>2. PICK n \in qsynced..Len(s.queue) :
        /\ raft' = s.raft /\ raftdisk' = {s.raft}
        /\ queue' = SubSeq(s.queue, 1, n) /\ qsynced' = n
  BY <1>1, Zenon
<1>3. Fine(s, appended', torn', installs')
  <2>1. CASE \E i \in DOMAIN steps : s = steps[i]
    BY <2>1, Zenon DEF AllFine
  <2>2. CASE s = At(raft, queue)
    BY <2>2, BeforeWrites
  <2>3. raftdisk = {raft}
    BY DEF RaftInv
  <2> QED
    BY <2>1, <2>2, <2>3
<1> HIDE DEF Left
<1>4. /\ s.queue \in Seq(1..MaxIndex) /\ qsynced \in Nat
      /\ Sound(s.raft) /\ Kept(s.raft, appended') /\ raft.vote <= s.raft.vote
      /\ "delete_conflict" \notin torn' => NoGap(s.raft)
      /\ installs' = 0 /\ "install" \notin torn' => Ordered(s.raft, s.queue)
  BY <1>3 DEF Fine, RaftInv
<1>5. n \in 0..Len(s.queue) /\ n \in Nat
  BY <1>4, LenProperties
<1>6. /\ queue' \in Seq(1..MaxIndex) /\ Len(queue') = n
      /\ Ordered(s.raft, s.queue) => Ordered(s.raft, queue')
  BY <1>2, <1>4, <1>5, CutQueue
<1>7. At(raft, queue)'.raft = s.raft /\ At(raft, queue)'.queue = queue'
  BY <1>2 DEF At
<1>8. s.raft.vote \in Nat
  BY <1>4, RaftFacts
<1>9. Fine(At(raft, queue), appended, torn, installs)'
  <2>1. qsynced' <= Len(queue') /\ s.raft.vote <= s.raft.vote
    BY <1>2, <1>5, <1>6, <1>8
  <2> QED
    BY <1>2, <1>4, <1>6, <1>7, <2>1 DEF Fine
<1>10. VoteKept
  <2>1. Sound(raft)
    BY AtFields DEF RaftInv, Fine
  <2>2. raft.vote \in Nat
    BY <2>1, RaftFacts
  <2> QED
    BY <1>2, <1>4, <1>8, <2>2 DEF VoteKept
<1>11. current_snapshot' = None
  BY DEF Crash
<1>12. OthersOK'
  BY DEF RaftInv, OthersOK
<1> QED
  BY <1>2, <1>5, <1>9, <1>10, <1>11, <1>12 DEF RaftInv

-----------------------------------------------------------------------------
(* The handlers *)

\* What the invariant says of the node.
LEMMA InvFacts ==
  ASSUME RaftInv
  PROVE  /\ Sound(raft) /\ raft \in RaftType
         /\ queue \in Seq(1..MaxIndex) /\ qsynced \in Nat /\ qsynced <= Len(queue)
         /\ Kept(raft, appended)
         /\ "delete_conflict" \notin torn => NoGap(raft)
         /\ installs = 0 /\ "install" \notin torn => Ordered(raft, queue)
         /\ OthersOK
<1>1. Fine(At(raft, queue), appended, torn, installs) /\ qsynced \in Nat /\ OthersOK
  BY DEF RaftInv
<1>2. /\ Sound(raft) /\ queue \in Seq(1..MaxIndex) /\ qsynced <= Len(queue)
      /\ Kept(raft, appended)
      /\ "delete_conflict" \notin torn => NoGap(raft)
      /\ installs = 0 /\ "install" \notin torn => Ordered(raft, queue)
  BY <1>1, AtFields DEF Fine
<1> QED
  BY <1>1, <1>2 DEF Sound

\* A write to the raft database that leaves last_applied alone.
LEMMA RaftWrite ==
  ASSUME RaftInv, NEW r, Sound(r), r.last_applied = raft.last_applied,
         raft.vote <= r.vote, NEW A, Kept(r, A), NEW t, torn \subseteq t,
         "delete_conflict" \notin t => NoGap(r)
  PROVE  Fine(At(r, queue), A, t, installs)
<1>1. installs = 0 /\ "install" \notin t => Ordered(r, queue)
  <2> SUFFICES ASSUME installs = 0, "install" \notin t PROVE Ordered(r, queue)
    OBVIOUS
  <2>1. Ordered(raft, queue)
    BY InvFacts
  <2> QED
    BY <2>1 DEF Ordered
<1> QED
  BY <1>1, InvFacts, AtFields DEF Fine

\* save_vote: one write.
LEMMA SaveVoteStep ==
  ASSUME RaftInv, NEW v \in Votes, SaveVote(v)
  PROVE  RaftInv' /\ VoteKept
<1> DEFINE r == [raft EXCEPT !.vote = v]
           steps == SaveVoteSteps(v)
<1>1. raft \in RaftType /\ Sound(raft)
  BY InvFacts
<1>2. /\ r.vote = v /\ r.log = raft.log /\ r.last_applied = raft.last_applied
      /\ r.last_purged = raft.last_purged /\ r \in RaftType
  BY <1>1, SMTT(40) DEF RaftType
<1>3. steps = <<At(r, queue)>>
  BY DEF SaveVoteSteps
<1>4. UNCHANGED <<clog, appended, installs, torn>>
  BY DEF SaveVote
<1>5. raft.vote <= v
  <2>1. v \in Nat /\ raft.vote \in Nat /\ v > raft.vote
    BY <1>1, Bounds, RaftFacts DEF SaveVote
  <2> QED
    BY <2>1
<1> HIDE DEF r, steps
<1>6. Sound(r)
  BY <1>1, <1>2 DEF Sound
<1>7. Kept(r, appended) /\ ("delete_conflict" \notin torn => NoGap(r))
  BY <1>2, InvFacts DEF Kept, NoGap
<1>8. Fine(At(r, queue), appended', torn', installs')
  BY <1>2, <1>4, <1>5, <1>6, <1>7, RaftWrite
<1>9. CASE Crash(steps)
  <2>1. AllFine(steps, appended', torn', installs')
    BY <1>3, <1>8 DEF AllFine
  <2> QED
    BY <1>4, <1>9, <2>1, CrashInv
<1>10. CASE Return(steps) /\ UNCHANGED current_snapshot
  <2>1. Len(steps) = 1 /\ steps[1] = At(r, queue)
    BY <1>3
  <2>2. raft' = r
    BY <1>10, <2>1, AtFields DEF Return
  <2>3. current_snapshot' # None => Bridged(raft', current_snapshot')
    BY <1>2, <1>10, <2>2 DEF RaftInv, Bridged
  <2>4. OthersOK'
    BY <1>4 DEF RaftInv, OthersOK
  <2> QED
    BY <1>8, <1>10, <2>1, <2>3, <2>4, ReturnInv
<1> QED
  BY <1>9, <1>10 DEF SaveVote, steps

\* build_snapshot: one write, then the snapshot is offered.
LEMMA BuildSnapshotStep ==
  ASSUME RaftInv, BuildSnapshot
  PROVE  RaftInv' /\ VoteKept
<1> DEFINE r == [raft EXCEPT !.snapshot_idx = @ + 1]
           steps == BuildSteps
<1>1. raft \in RaftType /\ Sound(raft) /\ raft.snapshot_idx = 0
  BY InvFacts DEF BuildSnapshot
<1>2. /\ r.vote = raft.vote /\ r.log = raft.log /\ r.last_applied = raft.last_applied
      /\ r.last_purged = raft.last_purged /\ r \in RaftType
  BY <1>1, SMTT(40) DEF RaftType
<1>3. steps = <<At(r, queue)>>
  BY DEF BuildSteps
<1>4. UNCHANGED <<clog, appended, installs, torn>>
  BY DEF BuildSnapshot
<1>5. raft.vote <= r.vote
  BY <1>1, <1>2, RaftFacts
<1> HIDE DEF r, steps
<1>6. Sound(r)
  BY <1>1, <1>2 DEF Sound
<1>7. Kept(r, appended) /\ ("delete_conflict" \notin torn => NoGap(r))
  BY <1>2, InvFacts DEF Kept, NoGap
<1>8. Fine(At(r, queue), appended', torn', installs')
  BY <1>2, <1>4, <1>5, <1>6, <1>7, RaftWrite
<1>9. CASE Crash(steps)
  <2>1. AllFine(steps, appended', torn', installs')
    BY <1>3, <1>8 DEF AllFine
  <2> QED
    BY <1>4, <1>9, <2>1, CrashInv
<1>10. ASSUME Return(steps), current_snapshot'.last = raft.last_applied
       PROVE  RaftInv' /\ VoteKept
  <2>1. Len(steps) = 1 /\ steps[1] = At(r, queue)
    BY <1>3
  <2>2. raft' = r
    BY <1>10, <2>1, AtFields DEF Return
  <2>3. Bridged(raft', current_snapshot')
    BY <1>1, <1>2, <1>10, <2>2, RaftFacts DEF Bridged
  <2>4. OthersOK'
    BY <1>4 DEF RaftInv, OthersOK
  <2> QED
    BY <1>8, <1>10, <2>1, <2>3, <2>4, ReturnInv
<1> QED
  BY <1>9, <1>10, SMTT(40) DEF BuildSnapshot, steps

\* The log after the first n entries of a batch were stored.
Put(es, n) ==
  LET last == LastLogId(raft)
  IN  [k \in DOMAIN raft.log \cup (last + 1)..(last + n) |->
         IF k > last THEN es[k - last] ELSE raft.log[k]]

\* The first n entries of a batch as append_to_log promises them.
Promised(es, n) == {[index |-> LastLogId(raft) + k, entry |-> es[k]] : k \in 1..n}

\* Storing entries after the last one.
LEMMA PutFacts ==
  ASSUME RaftInv, NEW es \in Seq(LogEntry), NEW n \in 1..Len(es),
         LastLogId(raft) + n <= MaxIndex
  PROVE  LET last == LastLogId(raft)
             w == Put(es, n)
         IN  /\ w \in Logs
             /\ DOMAIN w = DOMAIN raft.log \cup (last + 1)..(last + n)
             /\ \A k \in DOMAIN raft.log : w[k] = raft.log[k]
             /\ \A k \in 1..n : w[last + k] = es[k]
<1> DEFINE last == LastLogId(raft)
           w == Put(es, n)
           D == DOMAIN raft.log
           E == (last + 1)..(last + n)
<1>1. Sound(raft)
  BY InvFacts
<1>2. /\ last \in 0..MaxIndex /\ last \in Nat /\ MaxIndex \in Nat /\ n \in Nat
      /\ \A k \in D : k \in Int /\ k <= last
  BY <1>1, LastLogIdFacts, LogFacts, Bounds, LenProperties
<1>3. w = [k \in D \cup E |-> IF k > last THEN es[k - last] ELSE raft.log[k]]
  BY DEF Put
<1> HIDE DEF w, last
<1>4. \A k \in 1..n : last + k \in E /\ last + k > last /\ (last + k) - last = k
  BY <1>2
<1>5. \A k \in E : k > last /\ k - last \in 1..n /\ k \in 1..MaxIndex
  BY <1>2 DEF last
<1>6. \A k \in 1..n : es[k] \in LogEntry
  BY LenProperties
<1>7. D \in SUBSET (1..MaxIndex) /\ \A k \in D : raft.log[k] \in LogEntry
  BY <1>1, LogFacts
<1> HIDE DEF D, E
<1>8. \A k \in D : ~(k > last)
  BY <1>2
<1>9. /\ DOMAIN w = D \cup E
      /\ \A k \in D : w[k] = raft.log[k]
      /\ \A k \in E : w[k] = es[k - last]
  BY <1>3, <1>5, <1>8
<1>10. w \in [D \cup E -> LogEntry] /\ D \cup E \in SUBSET (1..MaxIndex)
  BY <1>3, <1>5, <1>6, <1>7, <1>9
<1>11. w \in Logs
  BY <1>10, Zenon DEF Logs
<1>12. \A k \in 1..n : w[last + k] = es[k]
  BY <1>4, <1>9
<1> QED
  BY <1>9, <1>11, <1>12 DEF last, w, D, E

\* A database whose log alone is new.
LEMMA NewLog ==
  ASSUME RaftInv, NEW w \in Logs
  PROVE  LET r == [raft EXCEPT !.log = w]
         IN  /\ r.log = w /\ r.vote = raft.vote /\ r.last_applied = raft.last_applied
             /\ r.last_purged = raft.last_purged /\ r \in RaftType
BY InvFacts, SMTT(40) DEF RaftType

\* Each write of append_to_log leaves the databases in order and keeps what was
\* promised, the entries that it has stored included.
LEMMA AppendFine ==
  ASSUME RaftInv, NEW es \in Seq(LogEntry), NEW n \in 1..Len(es),
         LastLogId(raft) + n <= MaxIndex
  PROVE  Fine(At([raft EXCEPT !.log = Put(es, n)], queue),
              appended \cup Promised(es, n), torn, installs)
<1> DEFINE last == LastLogId(raft)
           w == Put(es, n)
           r == [raft EXCEPT !.log = w]
           D == DOMAIN raft.log
           A == appended \cup Promised(es, n)
<1>1. Sound(raft) /\ Kept(raft, appended)
      /\ ("delete_conflict" \notin torn => NoGap(raft))
  BY InvFacts
<1>2. /\ w \in Logs /\ DOMAIN w = D \cup (last + 1)..(last + n)
      /\ \A k \in D : w[k] = raft.log[k]
      /\ \A k \in 1..n : w[last + k] = es[k]
  BY PutFacts
<1>3. /\ last \in 0..MaxIndex /\ last \in Int /\ n \in Int
      /\ \A k \in D : k \in Int /\ k <= last
      /\ raft.last_purged <= last
      /\ last \in D \/ (last = raft.last_purged /\ D = {})
  BY <1>1, LastLogIdFacts, LogFacts, Bounds, LenProperties
<1>4. /\ raft.last_purged \in Int /\ raft.last_applied \in Int
      /\ raft.last_purged <= raft.last_applied /\ raft.vote \in Nat
  BY <1>1, RaftFacts
<1> HIDE DEF w
<1>5. /\ r.log = w /\ r.vote = raft.vote /\ r.last_applied = raft.last_applied
      /\ r.last_purged = raft.last_purged /\ r \in RaftType
  BY <1>2, NewLog
<1>6. \A a \in Promised(es, n) : a.index \in DOMAIN w /\ w[a.index] = a.entry
  <2> SUFFICES ASSUME NEW k \in 1..n
               PROVE  last + k \in DOMAIN w /\ w[last + k] = es[k]
    BY DEF Promised
  <2> HIDE DEF last
  <2>1. last + k \in (last + 1)..(last + n)
    BY <1>3
  <2> QED
    BY <1>2, <2>1
<1> HIDE DEF r, last
<1>7. Sound(r)
  <2>1. \A k \in DOMAIN w : raft.last_purged < k
    <3>1. \A k \in D : raft.last_purged < k
      BY <1>1 DEF Sound
    <3>2. \A k \in (last + 1)..(last + n) : raft.last_purged < k
      BY <1>3, <1>4
    <3> QED
      BY <1>2, <3>1, <3>2
  <2> QED
    BY <1>4, <1>5, <2>1 DEF Sound
<1>8. Kept(r, A)
  <2>1. \A a \in appended : \/ a.index <= raft.last_applied
                            \/ a.index \in DOMAIN w /\ w[a.index] = a.entry
    BY <1>1, <1>2 DEF Kept
  <2> QED
    BY <1>5, <1>6, <2>1 DEF Kept
<1>9. ASSUME "delete_conflict" \notin torn PROVE NoGap(r)
  <2> SUFFICES ASSUME NEW k \in DOMAIN w, NEW j \in (raft.last_applied + 1)..k
               PROVE  j \in DOMAIN w
    BY <1>5 DEF NoGap
  <2>1. \A i \in D : \A h \in (raft.last_applied + 1)..i : h \in D
    BY <1>1, <1>9 DEF NoGap
  <2>2. CASE k \in D
    BY <1>2, <2>1, <2>2
  <2>3. CASE k \in (last + 1)..(last + n) /\ j > last
    <3>1. j \in (last + 1)..(last + n)
      BY <1>3, <1>4, <2>3
    <3> QED
      BY <1>2, <3>1
  <2>4. CASE k \in (last + 1)..(last + n) /\ ~(j > last)
    <3>1. j \in (raft.last_applied + 1)..last
      BY <1>3, <1>4, <2>4
    <3>2. last \in D
      BY <1>3, <1>4, <3>1
    <3> QED
      BY <1>2, <2>1, <3>1, <3>2
  <2> QED
    BY <1>2, <2>2, <2>3, <2>4
<1>10. raft.vote <= r.vote
  BY <1>4, <1>5
<1> HIDE DEF A
<1>11. Fine(At(r, queue), A, torn, installs)
  BY <1>5, <1>7, <1>8, <1>9, <1>10, RaftWrite
<1> QED
  BY <1>11 DEF r, A, w

\* Fewer entries are kept too.
LEMMA FineLess ==
  ASSUME NEW s, NEW A, NEW B \in SUBSET A, NEW t, NEW n, Fine(s, A, t, n)
  PROVE  Fine(s, B, t, n)
BY DEF Fine, Kept

\* append_to_log: one write per entry.
LEMMA AppendToLogStep ==
  ASSUME RaftInv, NEW es \in Batches, AppendToLog(es)
  PROVE  RaftInv' /\ VoteKept
<1> DEFINE steps == AppendSteps(es)
           last == LastLogId(raft)
           s(n) == At([raft EXCEPT !.log = Put(es, n)], queue)
<1>1. es \in Seq(LogEntry) /\ Len(es) \in Nat /\ Len(es) \in 1..Len(es)
  <2>1. ASSUME NEW e \in LogEntry, es = <<e>>
        PROVE  es \in Seq(LogEntry) /\ Len(es) = 1
    BY <2>1
  <2>2. ASSUME NEW e \in LogEntry, NEW f \in LogEntry, es = <<e, f>>
        PROVE  es \in Seq(LogEntry) /\ Len(es) = 2
    BY <2>2
  <2>3. (\E e \in LogEntry : es = <<e>>) \/ (\E e, f \in LogEntry : es = <<e, f>>)
    BY DEF Batches
  <2>4. es \in Seq(LogEntry) /\ (Len(es) = 1 \/ Len(es) = 2)
    BY <2>1, <2>2, <2>3, Zenon
  <2> QED
    BY <2>4
<1>2. \A n \in 1..Len(es) : last + n <= MaxIndex
  BY DEF AppendToLog, MayAppend
<1>3. steps = [n \in 1..Len(es) |-> s(n)]
  BY Zenon DEF AppendSteps, Put
<1>4. \A n \in 1..Len(es) : Fine(s(n), appended \cup Promised(es, n), torn, installs)
  BY <1>1, <1>2, AppendFine
<1>5. UNCHANGED <<clog, installs, torn>>
  BY DEF AppendToLog
<1> HIDE DEF steps, s
<1>6. CASE Crash(steps) /\ UNCHANGED appended
  <2>1. \A n \in 1..Len(es) : Fine(s(n), appended, torn, installs)
    BY <1>4, FineLess
  <2>2. AllFine(steps, appended', torn', installs')
    BY <1>3, <1>5, <1>6, <2>1 DEF AllFine
  <2> QED
    BY <1>5, <1>6, <2>2, CrashInv
<1>7. ASSUME Return(steps), appended' = appended \cup Promised(es, Len(es)),
             UNCHANGED current_snapshot
      PROVE  RaftInv' /\ VoteKept
  <2> DEFINE w == Put(es, Len(es))
             r == [raft EXCEPT !.log = w]
  <2>1. Len(steps) = Len(es) /\ steps[Len(es)] = s(Len(es))
    BY <1>1, <1>3
  <2>2. raft' = r
    BY <1>7, <2>1, AtFields DEF Return, s
  <2>3. Fine(steps[Len(steps)], appended', torn', installs')
    BY <1>1, <1>4, <1>5, <1>7, <2>1
  <2>4. w \in Logs /\ DOMAIN raft.log \subseteq DOMAIN w
    BY <1>1, <1>2, PutFacts
  <2> HIDE DEF w
  <2>5. /\ r.log = w /\ r.last_applied = raft.last_applied
        /\ r.last_purged = raft.last_purged
    BY <2>4, NewLog
  <2>6. current_snapshot' # None => Bridged(raft', current_snapshot')
    BY <1>7, <2>2, <2>4, <2>5 DEF RaftInv, Bridged
  <2>7. OthersOK'
    <3>1. \A n \in 1..Len(es) : last + n \in 1..MaxIndex /\ es[n] \in LogEntry
      BY <1>1, <1>2, InvFacts, LastLogIdFacts, LenProperties, Bounds
    <3>2. Promised(es, Len(es)) \subseteq [index : 1..MaxIndex, entry : LogEntry]
      BY <3>1 DEF Promised
    <3> QED
      BY <1>5, <1>7, <3>2 DEF RaftInv, OthersOK
  <2> QED
    BY <1>7, <2>3, <2>6, <2>7, ReturnInv
<1> QED
  BY <1>6, <1>7, Zenon DEF AppendToLog, Promised, steps

\* Removing the first keys from since on keeps the entries before it, and leaves
\* no gap when all of them are removed.
LEMMA DeleteFine ==
  ASSUME RaftInv, NEW since \in Int, since > raft.last_applied, NEW n \in Nat
  PROVE  LET K == {k \in DOMAIN raft.log : k >= since}
             r == [raft EXCEPT !.log = Without(@, FirstKeys(K, n))]
             A == {a \in appended : a.index < since}
         IN  /\ Fine(At(r, queue), A, torn \cup {"delete_conflict"}, installs)
             /\ Cardinality(K) <= n => Fine(At(r, queue), A, torn, installs)
             /\ r.last_applied = raft.last_applied /\ r.last_purged = raft.last_purged
             /\ raft.last_applied \in DOMAIN raft.log => raft.last_applied \in DOMAIN r.log
<1> DEFINE D == DOMAIN raft.log
           K == {k \in D : k >= since}
           F == FirstKeys(K, n)
           w == Without(raft.log, F)
           r == [raft EXCEPT !.log = Without(@, F)]
           A == {a \in appended : a.index < since}
<1>1. Sound(raft) /\ Kept(raft, appended)
      /\ ("delete_conflict" \notin torn => NoGap(raft))
  BY InvFacts
<1>2. D \in SUBSET Int /\ IsFiniteSet(D)
  BY <1>1, LogFacts
<1>3. F \subseteq K /\ (Cardinality(K) <= n => F = K)
  <2>1. K \in SUBSET Int /\ IsFiniteSet(K)
    BY <1>2, FS_Subset
  <2> QED
    BY <2>1, FirstKeysFacts
<1> HIDE DEF F
<1>4. w \in Logs /\ DOMAIN w = D \ F /\ \A k \in DOMAIN w : w[k] = raft.log[k]
  BY <1>1, WithoutFacts
<1>5. r = [raft EXCEPT !.log = w]
  BY InvFacts, SMTT(40) DEF RaftType
<1> HIDE DEF w, r
<1>6. /\ r.log = w /\ r.vote = raft.vote /\ r.last_applied = raft.last_applied
      /\ r.last_purged = raft.last_purged /\ r \in RaftType
  BY <1>4, <1>5, NewLog
<1>7. raft.last_applied \in Int /\ raft.vote \in Nat /\ raft.vote <= r.vote
  BY <1>1, <1>6, RaftFacts
<1>8. Sound(r)
  BY <1>1, <1>4, <1>6 DEF Sound
<1>9. Kept(r, A)
  <2> SUFFICES ASSUME NEW a \in appended, a.index < since, ~(a.index <= raft.last_applied)
               PROVE  a.index \in DOMAIN w /\ w[a.index] = a.entry
    BY <1>6 DEF Kept
  <2>1. a.index \in D /\ raft.log[a.index] = a.entry
    BY <1>1 DEF Kept
  <2>2. a.index \notin F
    BY <1>2, <1>3, <2>1
  <2> QED
    BY <1>4, <2>1, <2>2
<1>10. ASSUME "delete_conflict" \notin torn, F = K PROVE NoGap(r)
  <2> SUFFICES ASSUME NEW k \in D \ K, NEW j \in (raft.last_applied + 1)..k
               PROVE  j \in D \ K
    BY <1>4, <1>6, <1>10 DEF NoGap
  <2>1. j \in D
    BY <1>1, <1>10 DEF NoGap
  <2>2. k < since /\ k \in Int /\ j \in Int /\ j <= k
    BY <1>2, <1>7
  <2> QED
    BY <2>1, <2>2
<1> HIDE DEF A
<1>11. Fine(At(r, queue), A, torn \cup {"delete_conflict"}, installs)
  BY <1>6, <1>7, <1>8, <1>9, RaftWrite
<1>12. Cardinality(K) <= n => Fine(At(r, queue), A, torn, installs)
  <2> SUFFICES ASSUME Cardinality(K) <= n PROVE Fine(At(r, queue), A, torn, installs)
    OBVIOUS
  <2>1. F = K
    BY <1>3
  <2> QED
    BY <1>6, <1>7, <1>8, <1>9, <1>10, <2>1, RaftWrite
<1>13. raft.last_applied \in D => raft.last_applied \in DOMAIN w
  BY <1>3, <1>4, <1>7
<1> QED
  BY <1>6, <1>11, <1>12, <1>13 DEF r, A, F

\* delete_conflict_logs_since: one remove per key, in ascending order.
LEMMA DeleteConflictStep ==
  ASSUME RaftInv, NEW since \in 1..MaxIndex, DeleteConflictLogsSince(since)
  PROVE  RaftInv' /\ VoteKept
<1> DEFINE K == {k \in DOMAIN raft.log : k >= since}
           r(n) == [raft EXCEPT !.log = Without(@, FirstKeys(K, n))]
           A == {a \in appended : a.index < since}
           c == Cardinality(K)
           steps == DeleteConflictSteps(since)
           t == torn \cup {"delete_conflict"}
<1>1. since \in Int /\ since > raft.last_applied /\ since \in DOMAIN raft.log
  BY Bounds DEF DeleteConflictLogsSince
<1>2. c \in Nat \ {0}
  <2>1. K \in SUBSET DOMAIN raft.log /\ IsFiniteSet(DOMAIN raft.log) /\ since \in K
    BY <1>1, InvFacts, LogFacts
  <2>2. IsFiniteSet(K) /\ K # {}
    BY <2>1, FS_Subset
  <2> HIDE DEF K
  <2> QED
    BY <2>2, FS_EmptySet, FS_CardinalityType
<1>3. \A n \in Nat :
        /\ Fine(At(r(n), queue), A, t, installs)
        /\ c <= n => Fine(At(r(n), queue), A, torn, installs)
        /\ r(n).last_applied = raft.last_applied /\ r(n).last_purged = raft.last_purged
        /\ raft.last_applied \in DOMAIN raft.log => raft.last_applied \in DOMAIN r(n).log
  BY <1>1, DeleteFine
<1>4. steps = [n \in 1..c |-> At(r(n), queue)]
  BY DEF DeleteConflictSteps
<1>5. UNCHANGED <<clog, installs>> /\ appended' = A
  BY DEF DeleteConflictLogsSince
<1>6. A \subseteq appended
  OBVIOUS
<1> HIDE DEF r, A, c, steps
<1>7. CASE Crash(steps) /\ torn' = t
  <2>1. \A n \in 1..c : Fine(At(r(n), queue), A, t, installs)
    BY <1>2, <1>3
  <2>2. AllFine(steps, appended', torn', installs')
    BY <1>4, <1>5, <1>7, <2>1 DEF AllFine
  <2> QED
    BY <1>5, <1>6, <1>7, <2>2, CrashInv
<1>8. CASE Return(steps) /\ UNCHANGED <<current_snapshot, torn>>
  <2>1. Len(steps) = c /\ steps[c] = At(r(c), queue)
    BY <1>2, <1>4
  <2>2. raft' = r(c)
    BY <1>8, <2>1, AtFields DEF Return
  <2>3. Fine(steps[Len(steps)], appended', torn', installs')
    BY <1>2, <1>3, <1>5, <1>8, <2>1
  <2>4. current_snapshot' # None => Bridged(raft', current_snapshot')
    BY <1>2, <1>3, <1>8, <2>2 DEF RaftInv, Bridged
  <2>5. OthersOK'
    BY <1>5, <1>6 DEF RaftInv, OthersOK
  <2> QED
    BY <1>8, <2>3, <2>4, <2>5, ReturnInv
<1> QED
  BY <1>7, <1>8, Zenon DEF DeleteConflictLogsSince, steps

\* Removing keys that are applied keeps what is not.
LEMMA PurgeFine ==
  ASSUME RaftInv, NEW upto \in 1..MaxIndex, upto <= raft.last_applied,
         NEW F, F \subseteq {k \in DOMAIN raft.log : k <= upto}
  PROVE  LET r == [raft EXCEPT !.log = Without(@, F)]
             p == [r EXCEPT !.last_purged = upto]
         IN  /\ Fine(At(r, queue), appended, torn, installs)
             /\ F = {k \in DOMAIN raft.log : k <= upto} =>
                  Fine(At(p, queue), appended, torn, installs)
             /\ p.last_applied = raft.last_applied /\ p.last_purged = upto
             /\ DOMAIN p.log = DOMAIN raft.log \ F
<1> DEFINE D == DOMAIN raft.log
           K == {k \in D : k <= upto}
           w == Without(raft.log, F)
           r == [raft EXCEPT !.log = Without(@, F)]
           p == [r EXCEPT !.last_purged = upto]
<1>1. Sound(raft) /\ Kept(raft, appended)
      /\ ("delete_conflict" \notin torn => NoGap(raft))
  BY InvFacts
<1>2. D \in SUBSET Int /\ upto \in Int /\ upto \in 0..MaxIndex
  BY <1>1, LogFacts, Bounds
<1>3. w \in Logs /\ DOMAIN w = D \ F /\ \A k \in DOMAIN w : w[k] = raft.log[k]
  BY <1>1, WithoutFacts
<1>4. r = [raft EXCEPT !.log = w]
  BY InvFacts, SMTT(40) DEF RaftType
<1> HIDE DEF w, r
<1>5. /\ r.log = w /\ r.vote = raft.vote /\ r.last_applied = raft.last_applied
      /\ r.last_purged = raft.last_purged /\ r \in RaftType
  BY <1>3, <1>4, NewLog
<1>6. /\ p.log = w /\ p.vote = raft.vote /\ p.last_applied = raft.last_applied
      /\ p.last_purged = upto /\ p \in RaftType
  BY <1>2, <1>5, SMTT(40) DEF RaftType
<1> HIDE DEF p
<1>7. raft.last_applied \in Int /\ raft.vote \in Nat /\ raft.vote <= raft.vote
  BY <1>1, RaftFacts
<1>8. \A k \in F : k <= raft.last_applied /\ k \in Int
  BY <1>2, <1>7
<1>9. \A a \in appended : \/ a.index <= raft.last_applied
                          \/ a.index \in DOMAIN w /\ w[a.index] = a.entry
  BY <1>1, <1>3, <1>8 DEF Kept
<1>10. ASSUME "delete_conflict" \notin torn,
              NEW k \in DOMAIN w, NEW j \in (raft.last_applied + 1)..k
       PROVE  j \in DOMAIN w
  <2>1. j \in D
    BY <1>1, <1>3, <1>10 DEF NoGap
  <2>2. j \notin F
    BY <1>7, <1>8, <1>10
  <2> QED
    BY <1>3, <2>1, <2>2
<1>11. Fine(At(r, queue), appended, torn, installs)
  <2>1. Sound(r)
    BY <1>1, <1>3, <1>5 DEF Sound
  <2>2. Kept(r, appended) /\ ("delete_conflict" \notin torn => NoGap(r))
    BY <1>5, <1>9, <1>10 DEF Kept, NoGap
  <2> QED
    BY <1>5, <1>7, <2>1, <2>2, RaftWrite
<1>12. ASSUME F = K PROVE Fine(At(p, queue), appended, torn, installs)
  <2>1. \A k \in DOMAIN w : upto < k
    BY <1>2, <1>3, <1>12
  <2>2. Sound(p)
    BY <1>6, <2>1 DEF Sound
  <2>3. Kept(p, appended) /\ ("delete_conflict" \notin torn => NoGap(p))
    BY <1>6, <1>9, <1>10 DEF Kept, NoGap
  <2> QED
    BY <1>6, <1>7, <2>2, <2>3, RaftWrite
<1> QED
  BY <1>3, <1>6, <1>11, <1>12 DEF p, r

\* openraft never purges what is not applied, nor more than its snapshot has.
LEMMA PurgeRange ==
  ASSUME RaftInv, NEW upto \in 1..MaxIndex, PurgeLogsUpto(upto)
  PROVE  /\ upto <= raft.last_applied
         /\ current_snapshot # None => upto <= current_snapshot.last
<1>1. Sound(raft) /\ (current_snapshot # None => Bridged(raft, current_snapshot))
  BY InvFacts DEF RaftInv
<1>2. raft.last_applied \in Int /\ raft.last_purged \in Int /\ upto \in Int
  BY <1>1, RaftFacts, Bounds
<1>3. CASE current_snapshot # None /\ upto <= current_snapshot.last
  <2>1. current_snapshot.last \in Int /\ current_snapshot.last <= raft.last_applied
    BY <1>1, <1>3, Bounds DEF Bridged
  <2> QED
    BY <1>2, <1>3, <2>1
<1>4. CASE Dirty /\ upto = raft.last_applied
  <2> DEFINE last == LastLogId(raft)
  <2>1. /\ last \in Int /\ last < raft.last_applied
        /\ \A k \in DOMAIN raft.log : k <= last
        /\ raft.last_purged <= last
    BY <1>1, <1>4, LastLogIdFacts, Bounds DEF Dirty
  <2> HIDE DEF last
  <2>2. raft.last_applied \notin DOMAIN raft.log /\ raft.last_applied # raft.last_purged
    BY <1>2, <2>1
  <2>3. current_snapshot # None => raft.last_applied = current_snapshot.last
    BY <1>1, <2>2 DEF Bridged
  <2> QED
    BY <1>2, <1>4, <2>3
<1> QED
  BY <1>3, <1>4 DEF PurgeLogsUpto

\* purge_logs_upto: one remove per key, in ascending order, then last_purged.
LEMMA PurgeStep ==
  ASSUME RaftInv, NEW upto \in 1..MaxIndex, PurgeLogsUpto(upto)
  PROVE  RaftInv' /\ VoteKept
<1> DEFINE K == {k \in DOMAIN raft.log : k <= upto}
           c == Cardinality(K)
           r(n) == [raft EXCEPT !.log = Without(@, FirstKeys(K, n))]
           p(n) == [r(n) EXCEPT !.last_purged = upto]
           s(n) == At(IF n <= c THEN r(n) ELSE p(n), queue)
           steps == PurgeSteps(upto)
<1>1. Sound(raft) /\ raft.last_applied \in Int /\ upto \in Int
  BY InvFacts, RaftFacts, Bounds
<1>2. K \in SUBSET Int /\ IsFiniteSet(K) /\ c \in Nat
  <2>1. K \in SUBSET DOMAIN raft.log /\ DOMAIN raft.log \in SUBSET Int
        /\ IsFiniteSet(DOMAIN raft.log)
    BY <1>1, LogFacts
  <2> HIDE DEF K
  <2> QED
    BY <2>1, FS_Subset, FS_CardinalityType
<1>3. \A n \in Nat : FirstKeys(K, n) \subseteq K /\ (c <= n => FirstKeys(K, n) = K)
  BY <1>2, FirstKeysFacts
<1>4. upto <= raft.last_applied /\ (current_snapshot # None => upto <= current_snapshot.last)
  BY PurgeRange
<1>5. \A n \in Nat :
        /\ Fine(At(r(n), queue), appended, torn, installs)
        /\ c <= n => Fine(At(p(n), queue), appended, torn, installs)
        /\ p(n).last_applied = raft.last_applied /\ p(n).last_purged = upto
        /\ DOMAIN p(n).log = DOMAIN raft.log \ FirstKeys(K, n)
  BY <1>3, <1>4, PurgeFine
<1>6. steps = [n \in 1..(c + 1) |-> s(n)]
  BY DEF PurgeSteps
<1>7. UNCHANGED <<clog, appended, installs, torn>>
  BY DEF PurgeLogsUpto
<1> HIDE DEF r, p, c, steps
<1>8. \A n \in 1..(c + 1) : Fine(s(n), appended, torn, installs)
  BY <1>2, <1>5
<1> HIDE DEF s
<1>9. CASE Crash(steps)
  <2>1. AllFine(steps, appended', torn', installs')
    BY <1>6, <1>7, <1>8 DEF AllFine
  <2> QED
    BY <1>7, <1>9, <2>1, CrashInv
<1>10. CASE Return(steps) /\ UNCHANGED current_snapshot
  <2>1. Len(steps) = c + 1 /\ steps[c + 1] = s(c + 1) /\ c + 1 \in 1..(c + 1)
    BY <1>2, <1>6
  <2>2. s(c + 1) = At(p(c + 1), queue)
    BY <1>2 DEF s
  <2>3. raft' = p(c + 1)
    BY <1>10, <2>1, <2>2, AtFields DEF Return
  <2>4. Fine(steps[Len(steps)], appended', torn', installs')
    BY <1>7, <1>8, <2>1
  <2>5. ASSUME current_snapshot' # None PROVE Bridged(raft', current_snapshot')
    <3>1. Bridged(raft, current_snapshot) /\ upto <= current_snapshot.last
          /\ current_snapshot' = current_snapshot
      BY <1>4, <1>10, <2>5 DEF RaftInv
    <3>2. /\ raft'.last_applied = raft.last_applied /\ raft'.last_purged = upto
          /\ DOMAIN raft'.log = DOMAIN raft.log \ K
      <4>1. c + 1 \in Nat /\ c <= c + 1
        BY <1>2
      <4> QED
        BY <1>3, <1>5, <2>3, <4>1
    <3>3. current_snapshot.last \in Int /\ current_snapshot.last <= raft.last_applied
      BY <3>1, Bounds DEF Bridged
    <3>4. CASE upto = raft.last_applied
      BY <3>1, <3>2, <3>4 DEF Bridged
    <3>5. CASE upto # raft.last_applied /\ raft.last_applied \in DOMAIN raft.log
      <4>1. raft.last_applied \notin K
        BY <1>1, <1>4, <3>5
      <4> QED
        BY <3>1, <3>2, <3>5, <4>1 DEF Bridged
    <3>6. CASE upto # raft.last_applied /\ raft.last_applied = current_snapshot.last
      BY <3>1, <3>2, <3>6 DEF Bridged
    <3>7. raft.last_applied # raft.last_purged
      <4>1. upto > raft.last_purged /\ raft.last_purged \in Int
        BY <1>1, RaftFacts DEF PurgeLogsUpto
      <4> QED
        BY <1>1, <1>4, <4>1
    <3> QED
      BY <3>1, <3>4, <3>5, <3>6, <3>7 DEF Bridged
  <2>6. OthersOK'
    BY <1>7 DEF RaftInv, OthersOK
  <2> QED
    BY <1>10, <2>4, <2>5, <2>6, ReturnInv
<1> QED
  BY <1>9, <1>10, Zenon DEF PurgeLogsUpto, steps

\* Operations of later entries may follow those of a queue database.
LEMMA ExtendQueue ==
  ASSUME NEW q \in Seq(1..MaxIndex), NEW o \in Seq(1..MaxIndex)
  PROVE  /\ q \o o \in Seq(1..MaxIndex) /\ Len(q) <= Len(q \o o)
         /\ \A r, p, a, b :
              /\ r.last_applied + 1 = a /\ a \in Int /\ b \in Int /\ a <= b
              /\ Ordered(r, q) /\ o \in Seq(a..b) /\ b <= p.last_applied + 1
              /\ p.last_applied \in Int
              /\ \A i, j \in DOMAIN o : i < j => o[i] <= o[j]
              => Ordered(p, q \o o)
<1> DEFINE c == q \o o
           m == Len(q)
           n == Len(o)
<1>1. /\ m \in Nat /\ n \in Nat /\ DOMAIN q = 1..m /\ DOMAIN o = 1..n
      /\ \A i \in 1..m : q[i] \in 1..MaxIndex
  BY LenProperties, ElementOfSeq
<1>2. /\ c \in Seq(1..MaxIndex) /\ Len(c) = m + n
      /\ \A i \in 1..(m + n) : c[i] = IF i <= m THEN q[i] ELSE o[i - m]
  BY ConcatProperties
<1>3. DOMAIN c = 1..(m + n)
  BY <1>2, LenProperties
<1> HIDE DEF c, m, n
<1>4. ASSUME NEW r, NEW p, NEW a \in Int, NEW b \in Int, a <= b,
             r.last_applied + 1 = a, Ordered(r, q), o \in Seq(a..b),
             b <= p.last_applied + 1, p.last_applied \in Int,
             \A i, j \in DOMAIN o : i < j => o[i] <= o[j]
      PROVE  Ordered(p, c)
  <2>1. \A i \in 1..n : o[i] \in Int /\ a <= o[i] /\ o[i] <= b
    BY <1>1, <1>4, ElementOfSeq DEF n
  <2>2. \A i \in 1..m : q[i] \in Int /\ q[i] <= a
    <3>1. \A i \in 1..m : q[i] <= r.last_applied + 1
      BY <1>1, <1>4 DEF Ordered
    <3>2. \A i \in 1..m : q[i] \in Int
      BY <1>1, Bounds
    <3> QED
      BY <1>4, <3>1, <3>2
  <2>3. ASSUME NEW i \in 1..(m + n) PROVE c[i] <= p.last_applied + 1
    <3>1. CASE i <= m
      BY <1>1, <1>2, <1>4, <2>2, <3>1
    <3>2. CASE ~(i <= m)
      <4>1. i - m \in 1..n
        BY <1>1, <3>2
      <4> QED
        BY <1>1, <1>2, <1>4, <2>1, <3>2, <4>1
    <3> QED
      BY <3>1, <3>2
  <2>4. ASSUME NEW i \in 1..(m + n), NEW j \in 1..(m + n), i < j PROVE c[i] <= c[j]
    <3>1. CASE j <= m
      <4>1. i \in DOMAIN q /\ j \in DOMAIN q /\ c[i] = q[i] /\ c[j] = q[j]
        BY <1>1, <1>2, <2>4, <3>1
      <4> QED
        BY <1>4, <2>4, <4>1 DEF Ordered
    <3>2. CASE i <= m /\ ~(j <= m)
      <4>1. c[i] = q[i] /\ c[j] = o[j - m] /\ i \in 1..m /\ j - m \in 1..n
        BY <1>1, <1>2, <3>2
      <4> QED
        BY <1>4, <2>1, <2>2, <4>1
    <3>3. CASE ~(i <= m)
      <4>1. /\ c[i] = o[i - m] /\ c[j] = o[j - m] /\ i - m < j - m
            /\ i - m \in 1..n /\ j - m \in 1..n
        BY <1>1, <1>2, <2>4, <3>3
      <4> QED
        BY <1>1, <1>4, <4>1
    <3> QED
      BY <1>1, <3>1, <3>2, <3>3
  <2> QED
    BY <1>3, <2>3, <2>4 DEF Ordered
<1>5. m <= Len(c)
  BY <1>1, <1>2
<1> QED
  BY <1>2, <1>4, <1>5 DEF c, m

\* The databases after entry i was executed, with b recorded as last_applied.
AppliedTo(i, b) ==
  LET first == raft.last_applied + 1
  IN  At([raft EXCEPT !.last_membership = LastMembership(raft.log, first, i, @),
                      !.last_applied = b],
         queue \o Operations(raft.log, first, i))

\* Executing entries up to i, and recording all of them or all but the last.
LEMMA ApplyFine ==
  ASSUME RaftInv, NEW i \in (raft.last_applied + 1)..MaxIndex, NEW b \in {i - 1, i}
  PROVE  /\ Fine(AppliedTo(i, b), appended, torn, installs)
         /\ AppliedTo(i, b).raft.log = raft.log
         /\ AppliedTo(i, b).raft.last_applied = b
         /\ AppliedTo(i, b).raft.last_purged = raft.last_purged
<1> DEFINE a == raft.last_applied + 1
           o == Operations(raft.log, a, i)
           l == LastMembership(raft.log, a, i, raft.last_membership)
           r == [raft EXCEPT !.last_membership =
                               LastMembership(raft.log, raft.last_applied + 1, i, @),
                             !.last_applied = b]
           q == queue \o o
<1>1. /\ Sound(raft) /\ raft \in RaftType /\ Kept(raft, appended)
      /\ queue \in Seq(1..MaxIndex) /\ qsynced \in Nat /\ qsynced <= Len(queue)
      /\ "delete_conflict" \notin torn => NoGap(raft)
      /\ installs = 0 /\ "install" \notin torn => Ordered(raft, queue)
  BY InvFacts
<1>2. /\ raft.last_applied \in 0..MaxIndex /\ raft.last_membership \in 0..MaxIndex
      /\ MaxIndex \in Nat /\ raft.vote \in Nat
      /\ raft.last_purged \in Int /\ raft.last_purged <= raft.last_applied
  BY <1>1, RaftFacts
<1>3. /\ a \in Int /\ i \in Int /\ a <= i /\ a..i \subseteq 1..MaxIndex
      /\ b \in 0..MaxIndex /\ raft.last_applied <= b /\ i <= b + 1
      /\ raft.last_applied \in Int /\ b \in Int
  BY <1>2
<1>4. l \in 0..MaxIndex
  <2>1. l \in (a..i) \cup {raft.last_membership}
    BY <1>3, LastMembershipFacts
  <2> HIDE DEF l, a
  <2> QED
    BY <1>2, <1>3, <2>1
<1> DEFINE v == [raft EXCEPT !.last_membership = l]
<1>5. r = [v EXCEPT !.last_applied = b]
  BY <1>1, SMTT(40) DEF RaftType
<1> HIDE DEF l, r
<1>6. /\ r.log = raft.log /\ r.vote = raft.vote /\ r.last_applied = b
      /\ r.last_purged = raft.last_purged /\ r \in RaftType
  <2>1. /\ v.log = raft.log /\ v.vote = raft.vote
        /\ v.last_purged = raft.last_purged /\ v \in RaftType
    BY <1>1, <1>4, SMTT(40) DEF RaftType
  <2>2. b \in 0..MaxIndex
    BY <1>3
  <2> HIDE DEF v
  <2> QED
    BY <1>5, <2>1, <2>2, SMTT(40) DEF RaftType
<1>7. /\ o \in Seq(a..i)
      /\ \A j, k \in DOMAIN o : j < k => o[j] <= o[k]
  BY <1>3, OperationsFacts
<1> HIDE DEF o
<1>8. o \in Seq(1..MaxIndex)
  BY <1>3, <1>7, SeqMonotonic
<1>9. /\ q \in Seq(1..MaxIndex) /\ Len(queue) <= Len(q)
      /\ Ordered(raft, queue) => Ordered(r, q)
  BY <1>1, <1>3, <1>6, <1>7, <1>8, ExtendQueue
<1>10. qsynced <= Len(q)
  BY <1>1, <1>9, LenProperties
<1> HIDE DEF q
<1>11. Sound(r)
  BY <1>1, <1>2, <1>3, <1>6 DEF Sound
<1>12. Kept(r, appended)
  <2>1. \A e \in appended : e.index \in Int
    BY InvFacts, Bounds DEF OthersOK
  <2> QED
    BY <1>1, <1>3, <1>6, <2>1 DEF Kept
<1>13. "delete_conflict" \notin torn => NoGap(r)
  <2> SUFFICES ASSUME "delete_conflict" \notin torn, NEW k \in DOMAIN raft.log,
                      NEW j \in (b + 1)..k
               PROVE  j \in DOMAIN raft.log
    BY <1>6 DEF NoGap
  <2>1. k \in Int
    BY <1>1, LogFacts
  <2>2. j \in (raft.last_applied + 1)..k
    BY <1>3, <2>1
  <2> QED
    BY <1>1, <2>2 DEF NoGap
<1>14. AppliedTo(i, b) = At(r, q)
  BY DEF AppliedTo, r, q, o
<1>15. raft.vote <= r.vote
  BY <1>2, <1>6
<1>16. At(r, q).raft = r /\ At(r, q).queue = q
  BY AtFields
<1>17. Fine(At(r, q), appended, torn, installs)
  BY <1>1, <1>9, <1>10, <1>11, <1>12, <1>13, <1>15, <1>16, Zenon DEF Fine
<1> QED
  BY <1>6, <1>14, <1>16, <1>17

\* apply_to_state_machine: for each entry the operation, then last_applied.
LEMMA ApplyStep ==
  ASSUME RaftInv, NEW upto \in 1..MaxIndex, ApplyToStateMachine(upto)
  PROVE  RaftInv' /\ VoteKept
<1> DEFINE a == raft.last_applied + 1
           m == upto + 1 - a
           c == 2 * m
           I(n) == a + (n - 1) \div 2
           B(n) == IF n % 2 = 1 THEN I(n) - 1 ELSE I(n)
           steps == ApplySteps(upto)
<1>1. Sound(raft) /\ raft.last_applied \in 0..MaxIndex /\ MaxIndex \in Nat
      /\ raft.last_purged \in Int /\ raft.last_purged <= raft.last_applied
  BY InvFacts, RaftFacts
<1>2. a \in Nat /\ m \in Nat \ {0} /\ upto \in Nat /\ a <= upto
  BY <1>1 DEF ApplyToStateMachine
<1>3. a..upto \subseteq DOMAIN raft.log
  <2>1. TryGetLogEntries(raft, a, upto + 1) = a..upto
    BY DEF ApplyToStateMachine
  <2> QED
    BY <2>1 DEF TryGetLogEntries
<1>4. \A n \in 1..c : I(n) \in a..upto
  <2>1. \A n \in 1..c : (n - 1) \div 2 \in 0..(m - 1)
    <3> HIDE DEF m
    <3> QED
      BY <1>2
  <2> QED
    BY <1>2, <2>1
<1>5. c \in 1..c /\ c % 2 # 1 /\ c \in Nat
  <2> HIDE DEF m
  <2> QED
    BY <1>2
<1>6. steps = [n \in 1..c |-> AppliedTo(I(n), B(n))]
  BY Zenon DEF ApplySteps, AppliedTo
<1>7. UNCHANGED <<clog, appended, installs, torn>>
  BY DEF ApplyToStateMachine
<1>8. \A n \in 1..c : I(n) \in a..MaxIndex
  BY <1>1, <1>2, <1>4
<1> HIDE DEF m, c, steps, I
<1>9. \A n \in 1..c :
        /\ Fine(AppliedTo(I(n), B(n)), appended, torn, installs)
        /\ AppliedTo(I(n), B(n)).raft.log = raft.log
        /\ AppliedTo(I(n), B(n)).raft.last_applied = B(n)
        /\ AppliedTo(I(n), B(n)).raft.last_purged = raft.last_purged
  <2> SUFFICES ASSUME NEW n \in 1..c
               PROVE  /\ Fine(AppliedTo(I(n), B(n)), appended, torn, installs)
                      /\ AppliedTo(I(n), B(n)).raft.log = raft.log
                      /\ AppliedTo(I(n), B(n)).raft.last_applied = B(n)
                      /\ AppliedTo(I(n), B(n)).raft.last_purged = raft.last_purged
    OBVIOUS
  <2>1. I(n) \in a..MaxIndex /\ B(n) \in {I(n) - 1, I(n)}
    BY <1>8
  <2> HIDE DEF B
  <2> QED
    BY <2>1, ApplyFine
<1>10. CASE Crash(steps)
  <2>1. AllFine(steps, appended', torn', installs')
    BY <1>6, <1>7, <1>9 DEF AllFine
  <2> QED
    BY <1>7, <1>10, <2>1, CrashInv
<1>11. CASE Return(steps) /\ UNCHANGED current_snapshot
  <2>1. Len(steps) = c /\ steps[c] = AppliedTo(I(c), B(c))
    BY <1>5, <1>6
  <2>2. raft' = AppliedTo(I(c), B(c)).raft
    BY <1>11, <2>1 DEF Return
  <2>3. Fine(steps[Len(steps)], appended', torn', installs')
    BY <1>5, <1>7, <1>9, <2>1
  <2>4. /\ raft'.last_applied = I(c) /\ raft'.log = raft.log
        /\ raft'.last_purged = raft.last_purged
    BY <1>5, <1>9, <2>2
  <2>5. I(c) \in DOMAIN raft.log /\ raft.last_applied <= I(c) /\ I(c) \in Int
    <3>1. I(c) \in a..upto
      BY <1>4, <1>5
    <3> QED
      BY <1>1, <1>2, <1>3, <3>1
  <2>6. ASSUME current_snapshot' # None PROVE Bridged(raft', current_snapshot')
    <3>1. Bridged(raft, current_snapshot) /\ current_snapshot' = current_snapshot
      BY <1>11, <2>6 DEF RaftInv
    <3>2. current_snapshot.last \in Int /\ current_snapshot.last <= raft.last_applied
      BY <3>1, BridgedBelow, Zenon
    <3>3. current_snapshot.last <= I(c)
      BY <1>1, <2>5, <3>2
    <3> QED
      BY <2>4, <2>5, <3>1, <3>3 DEF Bridged
  <2>7. OthersOK'
    BY <1>7 DEF RaftInv, OthersOK
  <2> QED
    BY <1>11, <2>3, <2>6, <2>7, ReturnInv
<1> QED
  BY <1>10, <1>11, Zenon DEF ApplyToStateMachine, steps

\* Databases whose queue has more of a snapshot, while a snapshot is installed.
LEMMA InstallFine ==
  ASSUME RaftInv, NEW o \in Seq(1..MaxIndex), NEW r, Sound(r), r.log = raft.log,
         r.vote = raft.vote, raft.last_applied <= r.last_applied,
         NEW t, torn \subseteq t, NEW n, "install" \in t \/ n # 0
  PROVE  Fine(At(r, queue \o o), appended, t, n)
<1> DEFINE q == queue \o o
<1>1. /\ Sound(raft) /\ Kept(raft, appended)
      /\ queue \in Seq(1..MaxIndex) /\ qsynced \in Nat /\ qsynced <= Len(queue)
      /\ "delete_conflict" \notin torn => NoGap(raft)
  BY InvFacts
<1>2. raft.vote \in Nat /\ raft.last_applied \in Int /\ r.last_applied \in Int
  BY <1>1, RaftFacts
<1>3. q \in Seq(1..MaxIndex) /\ Len(queue) <= Len(q)
  BY <1>1, ExtendQueue
<1>4. qsynced <= Len(q)
  BY <1>1, <1>3, LenProperties
<1> HIDE DEF q
<1>5. Kept(r, appended)
  <2>1. \A e \in appended : e.index \in Int
    BY InvFacts, Bounds DEF OthersOK
  <2> QED
    BY <1>1, <1>2, <2>1 DEF Kept
<1>6. "delete_conflict" \notin t => NoGap(r)
  <2> SUFFICES ASSUME "delete_conflict" \notin t, NEW k \in DOMAIN raft.log,
                      NEW j \in (r.last_applied + 1)..k
               PROVE  j \in DOMAIN raft.log
    BY DEF NoGap
  <2>1. k \in Int
    BY <1>1, LogFacts
  <2>2. j \in (raft.last_applied + 1)..k
    BY <1>2, <2>1
  <2> QED
    BY <1>1, <2>2 DEF NoGap
<1>7. raft.vote <= r.vote
  BY <1>2
<1>8. Fine(At(r, q), appended, t, n)
  BY <1>3, <1>4, <1>5, <1>6, <1>7, AtFields DEF Fine
<1> QED
  BY <1>8 DEF q

\* The writes of install_snapshot: those that restore the queues, then the two
\* that record what the snapshot stands for.
LEMMA InstallWrites ==
  ASSUME NEW s, s.queue \in Seq(1..MaxIndex)
  PROVE  LET n == Len(s.queue)
             q(k) == queue \o SubSeq(s.queue, 1, k)
             x == [raft EXCEPT !.last_applied = s.last]
             y == [x EXCEPT !.last_membership = s.membership]
             w == InstallSteps(s)
         IN  /\ n \in Nat /\ Len(w) = n + 2 /\ DOMAIN w = 1..(n + 2)
             /\ \A k \in 1..n : w[k] = At(raft, q(k))
             /\ w[n + 1] = At(x, q(n)) /\ w[n + 2] = At(y, q(n))
<1> DEFINE n == Len(s.queue)
           q(k) == queue \o SubSeq(s.queue, 1, k)
           x == [raft EXCEPT !.last_applied = s.last]
           y == [x EXCEPT !.last_membership = s.membership]
           f == [k \in 1..n |-> At(raft, q(k))]
           g == <<At(x, q(n)), At(y, q(n))>>
           S == {At(raft, q(k)) : k \in 1..n} \cup {At(x, q(n)), At(y, q(n))}
           w == InstallSteps(s)
<1>1. w = f \o g
  BY Zenon DEF InstallSteps
<1>2. n \in Nat
  BY LenProperties
<1> HIDE DEF x, y, q, n, w
<1>3. f \in Seq(S) /\ Len(f) = n /\ \A k \in 1..n : f[k] = At(raft, q(k))
  BY <1>2
<1>4. g \in Seq(S) /\ Len(g) = 2 /\ g[1] = At(x, q(n)) /\ g[2] = At(y, q(n))
  OBVIOUS
<1> HIDE DEF f, g, S
<1>5. /\ w \in Seq(S) /\ Len(w) = n + 2
      /\ \A i \in 1..(n + 2) : w[i] = IF i <= n THEN f[i] ELSE g[i - n]
  <2>1. /\ f \o g \in Seq(S) /\ Len(f \o g) = Len(f) + Len(g)
        /\ \A i \in 1..(Len(f) + Len(g)) :
             (f \o g)[i] = IF i <= Len(f) THEN f[i] ELSE g[i - Len(f)]
    BY <1>3, <1>4, ConcatProperties
  <2> QED
    BY <1>1, <1>3, <1>4, <2>1
<1>6. /\ n + 1 \in 1..(n + 2) /\ ~(n + 1 <= n) /\ (n + 1) - n = 1
      /\ n + 2 \in 1..(n + 2) /\ ~(n + 2 <= n) /\ (n + 2) - n = 2
      /\ \A k \in 1..n : k \in 1..(n + 2) /\ k <= n
  BY <1>2
<1>7. w[n + 1] = At(x, q(n)) /\ w[n + 2] = At(y, q(n))
  BY <1>4, <1>5, <1>6
<1>8. \A k \in 1..n : w[k] = At(raft, q(k))
  BY <1>3, <1>5, <1>6
<1>9. DOMAIN w = 1..(n + 2)
  BY <1>5, LenProperties
<1> QED
  BY <1>2, <1>5, <1>7, <1>8, <1>9 DEF n, x, y, q, w

\* install_snapshot leaves the databases in order after every write.
LEMMA InstallAllFine ==
  ASSUME RaftInv, NEW s, s.queue \in Seq(1..MaxIndex), s.last \in 0..MaxIndex,
         s.membership \in 0..MaxIndex, raft.last_applied <= s.last,
         NEW t, torn \subseteq t, NEW m, "install" \in t \/ m # 0
  PROVE  AllFine(InstallSteps(s), appended, t, m)
<1> DEFINE n == Len(s.queue)
           c(k) == SubSeq(s.queue, 1, k)
           q(k) == queue \o c(k)
           x == [raft EXCEPT !.last_applied = s.last]
           y == [x EXCEPT !.last_membership = s.membership]
           w == InstallSteps(s)
<1>1. /\ n \in Nat /\ Len(w) = n + 2 /\ DOMAIN w = 1..(n + 2)
      /\ \A k \in 1..n : w[k] = At(raft, q(k))
      /\ w[n + 1] = At(x, q(n)) /\ w[n + 2] = At(y, q(n))
  BY InstallWrites
<1>2. \A k \in 0..n : c(k) \in Seq(1..MaxIndex)
  BY CutQueue
<1>3. /\ Sound(raft) /\ raft \in RaftType
      /\ raft.last_applied \in Int /\ raft.last_purged \in Int
      /\ raft.last_purged <= raft.last_applied /\ s.last \in Int
  BY InvFacts, RaftFacts, Bounds
<1>4. /\ x \in RaftType /\ x.log = raft.log /\ x.vote = raft.vote
      /\ x.last_applied = s.last /\ x.last_purged = raft.last_purged
  BY <1>3, SMTT(40) DEF RaftType
<1> HIDE DEF x
<1>5. /\ y \in RaftType /\ y.log = raft.log /\ y.vote = raft.vote
      /\ y.last_applied = s.last /\ y.last_purged = raft.last_purged
  BY <1>4, SMTT(40) DEF RaftType
<1> HIDE DEF y, w, c, n
<1>6. Sound(x) /\ Sound(y)
  BY <1>3, <1>4, <1>5 DEF Sound
<1>7. raft.last_applied <= raft.last_applied
  BY <1>3
<1>8. \A k \in 0..n : /\ Fine(At(raft, q(k)), appended, t, m)
                      /\ Fine(At(x, q(k)), appended, t, m)
                      /\ Fine(At(y, q(k)), appended, t, m)
  <2> SUFFICES ASSUME NEW k \in 0..n
               PROVE  /\ Fine(At(raft, q(k)), appended, t, m)
                      /\ Fine(At(x, q(k)), appended, t, m)
                      /\ Fine(At(y, q(k)), appended, t, m)
    OBVIOUS
  <2>1. c(k) \in Seq(1..MaxIndex)
    BY <1>2
  <2>2. Fine(At(raft, q(k)), appended, t, m)
    BY <1>3, <1>7, <2>1, InstallFine
  <2>3. Fine(At(x, q(k)), appended, t, m)
    BY <1>4, <1>6, <2>1, InstallFine
  <2>4. Fine(At(y, q(k)), appended, t, m)
    BY <1>5, <1>6, <2>1, InstallFine
  <2> QED
    BY <2>2, <2>3, <2>4
<1> HIDE DEF q
<1>9. ASSUME NEW i \in 1..(n + 2) PROVE Fine(w[i], appended, t, m)
  <2>1. CASE i \in 1..n
    <3>1. i \in 0..n
      BY <1>1, <2>1
    <3> QED
      BY <1>1, <1>8, <2>1, <3>1
  <2>2. n \in 0..n
    BY <1>1
  <2>3. CASE i = n + 1
    BY <1>1, <1>8, <2>2, <2>3
  <2>4. CASE i = n + 2
    BY <1>1, <1>8, <2>2, <2>4
  <2>5. i \in 1..n \/ i = n + 1 \/ i = n + 2
    BY <1>1
  <2> QED
    BY <2>1, <2>3, <2>4, <2>5
<1>10. AllFine(w, appended, t, m)
  BY <1>1, <1>9 DEF AllFine
<1> QED
  BY <1>10 DEF w

\* What it records in the end.
LEMMA InstallEnd ==
  ASSUME RaftInv, NEW s, s.queue \in Seq(1..MaxIndex)
  PROVE  LET w == InstallSteps(s)
             l == Len(w)
         IN  /\ l \in DOMAIN w
             /\ w[l].raft.last_applied = s.last
             /\ w[l].raft.last_purged = raft.last_purged
<1> DEFINE n == Len(s.queue)
           q == queue \o SubSeq(s.queue, 1, n)
           x == [raft EXCEPT !.last_applied = s.last]
           y == [x EXCEPT !.last_membership = s.membership]
           w == InstallSteps(s)
<1>1. n \in Nat /\ Len(w) = n + 2 /\ DOMAIN w = 1..(n + 2) /\ w[n + 2] = At(y, q)
  BY InstallWrites
<1>2. y.last_applied = s.last /\ y.last_purged = raft.last_purged
  BY InvFacts, SMTT(40) DEF RaftType
<1> HIDE DEF n, q, y, w
<1>3. n + 2 \in DOMAIN w /\ w[n + 2].raft = y
  BY <1>1, AtFields
<1> QED
  BY <1>1, <1>2, <1>3 DEF w

\* install_snapshot.
LEMMA InstallStep ==
  ASSUME RaftInv, NEW i \in 1..MaxIndex, InstallSnapshot(i)
  PROVE  RaftInv' /\ VoteKept
<1> DEFINE s == LeaderSnapshot(i)
           steps == InstallSteps(s)
           t == torn \cup {"install"}
<1>1. s.last = i /\ s.queue = Operations(clog, 1, i)
      /\ s.membership = LastMembership(clog, 1, i, 0)
  BY DEF LeaderSnapshot
<1>2. 1 \in Int /\ i \in Int /\ MaxIndex \in Nat /\ 1..i \subseteq 1..MaxIndex
  BY Bounds
<1> HIDE DEF s
<1>3. s.queue \in Seq(1..MaxIndex)
  <2>1. Operations(clog, 1, i) \in Seq(1..i)
    BY <1>2, OperationsFacts
  <2>2. Operations(clog, 1, i) \in Seq(1..MaxIndex)
    BY <1>2, <2>1, SeqMonotonic
  <2> QED
    BY <1>1, <2>2
<1>4. s.membership \in 0..MaxIndex
  <2>1. s.membership \in (1..i) \cup {0}
    BY <1>1, <1>2, LastMembershipFacts
  <2> QED
    BY <1>2, <2>1
<1>5. /\ s.last \in 0..MaxIndex /\ raft.last_applied <= s.last
      /\ raft.last_purged <= s.last /\ raft.last_applied \in Int
  <2>1. i > raft.last_applied
    BY DEF InstallSnapshot
  <2> QED
    BY <1>1, <1>2, <2>1, InvFacts, RaftFacts
<1>6. UNCHANGED <<clog, appended>>
  BY DEF InstallSnapshot
<1>7. ASSUME Crash(steps), torn' = t, UNCHANGED installs
      PROVE  RaftInv' /\ VoteKept
  <2>1. AllFine(steps, appended, t, installs)
    BY <1>3, <1>4, <1>5, InstallAllFine
  <2> QED
    BY <1>6, <1>7, <2>1, CrashInv
<1>8. ASSUME Return(steps), current_snapshot' = s, installs' = installs + 1,
             UNCHANGED torn
      PROVE  RaftInv' /\ VoteKept
  <2> DEFINE m == installs + 1
  <2>1. installs \in Nat /\ m # 0 /\ m \in Nat
    BY InvFacts DEF OthersOK
  <2> HIDE DEF m
  <2>2. /\ Len(steps) \in DOMAIN steps
        /\ steps[Len(steps)].raft.last_applied = s.last
        /\ steps[Len(steps)].raft.last_purged = raft.last_purged
    BY <1>3, InstallEnd
  <2>3. raft' = steps[Len(steps)].raft
    BY <1>8 DEF Return
  <2>4. Bridged(raft', current_snapshot')
    <3>1. s.last \in Int /\ s.last <= s.last
      BY <1>1, <1>2
    <3> QED
      BY <1>5, <1>8, <2>2, <2>3, <3>1 DEF Bridged
  <2>5. Fine(steps[Len(steps)], appended', torn', installs')
    <3>1. AllFine(steps, appended, torn, m)
      BY <1>3, <1>4, <1>5, <2>1, InstallAllFine
    <3> QED
      BY <1>6, <1>8, <2>2, <3>1 DEF AllFine, m
  <2>6. OthersOK'
    BY <1>6, <1>8, <2>1, InvFacts DEF OthersOK, m
  <2> QED
    BY <1>8, <2>4, <2>5, <2>6, ReturnInv
<1> QED
  BY <1>7, <1>8, Zenon DEF InstallSnapshot, s

-----------------------------------------------------------------------------
(* The steps between the handlers *)

\* A step that leaves the raft database and the queues alone.
LEMMA NodeKept ==
  ASSUME RaftInv, UNCHANGED <<raft, raftdisk, queue, current_snapshot, appended,
                              installs, torn>>,
         qsynced' \in Nat, qsynced' <= Len(queue), clog' \in Seq(LogEntry)
  PROVE  RaftInv' /\ VoteKept
<1>1. Fine(At(raft, queue), appended, torn, installs)'
  <2>1. At(raft, queue)' = At(raft, queue)
    BY DEF At
  <2> QED
    BY <2>1, AtFields DEF RaftInv, Fine
<1>2. VoteKept
  <2>1. raft.vote \in Nat
    BY InvFacts, RaftFacts
  <2> QED
    BY <2>1 DEF VoteKept
<1>3. OthersOK'
  BY DEF RaftInv, OthersOK
<1> QED
  BY <1>1, <1>2, <1>3 DEF RaftInv

\* sled's flusher, the handlers that only read, a commit elsewhere.
LEMMA OutsideStep ==
  ASSUME RaftInv, Sync \/ UNCHANGED vars \/ \E e \in LogEntry : Commit(e)
  PROVE  RaftInv' /\ VoteKept
<1>1. /\ queue \in Seq(1..MaxIndex) /\ qsynced \in Nat /\ qsynced <= Len(queue)
      /\ clog \in Seq(LogEntry)
  BY InvFacts DEF OthersOK
<1>2. Len(queue) \in Nat /\ Len(queue) <= Len(queue)
  BY <1>1, LenProperties
<1>3. CASE Sync
  BY <1>1, <1>2, <1>3, NodeKept DEF Sync
<1>4. CASE UNCHANGED vars
  BY <1>1, <1>4, NodeKept DEF vars, node
<1>5. ASSUME NEW e \in LogEntry, Commit(e) PROVE RaftInv' /\ VoteKept
  <2>1. clog' = Append(clog, e) /\ UNCHANGED <<node, current_snapshot, appended, installs, torn>>
    BY <1>5 DEF Commit
  <2>2. clog' \in Seq(LogEntry)
    BY <1>1, <2>1, AppendProperties
  <2> QED
    BY <1>1, <2>1, <2>2, NodeKept DEF node
<1> QED
  BY <1>3, <1>4, <1>5

\* A crash between two handlers.
LEMMA RestartStep ==
  ASSUME RaftInv, Restart
  PROVE  RaftInv' /\ VoteKept
<1>1. AllFine(<<>>, appended', torn', installs')
  BY DEF AllFine
<1> QED
  BY <1>1, CrashInv DEF Restart

\* Every step keeps the invariant, and the vote.
LEMMA NextInv == RaftInv /\ [Next]_vars => RaftInv' /\ VoteKept
<1> SUFFICES ASSUME RaftInv, [Next]_vars PROVE RaftInv' /\ VoteKept
  OBVIOUS
<1>1. ASSUME NEW v \in Votes, SaveVote(v) PROVE RaftInv' /\ VoteKept
  BY <1>1, SaveVoteStep
<1>2. ASSUME NEW es \in Batches, AppendToLog(es) PROVE RaftInv' /\ VoteKept
  BY <1>2, AppendToLogStep
<1>3. ASSUME NEW i \in 1..MaxIndex,
             \/ DeleteConflictLogsSince(i) \/ PurgeLogsUpto(i)
             \/ ApplyToStateMachine(i) \/ InstallSnapshot(i)
      PROVE  RaftInv' /\ VoteKept
  BY <1>3, DeleteConflictStep, PurgeStep, ApplyStep, InstallStep
<1>4. CASE BuildSnapshot
  BY <1>4, BuildSnapshotStep
<1>5. CASE Restart
  BY <1>5, RestartStep
<1>6. CASE Sync \/ UNCHANGED vars \/ \E e \in LogEntry : Commit(e)
  BY <1>6, OutsideStep
<1> QED
  BY <1>1, <1>2, <1>3, <1>4, <1>5, <1>6, Zenon DEF Next, Read

\* A node starts with empty databases.
LEMMA InitInv == Init => RaftInv
<1> SUFFICES ASSUME Init PROVE RaftInv
  OBVIOUS
<1>1. /\ raft.log = <<>> /\ raft.vote = 0 /\ raft.last_applied = 0
      /\ raft.last_purged = 0 /\ raft.last_membership = 0 /\ raft.snapshot_idx = 0
      /\ raft = [log |-> <<>>, vote |-> 0, last_applied |-> 0, last_purged |-> 0,
                 last_membership |-> 0, snapshot_idx |-> 0]
  BY DEF Init, EmptyRaft
<1>2. DOMAIN raft.log = {}
  BY <1>1
<1>3. raft.log \in Logs
  <2>1. <<>> \in [{} -> LogEntry]
    OBVIOUS
  <2>2. {} \in SUBSET (1..MaxIndex)
    OBVIOUS
  <2> QED
    BY <1>1, <2>1, <2>2, Zenon DEF Logs
<1>4. 0 \in 0..MaxIndex /\ 0 \in Nat
  BY Bounds
<1>5. raft \in RaftType
  BY <1>1, <1>3, <1>4, SMTT(40) DEF RaftType
<1>6. Sound(raft)
  BY <1>1, <1>2, <1>5 DEF Sound
<1>7. queue \in Seq(1..MaxIndex) /\ qsynced = 0 /\ Len(queue) = 0 /\ DOMAIN queue = {}
      /\ appended = {} /\ installs = 0 /\ clog \in Seq(LogEntry)
      /\ raftdisk = {raft} /\ current_snapshot = None
  BY DEF Init
<1>8. Kept(raft, appended) /\ NoGap(raft) /\ Ordered(raft, queue)
  BY <1>2, <1>7 DEF Kept, NoGap, Ordered
<1>9. Fine(At(raft, queue), appended, torn, installs)
  <2>1. qsynced <= Len(queue) /\ raft.vote <= raft.vote
    BY <1>1, <1>7
  <2>2. At(raft, queue).raft = raft /\ At(raft, queue).queue = queue
    BY AtFields
  <2> QED
    BY <1>6, <1>7, <1>8, <2>1, <2>2, Zenon DEF Fine
<1> QED
  BY <1>7, <1>9 DEF RaftInv, OthersOK

-----------------------------------------------------------------------------
(* What follows *)

\* The invariant of the storage of a node.
THEOREM RaftInvariance == Spec => []RaftInv
BY InitInv, NextInv, PTL DEF Spec

\* The databases, the snapshot and the logs are of their types.
THEOREM StorageTypes == Spec => []TypeOK
<1>1. RaftInv => TypeOK
  <2> SUFFICES ASSUME RaftInv PROVE TypeOK
    OBVIOUS
  <2>1. raftdisk = {raft} /\ Sound(raft)
    BY InvFacts DEF RaftInv
  <2>2. /\ DOMAIN raft.log \subseteq 1..MaxIndex
        /\ \A i \in DOMAIN raft.log : raft.log[i] \in LogEntry
    BY <2>1, LogFacts
  <2>3. /\ raft.vote \in Votes \cup {0}
        /\ {raft.last_applied, raft.last_purged, raft.last_membership} \subseteq 0..MaxIndex
        /\ raft.snapshot_idx \in {0, 1}
    BY <2>1, RaftFacts
  <2>4. Executed \subseteq 1..MaxIndex /\ qsynced \in 0..Len(queue)
    <3>1. /\ queue \in Seq(1..MaxIndex) /\ qsynced \in Nat /\ qsynced <= Len(queue)
          /\ DOMAIN queue = 1..Len(queue) /\ Len(queue) \in Nat
      BY InvFacts, LenProperties
    <3>2. \A k \in DOMAIN queue : queue[k] \in 1..MaxIndex
      BY <3>1, ElementOfSeq
    <3> QED
      BY <3>1, <3>2 DEF Executed
  <2>5. current_snapshot # None => current_snapshot.last \in 0..MaxIndex
    BY DEF RaftInv, Bridged
  <2>6. /\ \A i \in DOMAIN clog : clog[i] \in LogEntry
        /\ appended \subseteq [index : 1..MaxIndex, entry : LogEntry]
    <3>1. clog \in Seq(LogEntry) /\ appended \subseteq [index : 1..MaxIndex, entry : LogEntry]
      BY DEF RaftInv, OthersOK
    <3>2. DOMAIN clog = 1..Len(clog)
      BY <3>1, LenProperties
    <3> QED
      BY <3>1, <3>2, ElementOfSeq
  <2> QED
    BY <2>1, <2>2, <2>3, <2>4, <2>5, <2>6, Zenon DEF TypeOK
<1> QED
  BY <1>1, RaftInvariance, PTL

\* An entry for which append_to_log returned is in the log after any crash, or
\* applied, unless a later leader overwrote it.
THEOREM AppendDurable == Spec => []AppendedSurvive
<1>1. RaftInv => AppendedSurvive
  <2>1. RaftInv => raftdisk = {raft} /\ Kept(raft, appended)
    BY InvFacts DEF RaftInv
  <2> QED
    BY <2>1 DEF AppendedSurvive, Kept
<1> QED
  BY <1>1, RaftInvariance, PTL

\* No crash and no restart takes back a vote.
THEOREM VoteDurable == Spec => VoteNeverBack
<1>1. RaftInv /\ [Next]_vars => [VoteKept]_vars
  BY NextInv
<1> QED
  BY <1>1, RaftInvariance, PTL DEF Spec, VoteNeverBack

\* No purge, truncation, append or installed snapshot, complete or cut short,
\* loses an entry that is still to be applied; only a truncation that was cut
\* short leaves a gap.
THEOREM NothingUnappliedIsLost == Spec => []UnappliedInLog
<1>1. RaftInv => UnappliedInLog
  <2> SUFFICES ASSUME RaftInv PROVE UnappliedInLog
    OBVIOUS
  <2>1. /\ Sound(raft)
        /\ "delete_conflict" \notin torn => NoGap(raft)
    BY InvFacts
  <2>2. /\ raft.last_purged \in Int /\ raft.last_applied \in Int
        /\ raft.last_purged <= raft.last_applied
    BY <2>1, RaftFacts
  <2>3. ASSUME "delete_conflict" \notin torn, NEW j \in (raft.last_applied + 1)..LastLogId(raft)
        PROVE  j \in DOMAIN raft.log
    <3>1. CASE LastLogId(raft) \in DOMAIN raft.log
      BY <2>1, <2>3, <3>1 DEF NoGap
    <3>2. LastLogId(raft) # raft.last_purged
      <4>1. j \in (raft.last_applied + 1)..raft.last_purged => FALSE
        BY <2>2
      <4> QED
        BY <2>3, <4>1
    <3> QED
      BY <2>1, <3>1, <3>2, LastLogIdFacts
  <2> QED
    BY <2>2, <2>3 DEF UnappliedInLog
<1> QED
  BY <1>1, RaftInvariance, PTL

\* The snapshot that a node offers reaches from what it purged to no more than
\* what it applied.
THEOREM SnapshotReaches == Spec => []SnapshotBridgesPurge
<1>1. RaftInv => SnapshotBridgesPurge
  BY DEF RaftInv, Bridged, SnapshotBridgesPurge
<1> QED
  BY <1>1, RaftInvariance, PTL

\* Operations are executed in log order, and a crash repeats at most the entry
\* whose execution was not recorded, as long as no snapshot is installed.
THEOREM LogOrder == Spec => []ExecutedInOrder
<1>1. RaftInv => ExecutedInOrder
  BY InvFacts DEF ExecutedInOrder, Ordered
<1> QED
  BY <1>1, RaftInvariance, PTL
=============================================================================
