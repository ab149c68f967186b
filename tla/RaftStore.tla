------------------------------ MODULE RaftStore ------------------------------
(***************************************************************************)
(* The storage of one Flock node (pelicanq-raft/src/storage.rs): the raft  *)
(* database (log, vote, last_applied, last_purged, last_membership,        *)
(* snapshot_idx) and the queue database of its QueueManager.               *)
(*                                                                         *)
(* The two are separate sled databases.  Every handler that writes the     *)
(* raft database flushes it before it returns; nothing flushes the queue   *)
(* database, which sled syncs in the background.  A crash keeps of each a  *)
(* prefix of its writes that includes what was flushed or synced.          *)
(*                                                                         *)
(* What a queue operation does is the subject of QueueManager.  Here the   *)
(* queue database is the sequence of the log entries whose operations it   *)
(* contains, in the order they were executed.                              *)
(*                                                                         *)
(* Every handler holds the mutex of RaftStoreInner, so it is one action,   *)
(* given by the sequence of databases after each of its writes.  openraft, *)
(* which calls the handlers, is external: clog is the log the cluster has  *)
(* committed, and the guards on it are the order in which openraft calls.  *)
(* openraft numbers log entries from 0, with None before the first one;    *)
(* here they are numbered from 1 and 0 is None.                            *)
(* The operators under a comment that starts with "Mutation" are not part  *)
(* of the model: each is the definition after it with a plausible slip.    *)
(***************************************************************************)
EXTENDS Integers, Sequences, FiniteSets

CONSTANTS
  None,         \* Rust's Option::None
  Kinds,        \* the payloads that occur: Blank, Normal, Membership
  Votes,        \* the votes that openraft saves
  MaxIndex, MaxTerm, MaxCrashes, MaxInstalls  \* bounds

ASSUME RaftStoreAssumption ==
  /\ Kinds \subseteq {"blank", "normal", "membership"}
  /\ Votes \subseteq Nat
  /\ MaxIndex \in Nat /\ MaxTerm \in Nat /\ MaxCrashes \in Nat /\ MaxInstalls \in Nat
  /\ None \notin Int

VARIABLES
  raft,              \* the raft database as the node sees it
  raftdisk,          \* the raft databases a crash may leave
  queue,             \* the entries the queue database has executed
  qsynced,           \* how many of them are certain to survive a crash
  current_snapshot,  \* in memory only
  clog               \* external: the committed log of the cluster

(* History, read by the properties and bounds only *)
VARIABLES
  appended,  \* the entries append_to_log returned for and did not delete again
  installs,  \* how many times install_snapshot returned
  crashes,
  torn       \* the handlers, of those the properties ask about, a crash cut short

node == <<raft, raftdisk, queue, qsynced>>
vars == <<node, current_snapshot, clog, appended, installs, crashes, torn>>

LogEntry == [term : 1..MaxTerm, kind : Kinds]

\* None of the optional records of the meta tree is present at first: 0.
EmptyRaft == [log |-> <<>>, vote |-> 0, last_applied |-> 0, last_purged |-> 0,
              last_membership |-> 0, snapshot_idx |-> 0]

Init ==
  /\ raft = EmptyRaft /\ raftdisk = {EmptyRaft}
  /\ queue = <<>> /\ qsynced = 0
  /\ current_snapshot = None
  /\ clog = <<>>
  /\ appended = {} /\ installs = 0 /\ crashes = 0 /\ torn = {}

-----------------------------------------------------------------------------
(* The databases after each write of a handler *)

At(r, q) == [raft |-> r, queue |-> q]

\* Mutation: the handler returns without a flush.
NotFlushed(steps) == raftdisk \cup {steps[i].raft : i \in DOMAIN steps}

\* db.flush() at the end of a handler.
Flushed(steps) == {steps[Len(steps)].raft}

Return(steps) ==
  /\ raft' = steps[Len(steps)].raft
  /\ queue' = steps[Len(steps)].queue
  /\ raftdisk' = Flushed(steps)
  /\ UNCHANGED <<qsynced, crashes>>

\* The process dies after one of the writes and RaftStore::open reads back what
\* is left.  recover_inflight, which open runs, executes no log entry.
Crash(steps) ==
  /\ crashes < MaxCrashes
  /\ \E s \in {At(r, queue) : r \in raftdisk} \cup {steps[i] : i \in DOMAIN steps} :
       \E n \in qsynced..Len(s.queue) :
         /\ raft' = s.raft /\ raftdisk' = {s.raft}
         /\ queue' = SubSeq(s.queue, 1, n) /\ qsynced' = n
  /\ current_snapshot' = None
  /\ crashes' = crashes + 1

-----------------------------------------------------------------------------
(* Reading the log *)

\* get_log_state: the last key of the log tree, else last_purged.
LastLogId(r) ==
  IF DOMAIN r.log = {} THEN r.last_purged
  ELSE CHOOSE k \in DOMAIN r.log : \A j \in DOMAIN r.log : j <= k

\* try_get_log_entries of the half-open range from a to b.
TryGetLogEntries(r, a, b) == {k \in DOMAIN r.log : a <= k /\ k < b}

Without(log, K) == [k \in DOMAIN log \ K |-> log[k]]

\* How many keys of K an iteration in ascending order yields before k.
Before(K, k) == Cardinality({j \in K : j < k})

\* The first n keys of K: sled's range iterates, and the loop removes, in
\* ascending order.
FirstKeys(K, n) == {k \in K : Before(K, k) < n}

\* The keys of K as they are iterated.
Ascending(K) == [n \in 1..Cardinality(K) |-> CHOOSE k \in K : Before(K, k) = n - 1]

\* external: the node's log agrees with the committed one up to index i.
Matches(i) ==
  \A k \in DOMAIN raft.log : k <= i /\ k <= Len(clog) => raft.log[k] = clog[k]

\* external: a crash after install_snapshot left a log that ends before
\* last_applied; openraft purges it before it does anything else.
Dirty == LastLogId(raft) < raft.last_applied

-----------------------------------------------------------------------------
(* The handlers *)

SaveVoteSteps(v) == <<At([raft EXCEPT !.vote = v], queue)>>

\* Mutation: the entries are stored under the next index.
AppendOffByOne(es) ==
  LET last == LastLogId(raft)
      Put(n) == [k \in DOMAIN raft.log \cup (last + 2)..(last + 1 + n) |->
                   IF k > last THEN es[k - last - 1] ELSE raft.log[k]]
  IN  [n \in 1..Len(es) |-> At([raft EXCEPT !.log = Put(n)], queue)]

AppendSteps(es) ==
  LET last == LastLogId(raft)
      Put(n) == [k \in DOMAIN raft.log \cup (last + 1)..(last + n) |->
                   IF k > last THEN es[k - last] ELSE raft.log[k]]
  IN  [n \in 1..Len(es) |-> At([raft EXCEPT !.log = Put(n)], queue)]

DeleteConflictSteps(since) ==
  LET K == {k \in DOMAIN raft.log : k >= since}
  IN  [n \in 1..Cardinality(K) |->
         At([raft EXCEPT !.log = Without(@, FirstKeys(K, n))], queue)]

\* Mutation: one key too many.
PurgeTooFar(upto) ==
  LET K == {k \in DOMAIN raft.log : k <= upto + 1}
  IN  <<At([raft EXCEPT !.log = Without(@, K), !.last_purged = upto], queue)>>

PurgeSteps(upto) ==
  LET K == {k \in DOMAIN raft.log : k <= upto}
      r(n) == [raft EXCEPT !.log = Without(@, FirstKeys(K, n))]
  IN  [n \in 1..(Cardinality(K) + 1) |->
         At(IF n <= Cardinality(K) THEN r(n) ELSE [r(n) EXCEPT !.last_purged = upto],
            queue)]

\* The entries from a to b of a log whose operations change the queues.
Operations(log, a, b) ==
  Ascending({i \in a..b : log[i].kind = "normal"})

\* The last membership entry of a log from a to b, or m if there is none.
LastMembership(log, a, b, m) ==
  LET M == {i \in a..b : log[i].kind = "membership"}
  IN  IF M = {} THEN m ELSE CHOOSE i \in M : \A j \in M : j <= i

\* Mutation: last_applied is recorded once, after the last entry.
ApplyRecordsOnce(upto) ==
  LET first == raft.last_applied + 1
  IN  [n \in 1..(upto + 2 - first) |->
         LET i == IF first + n - 1 > upto THEN upto ELSE first + n - 1
         IN  At([raft EXCEPT
                   !.last_membership = LastMembership(raft.log, first, i, @),
                   !.last_applied = IF n = upto + 2 - first THEN upto ELSE @],
                queue \o Operations(raft.log, first, i))]

\* apply_to_state_machine: for each entry, first the operation or the
\* membership, then last_applied.
ApplySteps(upto) ==
  LET first == raft.last_applied + 1
  IN  [n \in 1..(2 * (upto + 1 - first)) |->
         LET i == first + (n - 1) \div 2
         IN  At([raft EXCEPT
                   !.last_membership = LastMembership(raft.log, first, i, @),
                   !.last_applied = IF n % 2 = 1 THEN i - 1 ELSE i],
                queue \o Operations(raft.log, first, i))]

\* Mutation: last_applied is not recorded.
InstallForgetsApplied(s) ==
  [k \in 1..Len(s.queue) |-> At(raft, queue \o SubSeq(s.queue, 1, k))]
    \o <<At([raft EXCEPT !.last_membership = s.membership], queue \o s.queue)>>

\* install_snapshot: restore_from_snapshot adds the contents of the snapshot to
\* those of the manager, then last_applied and last_membership are recorded.
InstallSteps(s) ==
  LET n == Len(s.queue)
      q(k) == queue \o SubSeq(s.queue, 1, k)
      applied == [raft EXCEPT !.last_applied = s.last]
  IN  [k \in 1..n |-> At(raft, q(k))]
        \o <<At(applied, q(n)),
             At([applied EXCEPT !.last_membership = s.membership], q(n))>>

BuildSteps == <<At([raft EXCEPT !.snapshot_idx = @ + 1], queue)>>

-----------------------------------------------------------------------------
\* A handler returns, or the process crashes in it.  openraft saves only votes
\* that are greater than the current one.
SaveVote(v) ==
  /\ v > raft.vote
  /\ \/ Return(SaveVoteSteps(v)) /\ UNCHANGED current_snapshot
     \/ Crash(SaveVoteSteps(v))
  /\ UNCHANGED <<clog, appended, installs, torn>>

\* A leader sends entries that follow the node's last one.  As long as the logs
\* agree they may be committed ones; a leader of an older term sends others.
MayAppend(es) ==
  LET last == LastLogId(raft)
      Agree(n) == /\ Matches(last) /\ last + n <= Len(clog)
                  /\ \A k \in 1..n : es[k] = clog[last + k]
  IN  \A n \in 1..Len(es) :
        /\ last + n <= MaxIndex
        /\ last + n <= Len(clog) => Agree(n) \/ es[n].term < clog[last + n].term
        /\ n > 1 => es[n - 1].term <= es[n].term
        /\ last \in DOMAIN raft.log => raft.log[last].term <= es[n].term

AppendToLog(es) ==
  /\ ~Dirty
  /\ MayAppend(es)
  /\ \/ /\ Return(AppendSteps(es))
        /\ appended' = appended \cup
             {[index |-> LastLogId(raft) + n, entry |-> es[n]] : n \in 1..Len(es)}
        /\ UNCHANGED current_snapshot
     \/ Crash(AppendSteps(es)) /\ UNCHANGED appended
  /\ UNCHANGED <<clog, installs, torn>>

\* A leader of a later term overwrites entries that are not committed.
DeleteConflictLogsSince(since) ==
  /\ since \in DOMAIN raft.log /\ since > raft.last_applied
  /\ since <= Len(clog) => raft.log[since] # clog[since]
  /\ raft.log[since].term < MaxTerm
  /\ \/ Return(DeleteConflictSteps(since)) /\ UNCHANGED <<current_snapshot, torn>>
     \/ Crash(DeleteConflictSteps(since)) /\ torn' = torn \cup {"delete_conflict"}
  /\ appended' = {a \in appended : a.index < since}
  /\ UNCHANGED <<clog, installs>>

\* openraft purges what a snapshot covers.
PurgeLogsUpto(upto) ==
  /\ upto > raft.last_purged
  /\ \/ current_snapshot # None /\ upto <= current_snapshot.last
     \/ Dirty /\ upto = raft.last_applied
  /\ \/ Return(PurgeSteps(upto)) /\ UNCHANGED current_snapshot
     \/ Crash(PurgeSteps(upto))
  /\ UNCHANGED <<clog, appended, installs, torn>>

\* openraft reads committed entries and applies them; it needs all of them.
ApplyToStateMachine(upto) ==
  /\ ~Dirty
  /\ upto > raft.last_applied /\ upto <= Len(clog)
  /\ TryGetLogEntries(raft, raft.last_applied + 1, upto + 1)
       = (raft.last_applied + 1)..upto
  /\ Matches(upto)
  /\ \/ Return(ApplySteps(upto)) /\ UNCHANGED current_snapshot
     \/ Crash(ApplySteps(upto))
  /\ UNCHANGED <<clog, appended, installs, torn>>

\* The first build: the tree has no snapshot_idx record yet.  Every later build
\* panics before it writes: meta_set wrote snapshot_idx as JSON, and reading it
\* back takes the first eight bytes of a record that is shorter.
BuildSnapshot ==
  /\ raft.snapshot_idx = 0
  /\ \/ /\ Return(BuildSteps)
        /\ current_snapshot' = [last |-> raft.last_applied, queue |-> queue,
                                membership |-> raft.last_membership]
     \/ Crash(BuildSteps)
  /\ UNCHANGED <<clog, appended, installs, torn>>

\* A snapshot of the committed log up to i, built by a node that lost nothing.
LeaderSnapshot(i) ==
  [last |-> i, queue |-> Operations(clog, 1, i),
   membership |-> LastMembership(clog, 1, i, 0)]

\* openraft installs a snapshot that is ahead of the node, and has deleted a
\* conflicting entry before.
InstallSnapshot(i) ==
  /\ installs < MaxInstalls
  /\ i > raft.last_applied /\ i <= Len(clog)
  /\ i \in DOMAIN raft.log => raft.log[i] = clog[i]
  /\ \/ /\ Return(InstallSteps(LeaderSnapshot(i)))
        /\ current_snapshot' = LeaderSnapshot(i)
        /\ installs' = installs + 1
        /\ UNCHANGED torn
     \/ /\ Crash(InstallSteps(LeaderSnapshot(i)))
        /\ torn' = torn \cup {"install"}
        /\ UNCHANGED installs
  /\ UNCHANGED <<clog, appended>>

\* sled's flusher thread on the queue database.
Sync ==
  /\ qsynced # Len(queue)
  /\ qsynced' = Len(queue)
  /\ UNCHANGED <<raft, raftdisk, queue, current_snapshot, clog, appended, installs,
                 crashes, torn>>

\* The handlers that only read: try_get_log_entries, get_log_state, read_vote,
\* last_applied_state, get_current_snapshot; and a build that panics.
Read == UNCHANGED vars

\* A crash between two handlers.
Restart ==
  /\ Crash(<<>>)
  /\ UNCHANGED <<clog, appended, installs, torn>>

\* external: the cluster commits an entry, the node's own or one of a later term.
Commit(e) ==
  LET i == Len(clog) + 1
  IN  /\ i <= MaxIndex
      /\ i > 1 => clog[i - 1].term <= e.term
      /\ i \in DOMAIN raft.log =>
           (raft.log[i] = e /\ Matches(i - 1)) \/ raft.log[i].term < e.term
      /\ clog' = Append(clog, e)
      /\ UNCHANGED <<node, current_snapshot, appended, installs, crashes, torn>>

Batches == {<<e>> : e \in LogEntry} \cup {<<e, f>> : e, f \in LogEntry}

Next ==
  \/ \E v \in Votes : SaveVote(v)
  \/ \E es \in Batches : AppendToLog(es)
  \/ \E i \in 1..MaxIndex :
       \/ DeleteConflictLogsSince(i)
       \/ PurgeLogsUpto(i)
       \/ ApplyToStateMachine(i)
       \/ InstallSnapshot(i)
  \/ BuildSnapshot
  \/ Read
  \/ Sync
  \/ Restart
  \/ \E e \in LogEntry : Commit(e)

Spec == Init /\ [][Next]_vars
-----------------------------------------------------------------------------
(* Properties *)

Executed == {queue[k] : k \in DOMAIN queue}

TypeOK ==
  /\ raft \in raftdisk
  /\ \A r \in raftdisk :
       /\ DOMAIN r.log \subseteq 1..MaxIndex
       /\ \A i \in DOMAIN r.log : r.log[i] \in LogEntry
       /\ r.vote \in Votes \cup {0}
       /\ {r.last_applied, r.last_purged, r.last_membership} \subseteq 0..MaxIndex
       /\ r.snapshot_idx \in {0, 1}
  /\ Executed \subseteq 1..MaxIndex /\ qsynced \in 0..Len(queue)
  /\ current_snapshot # None => current_snapshot.last \in 0..MaxIndex
  /\ \A i \in DOMAIN clog : clog[i] \in LogEntry
  /\ appended \subseteq [index : 1..MaxIndex, entry : LogEntry]

\* What append_to_log promised is kept: an entry it returned for is still in the
\* log after any crash, also one inside a later append, purge or truncation,
\* unless a leader overwrote it or it was applied.
AppendedSurvive ==
  \A r \in raftdisk : \A a \in appended :
    \/ a.index <= r.last_applied
    \/ a.index \in DOMAIN r.log /\ r.log[a.index] = a.entry

VoteKept == raft'.vote >= raft.vote

\* A node never forgets a vote, so it cannot vote twice in a term after a crash.
VoteNeverBack == [][VoteKept]_vars

\* Neither purge nor a crash in it, nor a snapshot that is installed over a
\* shorter or longer log, opens a gap between what was applied and the end of
\* the log: every entry that is still to be applied is there.  Only a crash in
\* delete_conflict_logs_since opens one, since it removes the
\* entries in ascending order.
UnappliedInLog ==
  /\ raft.last_purged <= raft.last_applied
  /\ "delete_conflict" \notin torn =>
       (raft.last_applied + 1)..LastLogId(raft) \subseteq DOMAIN raft.log

\* The snapshot a node offers never claims more than the node has applied and
\* never less than it has purged, so a follower that needs a purged entry can
\* be served from it.
SnapshotBridgesPurge ==
  current_snapshot # None =>
    /\ current_snapshot.last <= raft.last_applied
    /\ raft.last_purged <= current_snapshot.last

\* As long as no snapshot is installed, operations are executed in log order.
\* A crash repeats at most the one entry that was executed and not yet recorded
\* in last_applied, never one before it.
ExecutedInOrder ==
  installs = 0 /\ "install" \notin torn =>
    /\ \A i, j \in DOMAIN queue : i < j => queue[i] <= queue[j]
    /\ \A i \in DOMAIN queue : queue[i] <= raft.last_applied + 1

-----------------------------------------------------------------------------
(* What the documentation says and the code does not do *)

\* "only after the operation has been applied to the state machine (committed
\* and executed), ensuring durability across node restarts": the queues of a
\* node contain every operation up to its last_applied.
AppliedSurvives ==
  \A i \in 1..raft.last_applied : clog[i].kind = "normal" => i \in Executed
=============================================================================
