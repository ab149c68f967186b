---------------------------- MODULE MCQueueManager ----------------------------
(***************************************************************************)
(* Instances of QueueManager and SoloDaemon for TLC: the values of their   *)
(* constants.                                                              *)
(***************************************************************************)
EXTENDS SoloDaemon, QueueContract

Policy(age, msgs, attempts, window) ==
  [max_age_secs |-> age, max_messages |-> msgs,
   max_delivery_attempts |-> attempts, dedup_window_secs |-> window]

\* Queues that dead-letter after two nacks.
MCNackPolicies == {Policy(None, None, 2, None)}

\* Queues that expire by age and by count and deduplicate for a second, and
\* queues with a dedup window of none.
MCRetentionPolicies == {Policy(1, 1, None, 1), Policy(None, None, None, 0)}

\* Queues that only deduplicate.
MCDedupPolicies == {Policy(None, None, None, 1)}

MCPlainPolicies == {Policy(None, None, None, None)}

MCImmediate == {None}

MCScheduled == {None, 1, 2}

MCOneScheduled == {None, 1}

=============================================================================
