--------------------------- MODULE MCQueueSnapshot ---------------------------
(***************************************************************************)
(* QueueSnapshot for TLC, with the constants of MCQueueManager.            *)
(***************************************************************************)
EXTENDS MCQueueManager, QueueSnapshot
=============================================================================
