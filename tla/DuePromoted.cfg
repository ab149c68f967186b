SPECIFICATION DaemonSpec
CONSTANTS
  None = None
  Queues = {q1}
  Policies <- MCPlainPolicies
  DedupKeys = {}
  MsPerSec = 2
  MsgLen = 2
  DedupLen = 1
  MaxBytes = None
  Priorities = {0}
  DeliverAts <- MCScheduled
  ClientStamps = {}
  MaxTime = 1
  MaxPublished = 1
  MaxId = 2
  MaxCrashes = 0
  MaxUnsynced = 1
PROPERTIES
  DueIsPromoted
