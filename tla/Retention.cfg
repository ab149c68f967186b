SPECIFICATION Spec
CONSTANTS
  None = None
  Queues = {q1}
  Policies <- MCRetentionPolicies
  DedupKeys = {k1}
  MsPerSec = 2
  MsgLen = 2
  DedupLen = 1
  MaxBytes = 5
  Priorities = {0}
  DeliverAts <- MCImmediate
  ClientStamps = {0}
  MaxTime = 2
  MaxPublished = 3
  MaxId = 3
  MaxCrashes = 1
  MaxUnsynced = 2
INVARIANTS
  DedupBacked
  DedupWindow
  BytesTracked
PROPERTIES
  LimitRespected
  RetentionExact
