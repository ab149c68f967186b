SPECIFICATION SnapSpec
CONSTANTS
  None = None
  Queues = {q1}
  Policies <- MCNackPolicies
  DedupKeys = {}
  MsPerSec = 2
  MsgLen = 2
  DedupLen = 1
  MaxBytes = None
  Priorities = {0, 9}
  DeliverAts <- MCImmediate
  ClientStamps = {}
  MaxTime = 0
  MaxPublished = 2
  MaxId = 4
  MaxCrashes = 0
  MaxUnsynced = 2
  MaxFailovers = 1
INVARIANTS
  TagNamesOneMessage
