SPECIFICATION Spec
CONSTANTS
  None = None
  Queues = {q1}
  Policies <- MCNackPolicies
  DedupKeys = {}
  MsPerSec = 2
  MsgLen = 2
  DedupLen = 1
  MaxBytes = None
  Priorities = {0, 9}
  DeliverAts <- MCOneScheduled
  ClientStamps = {}
  MaxTime = 1
  MaxPublished = 2
  MaxId = 5
  MaxCrashes = 1
  MaxUnsynced = 1
INVARIANTS
  TypeOK
  NoLossOnceSynced
  TagNamesOneMessage
  
  BytesTracked
  NeverEarly
PROPERTIES
  OnlyRestartDuplicates
  PriorityThenFifo
  ImplementsContract
