SPECIFICATION SnapSpec
CONSTANTS
  None = None
  Queues = {q1}
  Policies <- MCNackPolicies
  DedupKeys = {}
  MsPerSec = 2
  MsgLen = 2
  DedupLen = 1
  MaxBytes = None
  Priorities = {0, 9}
  DeliverAts <- MCOneScheduled
  ClientStamps = {}
  MaxTime = 1
  MaxPublished = 2
  MaxId = 3
  MaxCrashes = 1
  MaxUnsynced = 1
  MaxFailovers = 1
INVARIANTS
  
  NeverEarly
PROPERTIES
  RestoredWhole
  OnlyRestartDuplicates
  PriorityThenFifo
