SPECIFICATION Spec
CONSTANTS
  Queues = {q}
  Q = q
  Policies <- MCNoDedup
  DedupKeys = {}
  None = None
  MsPerSec = 1
  MsgLen = 1
  DedupLen = 1
  Nodes = {1, 2}
  PublishSizes = {1}
  ConsumeSizes = {1}
  IdGap = 20
  MaxLog = 6
  MaxUids = 2
  MaxPending = 1
  MaxLag = 6
  MaxFaults = 2
  MaxTime = 0
INVARIANTS
  ReplicatedEverywhere
CHECK_DEADLOCK FALSE
