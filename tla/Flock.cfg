SPECIFICATION Spec
CONSTANTS
  Queues = {q}
  Q = q
  Policies <- MCPolicies
  DedupKeys = {k}
  None = None
  MsPerSec = 2
  MsgLen = 1
  DedupLen = 1
  Nodes = {1, 2}
  PublishSizes = {1, 2}
  ConsumeSizes = {2}
  IdGap = 20
  MaxLog = 6
  MaxUids = 2
  MaxPending = 1
  MaxLag = 1
  MaxFaults = 2
  MaxTime = 1
INVARIANTS
  TypeOK
  
  
  
CHECK_DEADLOCK FALSE
