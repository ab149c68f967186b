SPECIFICATION Spec
CONSTANTS
  Queues = {q1}
  Conns = {c1, c2}
  ChannelCap = 1
  PkidMod = 2
  MaxMessages = 3
  MaxWire = 1
  MaxConnects = 2
  MaxRestarts = 1
INVARIANTS
  TypeOK
  
  AckedWasProcessed

  
CHECK_DEADLOCK FALSE
