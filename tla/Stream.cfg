SPECIFICATION Spec
CONSTANTS
  Streams = {s1}
  Q = Q
  ChannelCap = 1
  InboundCap = 1
  MaxMessages = 3
  MaxChatter = 2
  MaxOpens = 2
  MaxRenewals = 1
INVARIANTS
  TypeOK
  Accounted
  SettledWasAcked
PROPERTIES
  OpenStreamDelivers
  HangUpEndsTask
CHECK_DEADLOCK FALSE
