SPECIFICATION FairSpec
CONSTANTS
  Conns = {k1, k2, k3}
  IPs = {i1, i2}
  Channels = {s1}
  MaxSessions = 2
  MaxIP = 1
  NoIP = NoIP
INVARIANTS
  TypeOK
  SlotsExact
PROPERTIES
  SlotReturned
  LoopNotWedged
CHECK_DEADLOCK FALSE
