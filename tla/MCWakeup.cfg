SPECIFICATION FairSpec
CONSTANTS
  Games = {g1, g2}
  SockBuf = 1
  NetioRead = 1
  ServiceRead = 1
  MaxPush = 1
  MaxMessages = 3
INVARIANTS
  NoLostWakeup
  EventsHaveBytes
PROPERTIES
  AllServed
CHECK_DEADLOCK FALSE
