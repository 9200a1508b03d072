SPECIFICATION FairSpec
CONSTANTS
  Conn = {c1, c2, c3}
  Worker = {w1, w2}
  QueueCap = 1
  DoneCap = 1
  Stalled = {c1}
  NoConn = noconn
INVARIANTS
  TypeOK
  EachConnOnce
  GaugeExact
  ReadersBalance
PROPERTY
  EventuallyCollected
CHECK_DEADLOCK FALSE
