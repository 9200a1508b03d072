SPECIFICATION Spec
CONSTANTS
  ClientSock = {c1, c2, c3}
  ProxySock = {x1}
  Addr = {a1}
  Port = {p1, p2}
  StorageDst = {d1, d2}
  OtherDst = {proxy}
  ProxyEndpoint = proxy
  ZeroEndpoint = zero
  NoDst = nodst
  NoSock = nosock
  NoPort = noport
  NoAddr = noaddr
  MAX_CONNECTIONS = 2
  EarlyClose = FALSE
  SlotReuse = FALSE
SYMMETRY Symmetry
INVARIANTS
  TypeOK
  AnsweredIsOriginal
  PendingResolvable
  NoSelfProxy
  RecordedLeavesNothing
PROPERTIES
  ImplementsOriginalDst
