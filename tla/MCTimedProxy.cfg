SPECIFICATION TimedSpec
CONSTANTS
  Conn = {c1, c2}
  Reader = {c1, c2}
  Writer = {c1}
  Host = {h1}
  Target <- ThreeTargets
  Uncached <- NoObject
  Slow = {c2}
  MaxVersion = 1
  EmptyVersion <- FirstVersionEmpty
  EmptyData = empty
  CutData = cut
  NilData = nildata
  NoKey = nokey
  NoObj = noobj
  Absent = absent
INVARIANTS
  StatsTypeOK
  ServedIsGenuine
  TrafficAccounted
PROPERTIES
  EventuallyAnswered
  FetcherEnds
CHECK_DEADLOCK FALSE
