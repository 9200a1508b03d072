SPECIFICATION Spec
CONSTANTS
  Conn = {c1, c2, c3}
  Reader = {c1, c2, c3}
  Writer = {c1, c2, c3}
  Host = {h1}
  Target <- OneTarget
  Uncached = {}
  MaxVersion = 1
  EmptyVersion <- FirstVersionEmpty
  EmptyData = empty
  CutData = cut
  NilData = nildata
  NoKey = nokey
  NoObj = noobj
  Absent = absent
INVARIANT
  HitIsServable
CHECK_DEADLOCK FALSE
