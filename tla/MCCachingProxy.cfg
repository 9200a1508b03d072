SPECIFICATION Spec
CONSTANTS
  Conn = {c1, c2, c3}
  Reader = {c1, c2}
  Writer = {c3}
  Host = {h1}
  Target <- OneTarget
  Uncached = {}
  MaxVersion = 1
  EmptyVersion <- FirstVersionEmpty
  EmptyData = empty
  CutData = cut
  NilData = nildata
  NoKey = nokey
  NoObj = noobj
  Absent = absent
SYMMETRY Symmetry
INVARIANTS
  TypeOK
  ServedIsGenuine
  OneAnswer
  SentOnce
  NothingLeft
  FreshUnlessHit
CHECK_DEADLOCK FALSE
