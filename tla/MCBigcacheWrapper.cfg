SPECIFICATION CacheSpec
CONSTANTS
  Caller = {g1, g2, g3}
  Key = {k1, k2}
  Data = {d1, empty}
  EmptyData = empty
  NilData = nildata
  NoKey = nokey
  NoObj = noobj
  Absent = absent
SYMMETRY Symmetry
INVARIANTS
  CacheTypeOK
  GetReturnsMade
PROPERTIES
  ImplementsCache
CHECK_DEADLOCK FALSE
