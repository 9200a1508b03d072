SPECIFICATION MemSpec
CONSTANTS
  Caller = {g1, g2, g3}
  Key = {k1, short, nothing}
  ValidKey = {k1}
  EmptyKey = nothing
  Data = {d1, empty}
  EmptyData = empty
  NilData = nildata
  NoKey = nokey
  NoObj = noobj
  Absent = absent
SYMMETRY Symmetry
INVARIANT
  MemTypeOK
PROPERTIES
  ImplementsCache
CHECK_DEADLOCK FALSE
