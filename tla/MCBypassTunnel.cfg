SPECIFICATION FairSpec
CONSTANT
  MaxChunks = 3
INVARIANTS
  TypeOK
  AllForwarded
  LeftBehind
PROPERTY
  EventuallyEnds
CHECK_DEADLOCK FALSE
