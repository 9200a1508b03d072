SPECIFICATION Spec
CONSTANTS
  Address <- SomeAddress
  Port <- SomePorts
  PROXY_PORT = 18000
INVARIANTS
  TypeOK
  OnlyStorageRedirected
  RedirectedToProxyPort
  OriginalSurvives
  KeyIsFound
CHECK_DEADLOCK FALSE
