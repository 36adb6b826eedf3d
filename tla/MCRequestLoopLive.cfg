SPECIFICATION FairSpec
CONSTANTS
  Req = {r1}
  MaxConnections = 1
  KaMax = 1
  MaxWork = 1
  KaTimeout = 1
  RequestTimeout = 1
PROPERTIES
  ShutdownCompletes
  EveryConnectionEnds
