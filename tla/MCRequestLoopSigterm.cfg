SPECIFICATION FairSpec
CONSTANTS
  Req = {r1}
  MaxConnections = 1
  KaMax = 0
  MaxWork = 0
  KaTimeout = 1
  RequestTimeout = 0
PROPERTY SigtermIsHandled
