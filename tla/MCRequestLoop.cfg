SPECIFICATION Spec
CONSTANTS
  Req = {r1, r2, r3}
  MaxConnections = 1
  KaMax = 1
  MaxWork = 1
  KaTimeout = 1
  RequestTimeout = 0
SYMMETRY ReqSymmetry
INVARIANTS
  TypeOK
  ConnectionAccounting
  WatchedExactly
  DescriptorsOwned
PROPERTIES
  LameDuck
  ImplementsTable
