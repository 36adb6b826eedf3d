SPECIFICATION Spec
CONSTANTS
  Req = {r1, r2, r3}
  MaxConnections = 1
  MaxSignals = 1
SYMMETRY ReqSymmetry
INVARIANTS
  TypeOK
  PolledUnlessDropped
PROPERTIES
  WokenByOwnEvent
  ImplementsTable
