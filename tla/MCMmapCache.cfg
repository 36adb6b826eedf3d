SPECIFICATION Spec
CONSTANTS
  Req = {r1, r2, r3, r4}
  File <- MCFile
  ListSize = 4
  UseMax = 2
SYMMETRY ReqSymmetry
INVARIANTS
  CountsHolders
  CountsEntries
  HoldsItsFile
