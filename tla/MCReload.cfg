SPECIFICATION Spec
CONSTANTS
  Decoded <- MCDecoded
  Hash <- MCHash
  Extension <- MCExtension
  MaxPath = 4
  Kind <- MCKind
  Req = {r1, r2}
  Files <- MCFiles
  RawUris <- MCRawUris
  CommonCount = 2
  CgiEnvMax = 5
  MaxReloads = 2
  MaxRequests = 2
  MaxOptions = 1
INVARIANTS
  TypeOK
  CommonIntact
  NoLeakUnlessReloaded
  EnvCompleteUnlessReloaded
  FindsFirst
  FirstTypeWins
  CleanInside
  ScriptSplits
SYMMETRY ReqSymmetry
