SPECIFICATION Spec
CONSTANTS
  BufferSize = 6
  Spare = 2
  SystemBuf = 2
  HeaderLen = 2
  PartLen = 1
  RangeLists <- MCRangeLists
INVARIANTS
  TypeOK
  InOrderUnlessShort
  WholeUnlessCut
  SentOnce
