SPECIFICATION Spec
CONSTANTS
  Streams <- MCStreams
  ClientStreamSize = 9
  BufferSize = 2
  MaxHeaderLength = 4
  SinglePostLimit = 3
  KaMax = 2
INVARIANTS
  TypeOK
  HeaderInOrder
  HeaderBytesOnly
  BodyExact
PROPERTIES
  AnsweredUnlessHeld
