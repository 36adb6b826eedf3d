SPECIFICATION Spec
CONSTANTS
  Streams <- MCStreams
  ClientStreamSize = 9
  BufferSize = 2
  MaxHeaderLength = 4
  SinglePostLimit = 3
  KaMax = 2
PROPERTIES
  PipelinedIsAnswered
