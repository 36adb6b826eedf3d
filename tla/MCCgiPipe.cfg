SPECIFICATION Spec
CONSTANTS
  BufferSize = 6
  Window = 3
  PageLen = 2
  Scripts <- MCScripts
INVARIANTS
  TypeOK
  InOrderUnlessShort
  WholeUnlessCut
PROPERTIES
  EndsOnceChildEnds
  PassedOnUnlessStuck
