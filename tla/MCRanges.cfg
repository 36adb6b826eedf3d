SPECIFICATION Spec
CONSTANTS
  LongMod = 32
  UIntMax = 7
  Digits = {0, 3, 7}
  Sizes = {1, 6, 12}
  MaxChars = 7
INVARIANTS
  TypeOK
  InsideFile
  SendsWhatIsAsked
