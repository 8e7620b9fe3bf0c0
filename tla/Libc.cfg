SPECIFICATION LibcSpec
CONSTANTS
  LONG_MAX = 127
  IntBits = 8
  LongLong = 16
  WordBits = 4
  Memories <- FourBytes
  Texts <- FiveLetters
  Needles <- ThreeLetters
  Formats <- Conversions
  Values <- Numbers
  Addresses <- ThreeOctets
INVARIANTS
  CopiesWhole
  ComparesTexts
  
  ArithmeticExact
