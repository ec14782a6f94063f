SPECIFICATION Spec
CONSTANTS
  BitsPerCell = 8
  Characters <- TwoCharacters
  OverflowWraps = TRUE
INVARIANTS
  ArithmeticExact
  PredicatesSound
