SPECIFICATION Spec
CONSTANTS
  DigitLimit = 6
  ExponentWidth = 6
  Families <- MCFamilies
INVARIANTS
  RecognizesTheGrammar
  ValueIsDenoted
CHECK_DEADLOCK FALSE
