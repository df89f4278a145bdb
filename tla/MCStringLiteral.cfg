SPECIFICATION Spec
CONSTANTS
  DigitLimit = 6
  ExponentWidth = 6
  Literals <- MCLiterals
  Values <- MCValues
INVARIANTS
  ScannerAndExpanderAgree
  LinesAreTrimmed
PROPERTY ValueIsComputed
CHECK_DEADLOCK FALSE
