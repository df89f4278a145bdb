SPECIFICATION Spec
CONSTANTS
  IntBits = 4
  WordBits = 8
  Programs <- SyntaxErrors
INVARIANT NeverAborts
