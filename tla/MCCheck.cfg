SPECIFICATION Spec
CONSTANTS
  IntBits = 4
  WordBits = 8
  Programs <- MCPrograms
INVARIANTS
  NeverAborts
  TypesAreCanonical
  NoSilentErrors
  WellTyped
  BlocksAreClosed
  NodesAreInOnePlace
  OperandsDominateUses
  PhisMatchPredecessors
PROPERTY ScopesAreLexical
