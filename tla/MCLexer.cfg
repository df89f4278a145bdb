SPECIFICATION Spec
CONSTANTS
  DigitLimit = 2
  ExponentWidth = 5
  Keywords <- MCKeywords
  Sources <- MCSources
INVARIANTS
  BufferIsWellFormed
  GroupInvariant
  TokensReadBack
  DiagnosticsAreRight
PROPERTY LexingEnds
