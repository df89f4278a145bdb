SPECIFICATION Spec
CONSTANTS
  DigitLimit = 2
  ExponentWidth = 5
  Keywords <- MCKeywords
  Sources <- CommentTexts
INVARIANT ParserFindsStart
