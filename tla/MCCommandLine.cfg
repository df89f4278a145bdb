SPECIFICATION Spec
CONSTANTS
  Descriptions <- MCDescriptions
  CommandLines <- MCCommandLines
  AsInteger <- MCAsInteger
  InvalidNames = {"no-all"}
  InvalidShortNames = {"br"}
  NoValue = NoValue
  NoAction = NoAction
  Unset = Unset
  Corrupt = Corrupt
  Refused = Refused
INVARIANTS
  OptionsKeepLastValue
  PositionalsAreKept
  OneOutcome
  BuiltCommandsParse
