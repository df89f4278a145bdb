SPECIFICATION Spec
CONSTANTS
  Descriptions <- MCDriverDescriptions
  CommandLines <- MCCommandLines
  AsInteger <- MCAsInteger
  InvalidNames = {"no-all"}
  InvalidShortNames = {"br"}
  NoValue = NoValue
  NoAction = NoAction
  Unset = Unset
  Corrupt = Corrupt
  Refused = Refused
INVARIANT RequiredArgumentsAreGiven
