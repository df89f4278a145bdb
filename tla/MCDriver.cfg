SPECIFICATION Spec
CONSTANTS
  Files = 2
  InputNames <- MCInputNames
  Options <- MCOptions
  Reports <- MCReports
INVARIANTS
  ChecksHold
  DiagnosticsArePrinted
  DumpsFollowDiagnostics
  FailureIsExplained
  NoCodeFromErrors
  PhasesAreComplete
  CodeIsDelivered
