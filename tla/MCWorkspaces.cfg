CONSTANTS
  Procs <- MCProcs
  MaxBase = 2
  Cases <- MCCases
  MaxTurns = 2
  MaxWork = 4
  MaxFaults = 1
  MaxEdits = 2
SPECIFICATION Spec
CHECK_DEADLOCK FALSE
PROPERTIES HandedOverIsVerified ForeignBranchIsSafe FreshStart InProgressEnds
