SPECIFICATION Spec
CONSTANTS
  Procs = {p1, p2}
  Backend = "agy-cli"
  Native = FALSE
  Answers <- MCAnswers
  OperatorStates = {"Rework"}
  MaxRuns = 2
  MaxEdits = 1
  MaxRefusals = 1
  MaxRecoveries = 1
  MaxFaults = 1
INVARIANTS
  OneLiveReviewer
  PassIsEarned
PROPERTIES
  CompleteMeansPublished
  LockIsReleased
CHECK_DEADLOCK FALSE
