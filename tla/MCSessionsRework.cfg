SPECIFICATION Spec
CONSTANTS
  Backends = {"codex"}
  ActiveStates = {"Todo", "Rework"}
  MaxTurns = 2
  ShownScreens = {"limit", "quiet"}
  MaxRuns = 2
  MaxFaults = 1
  MaxEdits = 1
PROPERTIES ReworkIsWorked
CHECK_DEADLOCK FALSE
