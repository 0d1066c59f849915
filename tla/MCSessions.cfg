SPECIFICATION Spec
CONSTANTS
  Backends = {"codex", "claude", "tmux", "subprocess"}
  ActiveStates = {"Todo", "Rework"}
  MaxTurns = 2
  ShownScreens = {"limit", "quiet"}
  MaxRuns = 2
  MaxFaults = 1
  MaxEdits = 1
INVARIANTS AgentsAreAccounted
PROPERTIES CompletedIsEarned WorkIsDelivered HandedOffIsForgotten
CHECK_DEADLOCK FALSE
