CONSTANTS
  Issues = {1}
  Workers = {"w1", "w2"}
  Recovering = {"w2"}
  Owners = {"nobody", "departed", "operator"}
  FirstFaces <- AllFaces
  Faces <- FewFaces
  Worktrees <- AnyWorktree
  OperatorStates = {"Merging", "Rework"}
  MaxMoves = 1
  MaxChanges = 1
  MaxFaults = 2
  MaxUnread = 1
SPECIFICATION MCSpec
CHECK_DEADLOCK FALSE
INVARIANTS
  DoneMeansLanded
  EvidencePrecedesRouting
PROPERTIES
  WorktreeIsReleased
  HeadIsDecided
