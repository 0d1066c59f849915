SPECIFICATION MCSpec
CONSTANTS
  i1 = i1
  i2 = i2
  w1 = w1
  w2 = w2
  w3 = w3
  Issues = {i1, i2}
  Workers = {w1, w2, w3}
  Recovering = {w1, w2}
  ActiveStates <- ShippedActiveStates
  MaxConcurrent = 1
  MaxTurns = 2
  Dirty = {i2}
  Unreadable = {i1}
  FirstStates = {"Todo", "Done"}
  OperatorStates = {"Todo"}
  MaxMoves = 1
  MaxFaults = 1
  MaxPauses = 1
  MaxUnread = 1
INVARIANTS StoredFitsCapacity AttemptsAreBounded
PROPERTIES RetryIsDeferred InProgressEnds
