SPECIFICATION Spec
CONSTANTS
  Clients = {c1, c2}
  c1 = c1
  c2 = c2
  textA = textA
  textB = textB
  NoHeading = NoHeading
  NoText = NoText
  NoBlock = NoBlock
  Begins <- MCBegins
  PageSize = 6
  GateMode = "required"
  Commands <- MCCommands
  Budgets <- MCBudgets
INVARIANTS
  DispatchableIsComplete
  OneItemPerTitle
  OnlyRacesLoseText
PROPERTIES
  RepairIsComplete
CHECK_DEADLOCK FALSE
