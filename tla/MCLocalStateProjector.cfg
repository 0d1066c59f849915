CONSTANTS
    w1 = w1
    w2 = w2
    r1 = r1
    r2 = r2
    WorkflowIds = {w1, w2}
    Facts <- MCFacts
    Runs = {r1, r2}
    Times <- MCTimes
    CloseStatuses = {"Completed", "Cancelled", "Failed"}
SPECIFICATION ProjectorSpec
INVARIANTS
    OneActivePerIssue
PROPERTIES
    RowsOnlyAdvance
    ReplayIsIdempotent
SYMMETRY MCSymmetry
