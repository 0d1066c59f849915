CONSTANTS
    s1 = s1
    s2 = s2
    r1 = r1
    r2 = r2
    src = src
    Issues <- MCIssues
    Episodes = {1}
    Sources = {src}
    Starts = {s1}
    Reconcilers = {r1, r2}
    RuntimeOf <- MCRuntimeOf
    ObservedStates = {"Todo", "HumanReview"}
    MaxRevision = 1
    MaxRuns = 3
    MaxTime = 3
    WorkflowIds <- MCWorkflowIds
    Facts <- MCFacts
    Runs <- MCRuns
    Times <- MCTimes
    CloseStatuses = {"Completed", "Failed"}
SPECIFICATION Spec
INVARIANTS
    TerminalRowMeansClosedChain
PROPERTIES
    FreshEvidenceIsApplied
    ImplementsExecutionView
SYMMETRY MCSymmetry
CHECK_DEADLOCK FALSE
