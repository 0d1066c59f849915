CONSTANTS
    s1 = s1
    s2 = s2
    r1 = r1
    r2 = r2
    src = src
    Issues <- MCIssues
    Episodes = {1, 2}
    Sources = {src}
    Starts = {s1, s2}
    Reconcilers = {r1}
    RuntimeOf <- MCRuntimeOf
    ObservedStates = {"Todo"}
    MaxRevision = 2
    MaxRuns = 1
    MaxTime = 1
    WorkflowIds <- MCWorkflowIds
    Facts <- MCFacts
    Runs <- MCRuns
    Times <- MCTimes
    CloseStatuses = {"Completed"}
SPECIFICATION Spec
INVARIANTS
    OneExecutionPerActivation
    FailureIsTruthful
PROPERTIES
SYMMETRY MCSymmetry
CHECK_DEADLOCK FALSE
