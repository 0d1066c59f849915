CONSTANTS
    Runs <- MCRuns
    Worlds <- MCWorlds
    CliOptions <- MCCliOptions
    AppOptions <- MCAppOptions
    MaxQueue = 1
    Budgets <- MCBudgets
    Issues = {"i1"}
    Configs = {"c1", "c2"}
SPECIFICATION Spec
CHECK_DEADLOCK FALSE
INVARIANTS LanesStartClear SecondLoopMeansLost ConfirmedIsPreviewed
PROPERTIES StoppedRunEnds
