SPECIFICATION Spec
CONSTANTS
    MaxTasks = 2
    MaxConcurrent = 2
    CircuitBreaker = 1
    Worktrees = {TRUE, FALSE}
    Verdicts = {"cancel"}
    Edits = {}
    Faults = {"crash", "survive"}
INVARIANT CancelledRunHasNoWorker
PROPERTY StartupStopsWorkers
\* The run may be over: nothing then has to happen any more.
CHECK_DEADLOCK FALSE
