SPECIFICATION Spec
CONSTANTS
    MaxTasks = 1
    MaxConcurrent = 1
    CircuitBreaker = 1
    Worktrees = {TRUE, FALSE}
    Verdicts = {"cancel", "reject"}
    Edits = {}
    Faults = {}
INVARIANT CancelLeavesNoWorker
\* The run may be over: nothing then has to happen any more.
CHECK_DEADLOCK FALSE
