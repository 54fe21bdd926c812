SPECIFICATION Spec
CONSTANTS
    MaxTasks = 1
    MaxConcurrent = 1
    CircuitBreaker = 1
    Worktrees = {TRUE, FALSE}
    Verdicts = {"cancel", "reject"}
    Edits = {1}
    Faults = {"crash", "survive"}
INVARIANTS
    TypeOK
    OneWorkerPerDispatch
    FinishedLaunchLeavesNoPending
PROPERTY LostWorkerIsNoticed
\* The run may be over: nothing then has to happen any more.
CHECK_DEADLOCK FALSE
