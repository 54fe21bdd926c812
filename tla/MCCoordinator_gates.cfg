SPECIFICATION Spec
CONSTANTS
    MaxTasks = 1
    MaxAttempts = 1
    MaxGates = 3
    MaxConcurrent = 1
    CircuitBreaker = 2
    Resumable = TRUE
    Claims = {FALSE}
    Worktrees = {TRUE}
    GateTypes = {"decision", "merge", "cleanup"}
INVARIANTS TerminalRunHasNoPendingGate CancelledRunIsQuiet RemovalWasApproved
PROPERTIES VerdictIsFinal
