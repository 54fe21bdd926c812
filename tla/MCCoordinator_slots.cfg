SPECIFICATION Spec
CONSTANTS
    MaxTasks = 2
    MaxAttempts = 2
    MaxGates = 0
    MaxConcurrent = 1
    CircuitBreaker = 2
    Resumable = FALSE
    Claims = {TRUE}
    Worktrees = {FALSE}
    GateTypes = {}
INVARIANTS TypeOK ConcurrencyCap BreakerTripsOnTime
PROPERTIES ImplementsSlots
