SPECIFICATION Spec
CONSTANTS
    MaxTasks = 2
    MaxAttempts = 2
    MaxGates = 0
    MaxConcurrent = 2
    CircuitBreaker = 2
    Resumable = FALSE
    Claims = {TRUE}
    Worktrees = {FALSE}
    GateTypes = {}
INVARIANTS AttemptsDoNotOverlap FinishedRunIsDone AgentFollowsDispatch DependencyOrder
