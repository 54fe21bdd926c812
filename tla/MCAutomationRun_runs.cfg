SPECIFICATION Spec
CONSTANTS
    Schedules <- MCSchedules
    ExitStatus = {"completed"}
    MaxTime = 2
    MaxRuns = 2
    Grace = 0
    Retain = 1
    MaxUpdates = 1
    MaxCrashes = 1
    MaxFaults = 1

INVARIANTS TypeOK OccurrenceOnce OneAgent EarlyCancelStartsNothing ActiveRunIsExecuted WorktreeSettled
PROPERTIES VerdictStands RunEnds DueIsClaimed
CHECK_DEADLOCK FALSE
