SPECIFICATION Spec
CONSTANTS
    MaxSeq = 2
    MaxLife = 1
    MaxMoves = 0
    Generations = {1, 2}
    QueueLen = 1
    PendingLen = 2
PROPERTY ReplayHeals
CHECK_DEADLOCK FALSE
