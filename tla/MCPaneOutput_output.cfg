SPECIFICATION Spec
CONSTANTS
    MaxSeq = 2
    MaxLife = 1
    MaxMoves = 1
    Generations = {1}
    QueueLen = 1
    PendingLen = 2
INVARIANTS TypeOK EveryByteOnce NothingMissedSilently
PROPERTY ComesToRest
