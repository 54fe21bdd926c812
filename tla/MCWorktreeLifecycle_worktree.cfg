SPECIFICATION Spec
CONSTANTS
    Ops = {"create", "move", "remove"}
    Kind <- MCKind
    Paths = {"p1", "p2"}
    Home = "p1"
    MaxScans = 2
    MaxTrouble = 1
INVARIANTS TypeOK RolledBack SessionHasWorktree MovedTogether
CHECK_DEADLOCK FALSE
