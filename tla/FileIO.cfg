SPECIFICATION Spec
CONSTANTS
    Handles <- MCHandles
    Cells = {1}
    MaxSize = 3
    MaxCommits = 2
    MaxOpens = 2
    MaxEdits = 1
    MaxInterrupts = 1
    BUGGY_READ_MAXIMUM = 2
INVARIANTS
    TransfersWhole
    FaultNeedsCommit
    FailureHasErrno
    ClosesOnlyItsOwn
    NothingLeft
PROPERTIES
    CallsReturn
CHECK_DEADLOCK FALSE
