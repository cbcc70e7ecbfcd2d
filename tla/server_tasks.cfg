SPECIFICATION Spec
CONSTANTS
    Client = {c1, c2}
    Slot = {0, 1}
    MaxTasks = 3
    Requests <- AnyRequest
    MaxResults = 2
    ContBatching = FALSE
    Hangups = TRUE
    Faults = TRUE
    Signals = TRUE
    None = None
    c1 = c1
    c2 = c2
SYMMETRY Symmetry
CHECK_DEADLOCK FALSE
INVARIANTS
    TypeOK
    OneSlotPerTask
    NothingLost
    OneFinalPerTask
    LoopAwake
