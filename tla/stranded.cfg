SPECIFICATION Spec
CONSTANTS
    Client = {c1, c2, c3}
    Slot = {0}
    MaxTasks = 3
    Requests <- Stranding
    MaxResults = 1
    ContBatching = TRUE
    Hangups = FALSE
    Faults = FALSE
    Signals = FALSE
    None = None
    c1 = c1
    c2 = c2
    c3 = c3
CHECK_DEADLOCK FALSE
INVARIANTS
    NoneStranded
