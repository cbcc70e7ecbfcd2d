SPECIFICATION FairSpec
CONSTANTS
    Client = {c1, c2}
    Slot = {0}
    MaxTasks = 3
    Requests <- GoodRequest
    MaxResults = 1
    ContBatching = TRUE
    Hangups = TRUE
    Faults = FALSE
    Signals = FALSE
    None = None
    c1 = c1
    c2 = c2
CHECK_DEADLOCK FALSE
INVARIANTS
    NoneStranded
PROPERTIES
    NothingLeaks
    EveryRequestAnswered
