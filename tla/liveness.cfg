SPECIFICATION FairSpec
CONSTANTS
    Proc = {p1, p2}
    Ops = {"create", "cancel", "update", "check", "list"}
    Names = {"ann"}
    Dates <- MCDates
    Times <- MCTimes
    PartySizes = {1}
    Patches <- ToNoon
    AvailQueries <- OneTime
    ListQueries <- AllRows
    TotalSeats = 1
    SlotDuration = 720
    ReservationDuration = 720
    Precision = 13
    FractionBits = 17
    Faults = TRUE
    MaxRows = 1
    None = None
    p1 = p1
    p2 = p2
INVARIANTS
    StaleExplained
PROPERTIES
    CancelIsFinal
    EveryCallEnds
    EventuallyFresh
