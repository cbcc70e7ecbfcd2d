SPECIFICATION Spec
CONSTANTS
    Proc = {p1}
    Ops = {"create", "cancel", "update", "check", "list"}
    Names = {"ann", "bob"}
    Dates <- MCDates
    Times <- MCTimes
    PartySizes = {1, 2}
    Patches <- SomePatches
    AvailQueries <- Queries
    ListQueries <- Lists
    TotalSeats = 2
    SlotDuration = 720
    ReservationDuration = 720
    Precision = 13
    FractionBits = 17
    Faults = FALSE
    MaxRows = 2
    None = None
    p1 = p1
PROPERTIES
    ReadsAreCurrent
    ImplementsReservationBook
INVARIANTS
    TypeOK
