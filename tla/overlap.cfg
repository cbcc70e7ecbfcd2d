SPECIFICATION Spec
CONSTANTS
    Proc = {p1}
    Ops = {"create"}
    Names = {"ann"}
    Dates <- MCDates
    Times <- MCTimes
    PartySizes = {1}
    Patches <- NoPatches
    AvailQueries <- NoQueries
    ListQueries <- NoQueries
    TotalSeats = 1
    SlotDuration = 720
    ReservationDuration = 1440
    Precision = 13
    FractionBits = 17
    Faults = FALSE
    MaxRows = 2
    None = None
    p1 = p1
INVARIANTS
    SeatsSuffice
