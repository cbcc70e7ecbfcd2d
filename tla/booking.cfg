SPECIFICATION Spec
CONSTANTS
    Proc = {p1, p2}
    Ops = {"create", "cancel"}
    Names = {"ann", "bob"}
    Dates <- MCDates
    Times <- MCTimes
    PartySizes = {1, 2}
    Patches <- NoPatches
    AvailQueries <- NoQueries
    ListQueries <- NoQueries
    TotalSeats = 2
    SlotDuration = 720
    ReservationDuration = 1440
    Precision = 13
    FractionBits = 17
    Faults = TRUE
    MaxRows = 3
    None = None
    p1 = p1
    p2 = p2
SYMMETRY Symmetry
INVARIANTS
    ReferencesResolve
    OverbookingBound
PROPERTIES
    ImplementsReservationBook
