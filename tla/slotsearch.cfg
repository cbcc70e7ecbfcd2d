SPECIFICATION Spec
CONSTANTS
    SlotDurations = {360}
    ReservationDurations = {360, 540, 720}
    Times <- MCTimes
    PartySizes = {1, 2}
    TotalSeats = 2
    Precision = 13
    FractionBits = 17
    Grains = 8
    Horizon = 6480
    MaxRows = 3
CHECK_DEADLOCK FALSE
INVARIANTS
    SeatsAreGuests
    SuggestionsBookable
    RefusalIsTrue
    RangeAgreesWithTime
