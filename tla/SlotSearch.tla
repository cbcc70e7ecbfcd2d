------------------------------ MODULE SlotSearch ------------------------------
(***************************************************************************)
(* One day's table and the three ways the service asks it for room:        *)
(* createReservation's test (isSlotAvailable on the exact window),         *)
(* the alternatives it offers (findNearestAvailableSlots) and the range    *)
(* form of checkAvailability (findAvailableSlots).  The table grows row by *)
(* row, with any rows: updateReservation can produce every table.          *)
(***************************************************************************)
EXTENDS ReservationUtils

CONSTANTS
    SlotDurations, ReservationDurations,    \* configurations to explore
    Times, PartySizes, TotalSeats,
    Grains,                                 \* parts of a slot that are exact
    Horizon,                                \* minutes up to which they are
    MaxRows                                 \* bound: rows in the table

ASSUME SearchAssumption ==
    /\ SlotDurations \subseteq Nat \ {0} /\ ReservationDurations \subseteq Nat
    /\ \A time \in Times : isValidTimeString(time)
    /\ PartySizes \subseteq Nat \ {0} /\ TotalSeats \in Nat /\ MaxRows \in Nat

\* What the search needs of doubles.  Whole minutes, and whole numbers of grains
\* of a slot, are exact, as far as the loops and their windows reach; and
\* different minutes have different slots.  With 53 bits this holds for Grains up
\* to 2^10 and all durations that fit into a year.
ASSUME DoublesAssumption ==
    /\ Unit \in Nat \ {0} /\ Grains \in Nat \ {0} /\ Horizon \in Nat /\ Unit % Grains = 0
    /\ \A d \in SlotDurations, len \in ReservationDurations :
         3 * MinutesPerDay + len + 4 * d <= Horizon
    /\ \A m \in -Horizon .. Horizon : Round(m * Unit, 1) = m * Unit
    /\ \A d \in SlotDurations :
         \A n \in -((Grains * Horizon) \div d) .. (Grains * Horizon) \div d :
            LET v == n * (Unit \div Grains) IN Round(v, 1) = v /\ Round(v * d, d) = v
    /\ \A d \in SlotDurations : \A m \in 0 .. MinutesPerDay + d :
         slotOf(m, d) \in Int /\ slotOf(m, d) < slotOf(m + 1, d)

VARIABLES
    slotDuration, reservationDuration,      \* fixed when the service starts
    table                                   \* the day's reservations

vars == <<slotDuration, reservationDuration, table>>

Init ==
    /\ slotDuration \in SlotDurations
    /\ reservationDuration \in ReservationDurations
    /\ table = <<>>

Book(time, guests) ==
    /\ Len(table) < MaxRows
    /\ table' = Append(table, [time |-> time, guests |-> guests])
    /\ UNCHANGED <<slotDuration, reservationDuration>>

Next == \E time \in Times, guests \in PartySizes : Book(time, guests)

Spec == Init /\ [][Next]_vars

-----------------------------------------------------------------------------
\* createReservation (and checkAvailability for one time) accepts this start.
Bookable(start, guests) ==
    isSlotAvailable(table, start, start + reservationDuration, TotalSeats, guests)

Nearest(time, guests) ==
    findNearestAvailableSlots(table, slotOf(convertToMinutes(time), slotDuration), slotDuration,
                              TotalSeats, guests, reservationDuration)

InRange(from, to, guests) ==
    findAvailableSlots(table, slotOf(convertToMinutes(from), slotDuration),
                       slotOf(convertToMinutes(to), slotDuration),
                       slotDuration, TotalSeats, guests, reservationDuration)

\* The reduce of isSlotAvailable: sum[n] is what the first n rows add up to.
Reduced(rows, startTime, endTime) ==
    LET sum[n \in 0 .. Len(rows)] ==
          IF n = 0 THEN 0
          ELSE LET resTime == convertToMinutes(rows[n].time)
               IN  IF resTime >= startTime /\ resTime < endTime
                   THEN sum[n - 1] + rows[n].guests ELSE sum[n - 1]
    IN  sum[Len(rows)]

\* Counting one seat per guest of the rows that start in a window, which is what
\* all models do, gives the sum that isSlotAvailable computes row by row.
SeatsAreGuests ==
    \A a \in Times, b \in Times :
        occupiedSeats(table, convertToMinutes(a), convertToMinutes(b))
          = Reduced(table, convertToMinutes(a), convertToMinutes(b))

\* The time divided by slotDuration is a whole number of grains: a time on the
\* grid, or half a slot off it, but not a third.
Exact(t) == (Grains * convertToMinutes(t)) % slotDuration = 0

\* A caller who takes a suggestion is not refused again, if the requested time
\* is exact: every suggested slot is printed as a time of the same day in the
\* format the input validation asks for, and createReservation's own test
\* accepts it, although the search uses a window rounded up to whole slots and
\* the test uses the exact one.  For other times the products are off by a few
\* units in the last place, which the printed time shows.
SuggestionsBookable ==
    \A t \in Times, g \in PartySizes :
        Exact(t) =>
            \A n \in DOMAIN Nearest(t, g) :
                LET time == slotTime(Nearest(t, g)[n], slotDuration)
                IN  isValidTimeString(time) /\ Bookable(convertToMinutes(time), g)

\* The starts, whole slots away from t, that are on the same day.
Grid(t) ==
    LET slots == MinutesPerDay \div slotDuration
    IN  {convertToMinutes(t) + k * slotDuration : k \in -slots .. slots}
          \cap (0 .. MinutesPerDay - 1)

WholeSlots == reservationDuration % slotDuration = 0

\* When createReservation offers nothing ("No availability for ... on ..."),
\* no start whole slots away from the requested one would have been accepted,
\* if the requested time is exact and a reservation lasts a whole number of
\* slots.
RefusalIsTrue ==
    WholeSlots => \A t \in Times, g \in PartySizes :
        Exact(t) /\ Nearest(t, g) = <<>> =>
            \A m \in Grid(t) \ {convertToMinutes(t)} : ~Bookable(m, g)

\* The two forms of checkAvailability agree for a range with an exact start: a
\* slot listed for the range is printed as a valid time that the single-time
\* form would accept and, if a reservation lasts a whole number of slots, every
\* such slot of the range is listed, wherever the range ends.
RangeAgreesWithTime ==
    \A a \in Times, b \in Times, g \in PartySizes :
        LET times  == {slotTime(s, slotDuration) : s \in InRange(a, b, g)}
            listed == {convertToMinutes(time) : time \in times}
            wanted == {m \in Grid(a) : /\ m >= convertToMinutes(a)
                                       /\ m < convertToMinutes(b)
                                       /\ Bookable(m, g)}
        IN  Exact(a) => /\ \A time \in times : isValidTimeString(time)
                        /\ listed \subseteq wanted
                        /\ WholeSlots => listed = wanted
=============================================================================
