--------------------------- MODULE ReservationUtils ---------------------------
(***************************************************************************)
(* The slot arithmetic of src/backend/src/utils/reservation.utils.ts.      *)
(*                                                                         *)
(* A list of reservations is a function from ids to rows with the fields   *)
(* time and guests.  The code numbers slots from midnight, a slot being a  *)
(* start time divided by slotDuration, and multiplies back whenever it     *)
(* uses one.  Both are doubles, which the quotient of most minutes off the *)
(* slotDuration grid is not exactly: see Doubles.                          *)
(***************************************************************************)
EXTENDS TimeUtils, Doubles, FiniteSets, Sequences

\* The ids of the reservations that start in the window [startTime, endTime).
StartingIn(reservations, startTime, endTime) ==
    {id \in DOMAIN reservations :
        LET resTime == convertToMinutes(reservations[id].time)
        IN  resTime >= startTime /\ resTime < endTime}

\* Mutant: counts reservations, not their guests.
SeatsOf_Rows(reservations, ids) == ids \X {1}

\* One token per seat that the given reservations take.
SeatsOf(reservations, ids) ==
    UNION {{id} \X (1 .. reservations[id].guests) : id \in ids}

occupiedSeats(reservations, startTime, endTime) ==
    Cardinality(SeatsOf(reservations, StartingIn(reservations, startTime, endTime)))

\* Mutant: does not add the party that asks.
isSlotAvailable_WithoutParty(reservations, startTime, endTime, totalSeats, guests) ==
    occupiedSeats(reservations, startTime, endTime) <= totalSeats

isSlotAvailable(reservations, startTime, endTime, totalSeats, guests) ==
    occupiedSeats(reservations, startTime, endTime) + guests <= totalSeats

\* Mutant: Math.floor.
slotsPerReservation_Floor(slotDuration, reservationDuration) ==
    reservationDuration \div slotDuration

\* Math.ceil(reservationDuration / slotDuration)
slotsPerReservation(slotDuration, reservationDuration) ==
    (reservationDuration + slotDuration - 1) \div slotDuration

-----------------------------------------------------------------------------
(* Slots and minutes as doubles.                                           *)

\* minutes / slotDuration
slotOf(minutes, slotDuration) == Round(minutes * Unit, slotDuration)

\* slot * slotDuration
minutesOf(slot, slotDuration) == Round(slot * slotDuration, 1)

\* slot + n
plusSlots(slot, n) == Round(slot + n * Unit, 1)

\* The whole minutes at or after minute x are those from here on.
FirstMinute(x) == -((-x) \div Unit)

\* convertToTime(slot * slotDuration): minutes % 60 is printed with the decimals
\* it has.
slotTime(slot, slotDuration) ==
    LET minutes == minutesOf(slot, slotDuration)
        time    == convertToTime(minutes \div Unit)
    IN  IF minutes % Unit = 0 THEN time ELSE <<time[1], time[2], minutes % Unit>>

\* The values of a loop variable that starts at slot and goes on by step.
Walk(slot, step, rounds) ==
    LET i[k \in 0 .. rounds] == IF k = 0 THEN slot ELSE plusSlots(i[k - 1], step)
    IN  i

\* More rounds than any loop makes, and those before the test first fails.
Rounds(slotDuration) == MinutesPerDay \div slotDuration + 1
Upto(i, test(_), first, rounds) ==
    {i[k] : k \in {k \in first .. rounds : \A j \in first .. k : test(i[j])}}

\* Those of the given slots whose window, whole slots long, has room.
OpenSlots(slots, reservations, slotDuration, totalSeats, guests, reservationDuration) ==
    LET length == slotsPerReservation(slotDuration, reservationDuration)
    IN  {s \in slots :
            isSlotAvailable(reservations,
                            FirstMinute(minutesOf(s, slotDuration)),
                            FirstMinute(minutesOf(plusSlots(s, length), slotDuration)),
                            totalSeats, guests)}

\* The slots the upward loop visits: i = requestedSlot + 1, ... below 24 hours.
LaterSlots(requested, slotDuration) ==
    LET below(i) == i < slotOf(MinutesPerDay, slotDuration)
        rounds   == Rounds(slotDuration)
    IN  Upto(Walk(requested, 1, rounds), below, 1, rounds)

\* Mutant: the downward loop stops before slot 0.
EarlierSlots_NotFirst(requested, slotDuration) ==
    LET positive(i) == i > 0
        rounds      == Rounds(slotDuration)
    IN  Upto(Walk(requested, -1, rounds), positive, 1, rounds)

\* The slots the downward loop visits: i = requestedSlot - 1, ... down to 0.
EarlierSlots(requested, slotDuration) ==
    LET natural(i) == i >= 0
        rounds     == Rounds(slotDuration)
    IN  Upto(Walk(requested, -1, rounds), natural, 1, rounds)

\* Each loop stops at the first open slot: the later one comes first.
findNearestAvailableSlots(reservations, requested, slotDuration, totalSeats, guests, reservationDuration) ==
    LET open(slots) == OpenSlots(slots, reservations, slotDuration, totalSeats,
                                 guests, reservationDuration)
        later   == open(LaterSlots(requested, slotDuration))
        earlier == open(EarlierSlots(requested, slotDuration))
        first   == CHOOSE s \in later : \A x \in later : s <= x
        last    == CHOOSE s \in earlier : \A x \in earlier : s >= x
    IN  (IF later = {} THEN <<>> ELSE <<first>>)
        \o (IF earlier = {} THEN <<>> ELSE <<last>>)

\* Mutant: the loop includes endSlot.
RangeSlots_Inclusive(startSlot, endSlot, slotDuration) ==
    LET within(i) == i <= endSlot
        rounds    == Rounds(slotDuration)
    IN  Upto(Walk(startSlot, 1, rounds), within, 0, rounds)

\* The slots of the loop i = startSlot, startSlot + 1, ... below endSlot.
RangeSlots(startSlot, endSlot, slotDuration) ==
    LET below(i) == i < endSlot
        rounds   == Rounds(slotDuration)
    IN  Upto(Walk(startSlot, 1, rounds), below, 0, rounds)

\* The open slots of the range.  The loop appends them in increasing order,
\* so the list is determined by the set of its members.
findAvailableSlots(reservations, startSlot, endSlot, slotDuration, totalSeats, guests, reservationDuration) ==
    OpenSlots(RangeSlots(startSlot, endSlot, slotDuration), reservations, slotDuration,
              totalSeats, guests, reservationDuration)
=============================================================================
