------------------------------ MODULE TimeUtils ------------------------------
(***************************************************************************)
(* The time helpers of the backend (src/backend/src/utils/time.utils.ts).  *)
(*                                                                         *)
(* A time string "HH:mm" is the pair <<hours, minutes>> of the numbers it  *)
(* spells; a string whose minutes have decimals, "00:31.000000000000004",  *)
(* has what follows the point as a third element.  A point in time (a JavaScript Date, UTC) is the pair           *)
(* [day, minute]: whole days, and minutes since that day's midnight; the   *)
(* helpers clear seconds and milliseconds, so a Date's seconds are left    *)
(* out.                                                                    *)
(***************************************************************************)
EXTENDS Integers

MinutesPerDay == 24 * 60

\* Number(hours) * 60 + Number(minutes) of the split string.
convertToMinutes(time) == time[1] * 60 + time[2]

\* Math.floor(minutes / 60) and minutes % 60, each padded to two digits.
convertToTime(minutes) == <<minutes \div 60, minutes % 60>>

\* /^([0-1][0-9]|2[0-3]):[0-5][0-9]$/
isValidTimeString(time) == DOMAIN time = 1..2 /\ time[1] \in 0..23 /\ time[2] \in 0..59

\* setUTCHours(hours, minutes, 0, 0) on a copy of the base date, or an error.
parseTimeString(time, base) ==
    IF isValidTimeString(time)
    THEN [day |-> base.day, minute |-> convertToMinutes(time)]
    ELSE "Invalid time string format"

\* Math.round(minutes / 30) * 30: JavaScript rounds halves up.
HalfHour(minutes) == ((minutes + 15) \div 30) * 30

\* Rounding up to 60 increments the hour; hour 24 rolls over to the next day.
roundToNearestHalfHour(date) ==
    LET total == (date.minute \div 60) * 60 + HalfHour(date.minute % 60)
    IN  [day |-> date.day + total \div MinutesPerDay,
         minute |-> total % MinutesPerDay]
=============================================================================
