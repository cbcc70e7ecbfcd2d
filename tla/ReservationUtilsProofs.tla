------------------------ MODULE ReservationUtilsProofs ------------------------
(***************************************************************************)
(* Facts about the helpers: what the time helpers are for, for every       *)
(* minute of every day, and the seat counting of ReservationUtils, for     *)
(* tables of any size.                                                     *)
(***************************************************************************)
EXTENDS ReservationUtils, FiniteSetTheorems, TLAPS

-----------------------------------------------------------------------------
(* Times.                                                                  *)

Date == [day : Nat, minute : 0 .. MinutesPerDay - 1]

\* Minutes since the midnight of day 0.
Total(date) == date.day * MinutesPerDay + date.minute

\* A minute of the day is its hours and the rest.
LEMMA HoursAndRest ==
  ASSUME NEW n \in 0 .. MinutesPerDay - 1
  PROVE  /\ n \div 60 \in 0 .. 23 /\ n % 60 \in 0 .. 59
         /\ (n \div 60) * 60 + (n % 60) = n
  BY DEF MinutesPerDay

\* Within an hour, Math.round(minutes / 30) * 30 is one of its half hours and at
\* most 15 minutes away.
LEMMA HalfHourIsNear ==
  ASSUME NEW r \in 0 .. 59
  PROVE  /\ HalfHour(r) \in {0, 30, 60}
         /\ HalfHour(r) - r > -15 /\ HalfHour(r) - r <= 15
  BY DEF HalfHour

\* Carrying whole days out of a number of minutes loses none of them.
LEMMA CarryKeepsTotal ==
  ASSUME NEW d \in Nat, NEW total \in 0 .. MinutesPerDay
  PROVE  Total([day |-> d + total \div MinutesPerDay, minute |-> total % MinutesPerDay])
           = d * MinutesPerDay + total
  <1>1. CASE total < MinutesPerDay
    <2>1. total \div MinutesPerDay = 0 /\ total % MinutesPerDay = total
      BY <1>1 DEF MinutesPerDay
    <2>. QED  BY <2>1 DEF Total, MinutesPerDay
  <1>2. CASE total = MinutesPerDay
    <2>1. total \div MinutesPerDay = 1 /\ total % MinutesPerDay = 0
      BY <1>2 DEF MinutesPerDay
    <2>. QED  BY <1>2, <2>1 DEF Total, MinutesPerDay
  <1>. QED  BY <1>1, <1>2 DEF MinutesPerDay

\* roundToNearestHalfHour yields a date on a half hour, at most 15 minutes away
\* (halves go up), also where it carries into the hour and, from 23:45 on, into
\* the next day.
THEOREM RoundsToNearest ==
  ASSUME NEW date \in Date
  PROVE  LET rounded == roundToNearestHalfHour(date)
             error   == Total(rounded) - Total(date)
         IN  /\ rounded \in Date /\ rounded.minute % 30 = 0
             /\ error > -15 /\ error <= 15
  <1>. DEFINE h == date.minute \div 60
              r == date.minute % 60
              total == h * 60 + HalfHour(r)
  <1>1. date.day \in Nat /\ date.minute \in 0 .. MinutesPerDay - 1
    BY DEF Date
  <1>2. h \in 0 .. 23 /\ r \in 0 .. 59 /\ h * 60 + r = date.minute
    BY <1>1, HoursAndRest
  <1>3. /\ HalfHour(r) \in {0, 30, 60}
        /\ HalfHour(r) - r > -15 /\ HalfHour(r) - r <= 15
    BY <1>2, HalfHourIsNear
  <1>4. roundToNearestHalfHour(date)
          = [day |-> date.day + total \div MinutesPerDay, minute |-> total % MinutesPerDay]
    BY DEF roundToNearestHalfHour
  <1>. HIDE DEF h, r
  <1>5. /\ total \in 0 .. MinutesPerDay /\ total % 30 = 0
        /\ total - date.minute > -15 /\ total - date.minute <= 15
    BY <1>1, <1>2, <1>3 DEF MinutesPerDay
  <1>. HIDE DEF total
  <1>6. /\ total \div MinutesPerDay \in Nat /\ total % MinutesPerDay \in 0 .. MinutesPerDay - 1
        /\ (total % MinutesPerDay) % 30 = 0
    <2>1. CASE total < MinutesPerDay
      <3>1. total \div MinutesPerDay = 0 /\ total % MinutesPerDay = total
        BY <1>5, <2>1 DEF MinutesPerDay
      <3>. QED  BY <1>5, <2>1, <3>1 DEF MinutesPerDay
    <2>2. CASE total = MinutesPerDay
      <3>1. total \div MinutesPerDay = 1 /\ total % MinutesPerDay = 0
        BY <2>2 DEF MinutesPerDay
      <3>. QED  BY <3>1 DEF MinutesPerDay
    <2>. QED  BY <1>5, <2>1, <2>2 DEF MinutesPerDay
  <1>7. Total(roundToNearestHalfHour(date)) = date.day * MinutesPerDay + total
    BY <1>1, <1>4, <1>5, CarryKeepsTotal
  <1>8. /\ Total(roundToNearestHalfHour(date)) - Total(date) > -15
        /\ Total(roundToNearestHalfHour(date)) - Total(date) <= 15
    <2>1. Total(date) = date.day * MinutesPerDay + date.minute
      BY DEF Total
    <2>2. MinutesPerDay \in Nat
      BY DEF MinutesPerDay
    <2>3. \A d, k \in Nat : d * k \in Nat
      OBVIOUS
    <2>4. date.day * MinutesPerDay \in Nat
      BY <1>1, <2>2, <2>3
    <2>5. date.minute \in Nat /\ total \in Nat
      BY <1>1, <1>5, <2>2
    <2>. QED  BY <1>5, <1>7, <2>1, <2>4, <2>5
  <1>9. /\ roundToNearestHalfHour(date) \in Date
        /\ roundToNearestHalfHour(date).minute % 30 = 0
    BY <1>1, <1>4, <1>6 DEF Date
  <1>. QED  BY <1>8, <1>9

\* convertToTime writes a minute of the day as a string that isValidTimeString
\* accepts, and parseTimeString reads it back as the same moment.
THEOREM FormatsAndParses ==
  ASSUME NEW date \in Date
  PROVE  LET time == convertToTime(date.minute)
         IN  isValidTimeString(time) /\ parseTimeString(time, date) = date
  <1>1. date.minute \in 0 .. MinutesPerDay - 1
    BY DEF Date
  <1>2. isValidTimeString(convertToTime(date.minute))
    BY <1>1, HoursAndRest DEF convertToTime, isValidTimeString
  <1>3. convertToMinutes(convertToTime(date.minute)) = date.minute
    BY <1>1, HoursAndRest DEF convertToTime, convertToMinutes
  <1>4. [day |-> date.day, minute |-> date.minute] = date
    BY DEF Date
  <1>. QED  BY <1>2, <1>3, <1>4 DEF parseTimeString

-----------------------------------------------------------------------------
(* Seats.                                                                  *)

\* A seat belongs to one of the counted rows.
LEMMA SeatsMember ==
    ASSUME NEW f, NEW S, NEW x
    PROVE  x \in SeatsOf(f, S) <=> \E id \in S : x \in {id} \X (1 .. f[id].guests)
BY DEF SeatsOf

\* Only the guests of the counted rows matter.
LEMMA SeatsSame ==
    ASSUME NEW f, NEW g, NEW S, \A id \in S : f[id].guests = g[id].guests
    PROVE  SeatsOf(f, S) = SeatsOf(g, S)
BY SeatsMember

\* Rows of at most n guests take at most n seats each.
LEMMA SeatsBound ==
    ASSUME NEW f, NEW S, IsFiniteSet(S), NEW n \in Nat,
           \A id \in S : f[id].guests \in Nat /\ f[id].guests <= n
    PROVE  /\ IsFiniteSet(SeatsOf(f, S))
           /\ Cardinality(SeatsOf(f, S)) \in Nat
           /\ Cardinality(SeatsOf(f, S)) <= Cardinality(S) * n
<1>1. IsFiniteSet(1 .. n) /\ Cardinality(1 .. n) = n
  BY FS_Interval
<1>2. IsFiniteSet(S \X (1 .. n)) /\ Cardinality(S \X (1 .. n)) = Cardinality(S) * n
  BY <1>1, FS_Product
<1>3. SeatsOf(f, S) \in SUBSET (S \X (1 .. n))
  <2>1. ASSUME NEW x \in SeatsOf(f, S) PROVE x \in S \X (1 .. n)
    <3>1. PICK id \in S : x \in {id} \X (1 .. f[id].guests)
      BY SeatsMember
    <3>2. 1 .. f[id].guests \subseteq 1 .. n
      BY <3>1
    <3> QED  BY <3>1, <3>2
  <2> QED  BY <2>1
<1> QED  BY <1>2, <1>3, FS_Subset, FS_CardinalityType

\* Fewer rows take no more seats.
LEMMA SeatsMonotone ==
    ASSUME NEW f, NEW S, NEW T, S \subseteq T, IsFiniteSet(SeatsOf(f, T))
    PROVE  /\ IsFiniteSet(SeatsOf(f, S))
           /\ Cardinality(SeatsOf(f, S)) <= Cardinality(SeatsOf(f, T))
<1>1. SeatsOf(f, S) \in SUBSET SeatsOf(f, T)
  BY SeatsMember
<1> QED  BY <1>1, FS_Subset

\* The seats of one row are as many as its guests.
LEMMA SeatsOfOne ==
    ASSUME NEW new, NEW n \in Nat
    PROVE  IsFiniteSet({new} \X (1 .. n)) /\ Cardinality({new} \X (1 .. n)) = n
<1>1. IsFiniteSet(1 .. n) /\ Cardinality(1 .. n) = n
  BY FS_Interval
<1>2. IsFiniteSet({new}) /\ Cardinality({new}) = 1
  BY FS_Singleton
<1>3. Cardinality({new} \X (1 .. n)) = 1 * n /\ IsFiniteSet({new} \X (1 .. n))
  BY <1>1, <1>2, FS_Product
<1> QED  BY <1>3

\* One more row takes as many more seats as it has guests.
LEMMA SeatsAdd ==
    ASSUME NEW f, NEW S, IsFiniteSet(SeatsOf(f, S)), NEW new, new \notin S,
           f[new].guests \in Nat
    PROVE  /\ IsFiniteSet(SeatsOf(f, S \cup {new}))
           /\ Cardinality(SeatsOf(f, S \cup {new})) = Cardinality(SeatsOf(f, S)) + f[new].guests
<1> DEFINE n == f[new].guests
           seats == {new} \X (1 .. n)
<1>1. n \in Nat
  OBVIOUS
<1>2. IsFiniteSet(seats) /\ Cardinality(seats) = n
  <2> HIDE DEF n
  <2> QED  BY <1>1, SeatsOfOne
<1>3. SeatsOf(f, S \cup {new}) = SeatsOf(f, S) \cup seats
  <2>1. ASSUME NEW x PROVE x \in SeatsOf(f, S \cup {new}) <=> x \in SeatsOf(f, S) \/ x \in seats
    <3>1. x \in SeatsOf(f, S \cup {new}) <=>
            \E id \in S \cup {new} : x \in {id} \X (1 .. f[id].guests)
      BY SeatsMember
    <3>2. x \in SeatsOf(f, S) <=> \E id \in S : x \in {id} \X (1 .. f[id].guests)
      BY SeatsMember
    <3> QED  BY <3>1, <3>2, Zenon
  <2> QED  BY <2>1, Zenon
<1>4. SeatsOf(f, S) \cap seats = {}
  <2>1. ASSUME NEW x \in SeatsOf(f, S), x \in seats PROVE FALSE
    <3>1. PICK id \in S : x \in {id} \X (1 .. f[id].guests)
      BY SeatsMember
    <3>2. PICK i : x = <<id, i>>
      BY <3>1
    <3>3. PICK j : x = <<new, j>>
      BY <2>1
    <3>4. id = new
      BY <3>2, <3>3
    <3> QED  BY <3>1, <3>4
  <2> QED  BY <2>1
<1>5. Cardinality(SeatsOf(f, S)) \in Nat
  BY FS_CardinalityType
<1> HIDE DEF seats, n
<1>6. Cardinality(SeatsOf(f, S) \cap seats) = 0
  BY <1>4, FS_EmptySet
<1>7. /\ IsFiniteSet(SeatsOf(f, S) \cup seats)
      /\ Cardinality(SeatsOf(f, S) \cup seats)
         = Cardinality(SeatsOf(f, S)) + Cardinality(seats) - Cardinality(SeatsOf(f, S) \cap seats)
  BY <1>2, FS_Union
<1>8. Cardinality(SeatsOf(f, S) \cup seats) = Cardinality(SeatsOf(f, S)) + n
  BY <1>1, <1>2, <1>5, <1>6, <1>7
<1>9. /\ IsFiniteSet(SeatsOf(f, S \cup {new}))
      /\ Cardinality(SeatsOf(f, S \cup {new})) = Cardinality(SeatsOf(f, S)) + n
  BY <1>3, <1>7, <1>8, Zenon
<1> QED  BY <1>9 DEF n
=============================================================================
