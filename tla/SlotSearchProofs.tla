--------------------------- MODULE SlotSearchProofs ---------------------------
(***************************************************************************)
(* The search for a free slot, for every configuration of the service and  *)
(* every table of the day: what createReservation offers is bookable, what *)
(* it refuses is not, and the two forms of checkAvailability agree.  The   *)
(* searches use a window of whole slots, the booking an exact one: the     *)
(* first contains the second, and they are equal when a reservation lasts  *)
(* a whole number of slots.                                                *)
(***************************************************************************)
EXTENDS SlotSearch, ReservationUtilsProofs, SequenceTheorems, WellFoundedInduction

-----------------------------------------------------------------------------
(* Division.                                                               *)

\* A quotient and its remainder.
LEMMA Quotient ==
    ASSUME NEW a \in Int, NEW d \in Nat \ {0}
    PROVE  /\ a \div d \in Int /\ a % d \in 0 .. d - 1
           /\ a = d * (a \div d) + (a % d)
OBVIOUS

\* Multiplication by a positive number keeps the order.
LEMMA TimesKeepsOrder ==
    ASSUME NEW k \in Int, NEW q \in Int, NEW d \in Nat \ {0}
    PROVE  /\ k * d \in Int
           /\ k <= q => k * d <= q * d
           /\ k < q => k * d + d <= q * d
<1>1. k * d \in Int /\ q * d \in Int
  OBVIOUS
<1>2. ASSUME k <= q PROVE k * d <= q * d
  <2>1. q - k \in Nat
    BY <1>2
  <2>2. (q - k) * d \in Nat
    BY <2>1
  <2>3. (q - k) * d = q * d - k * d
    OBVIOUS
  <2> QED  BY <1>1, <2>2, <2>3
<1>3. ASSUME k < q PROVE k * d + d <= q * d
  <2>1. q - k - 1 \in Nat
    BY <1>3
  <2>2. (q - k - 1) * d \in Nat
    BY <2>1
  <2>3. (q - k - 1) * d = q * d - k * d - d
    OBVIOUS
  <2> QED  BY <1>1, <2>2, <2>3
<1> QED  BY <1>1, <1>2, <1>3

\* The bounds of the loops count the slots that fit.
LEMMA FitsExactly ==
    ASSUME NEW a \in Int, NEW d \in Nat \ {0}, NEW k \in Int
    PROVE  k <= a \div d <=> k * d <= a
<1>0. PICK q \in Int, r \in 0 .. d - 1 : q = a \div d /\ a = d * q + r
  BY Quotient
<1>1. d * q = q * d /\ q * d \in Int /\ k * d \in Int
  OBVIOUS
<1>2. ASSUME k <= q PROVE k * d <= a
  <2>1. k * d <= q * d
    BY <1>2, TimesKeepsOrder
  <2> QED  BY <1>0, <1>1, <2>1
<1>3. ASSUME q < k PROVE a < k * d
  <2>1. q * d + d <= k * d
    BY <1>3, TimesKeepsOrder
  <2> QED  BY <1>0, <1>1, <2>1
<1> QED  BY <1>0, <1>1, <1>2, <1>3

\* slotsPerReservation slots are at least as long as a reservation and, if it
\* lasts a whole number of slots, exactly as long.
LEMMA WindowCovers ==
    ASSUME NEW d \in Nat \ {0}, NEW len \in Nat
    PROVE  /\ slotsPerReservation(d, len) * d \in Nat
           /\ slotsPerReservation(d, len) * d >= len
           /\ len % d = 0 => slotsPerReservation(d, len) * d = len
<1>0. PICK q \in Int, r \in 0 .. d - 1 : q = (len + d - 1) \div d /\ len + d - 1 = d * q + r
  BY Quotient
<1>1. slotsPerReservation(d, len) = q
  BY <1>0 DEF slotsPerReservation
<1>2. d * q = q * d /\ q * d \in Int
  OBVIOUS
<1>3. q * d >= len
  BY <1>0, <1>2
<1>4. ASSUME len % d = 0 PROVE q * d = len
  <2>1. PICK k \in Int : k = len \div d /\ len = d * k
    BY <1>4, Quotient
  <2>2. d * k = k * d /\ k * d \in Int
    OBVIOUS
  <2>3. k * d + d > q * d
    BY <1>0, <1>2, <2>1, <2>2
  <2>4. ~(k < q)
    BY <1>2, <2>2, <2>3, TimesKeepsOrder
  <2>5. q * d <= k * d
    BY <2>4, TimesKeepsOrder
  <2> QED  BY <1>2, <1>3, <2>1, <2>2, <2>5
<1> QED  BY <1>1, <1>2, <1>3, <1>4

-----------------------------------------------------------------------------
(* The table.                                                              *)

Rows == [time : Times, guests : PartySizes]

\* The service is configured once, and the table holds rows that booking or
\* updating can leave in it.
TableOK ==
    /\ slotDuration \in SlotDurations /\ reservationDuration \in ReservationDurations
    /\ table \in Seq(Rows)

\* Every step keeps the table a sequence of such rows.
LEMMA TableInvariance == Spec => []TableOK
<1>1. Init => TableOK
  BY DEF Init, TableOK
<1>2. TableOK /\ [Next]_vars => TableOK'
  <2>1. SUFFICES ASSUME TableOK, [Next]_vars PROVE TableOK'
    OBVIOUS
  <2>2. ASSUME NEW time \in Times, NEW guests \in PartySizes, Book(time, guests) PROVE TableOK'
    <3>1. [time |-> time, guests |-> guests] \in Rows
      BY DEF Rows
    <3>2. Append(table, [time |-> time, guests |-> guests]) \in Seq(Rows)
      BY <2>1, <3>1, AppendProperties DEF TableOK
    <3> QED  BY <2>1, <2>2, <3>2 DEF Book, TableOK
  <2>3. CASE UNCHANGED vars
    BY <2>1, <2>3 DEF vars, TableOK
  <2> QED  BY <2>1, <2>2, <2>3 DEF Next
<1> QED  BY <1>1, <1>2, PTL DEF Spec

\* A valid time is a minute of the day.
LEMMA MinuteOfDay ==
    ASSUME NEW t, isValidTimeString(t)
    PROVE  convertToMinutes(t) \in 0 .. MinutesPerDay - 1
BY DEF isValidTimeString, convertToMinutes, MinutesPerDay

\* Finitely many rows take finitely many seats.
LEMMA SeatsFinite ==
    ASSUME NEW f, NEW S, IsFiniteSet(S), \A id \in S : f[id].guests \in Nat
    PROVE  IsFiniteSet(SeatsOf(f, S))
<1> DEFINE seats == [id \in S |-> {id} \X (1 .. f[id].guests)]
           T == {seats[id] : id \in S}
<1>1. \A id \in S : IsFiniteSet(seats[id])
  BY SeatsOfOne
<1>2. SeatsOf(f, S) = UNION T
  BY DEF SeatsOf
<1> HIDE DEF seats
<1>3. seats \in Surjection(S, T)
  <2>1. seats \in [S -> T]
    BY DEF seats
  <2> QED  BY <2>1 DEF Surjection
<1> HIDE DEF T
<1>4. IsFiniteSet(T)
  BY <1>3, FS_Surjection
<1>5. \A t \in T : IsFiniteSet(t)
  BY <1>1 DEF T
<1> QED  BY <1>2, <1>4, <1>5, FS_UNION

\* A wider window holds at least the guests of a narrower one.
LEMMA WiderWindow ==
    ASSUME TableOK, NEW start \in Int, NEW short \in Int, NEW long \in Int, short <= long
    PROVE  /\ occupiedSeats(table, start, start + short) \in Nat
           /\ occupiedSeats(table, start, start + long) \in Nat
           /\ occupiedSeats(table, start, start + short) <= occupiedSeats(table, start, start + long)
<1> DEFINE S == StartingIn(table, start, start + short)
           L == StartingIn(table, start, start + long)
<1>1. DOMAIN table = 1 .. Len(table) /\ Len(table) \in Nat
  BY LenProperties DEF TableOK
<1>2. \A id \in DOMAIN table : /\ table[id] \in Rows
                               /\ table[id].guests \in Nat
                               /\ convertToMinutes(table[id].time) \in Int
  <2>1. ASSUME NEW id \in DOMAIN table PROVE table[id] \in Rows
    BY <1>1, ElementOfSeq DEF TableOK
  <2>2. \A row \in Rows : row.guests \in Nat /\ isValidTimeString(row.time)
    BY SearchAssumption DEF Rows
  <2>3. \A t : isValidTimeString(t) => convertToMinutes(t) \in Int
    BY MinuteOfDay DEF MinutesPerDay
  <2> QED  BY <2>1, <2>2, <2>3
<1>3. S \subseteq L
  BY <1>2 DEF StartingIn
<1>4. L \subseteq DOMAIN table
  BY DEF StartingIn
<1>5. IsFiniteSet(DOMAIN table)
  BY <1>1, FS_Interval
<1> HIDE DEF S, L
<1>6. IsFiniteSet(L)
  BY <1>4, <1>5, FS_Subset
<1>7. IsFiniteSet(SeatsOf(table, L))
  BY <1>2, <1>4, <1>6, SeatsFinite
<1>8. /\ IsFiniteSet(SeatsOf(table, S))
      /\ Cardinality(SeatsOf(table, S)) <= Cardinality(SeatsOf(table, L))
  BY <1>3, <1>7, SeatsMonotone
<1>9. Cardinality(SeatsOf(table, S)) \in Nat /\ Cardinality(SeatsOf(table, L)) \in Nat
  BY <1>7, <1>8, FS_CardinalityType
<1> QED  BY <1>8, <1>9 DEF occupiedSeats, S, L

-----------------------------------------------------------------------------
(* The starts, in minutes, that the loops visit when the doubles are exact. *)

LaterStarts(r, d)    == {r + k * d : k \in 1 .. ((MinutesPerDay - 1 - r) \div d)}
EarlierStarts(r, d)  == {r - k * d : k \in 1 .. (r \div d)}
RangeStarts(r, m, d) == {r + k * d : k \in 0 .. ((m - 1 - r) \div d)}

\* Those with room in a window of whole slots.
OpenStarts(starts, g) ==
    LET window == slotsPerReservation(slotDuration, reservationDuration) * slotDuration
    IN  {m \in starts : isSlotAvailable(table, m, m + window, TotalSeats, g)}

\* What the search accepts, the booking accepts; and the other way round if a
\* reservation lasts a whole number of slots.
LEMMA OpenIsBookable ==
    ASSUME TableOK, NEW starts, starts \subseteq Int, NEW g \in PartySizes
    PROVE  LET open == OpenStarts(starts, g)
           IN  /\ open \subseteq starts
               /\ \A m \in open : Bookable(m, g)
               /\ WholeSlots => \A m \in starts : Bookable(m, g) => m \in open
<1> DEFINE w == slotsPerReservation(slotDuration, reservationDuration) * slotDuration
           open == OpenStarts(starts, g)
<1>1. /\ slotDuration \in Nat \ {0} /\ reservationDuration \in Nat
      /\ g \in Nat /\ TotalSeats \in Nat
  BY SearchAssumption DEF TableOK
<1>2. /\ w \in Nat /\ reservationDuration <= w
      /\ WholeSlots => w = reservationDuration
  BY <1>1, WindowCovers DEF WholeSlots
<1>3. open = {s \in starts : isSlotAvailable(table, s, s + w, TotalSeats, g)}
  BY DEF OpenStarts
<1> HIDE DEF w, open
<1>4. ASSUME NEW m \in open PROVE Bookable(m, g)
  <2>1. m \in Int /\ occupiedSeats(table, m, m + w) + g <= TotalSeats
    BY <1>3 DEF isSlotAvailable
  <2>2. /\ occupiedSeats(table, m, m + reservationDuration) \in Nat
        /\ occupiedSeats(table, m, m + w) \in Nat
        /\ occupiedSeats(table, m, m + reservationDuration) <= occupiedSeats(table, m, m + w)
    <3>1. m \in Int /\ reservationDuration \in Int /\ w \in Int
      BY <1>1, <1>2, <2>1
    <3> QED  BY <1>2, <3>1, WiderWindow
  <2>3. occupiedSeats(table, m, m + reservationDuration) + g <= TotalSeats
    BY <1>1, <2>1, <2>2
  <2> QED  BY <2>3 DEF Bookable, isSlotAvailable
<1>5. ASSUME WholeSlots, NEW m \in starts, Bookable(m, g) PROVE m \in open
  BY <1>2, <1>3, <1>5 DEF Bookable
<1>6. open \subseteq starts
  BY <1>3
<1> QED  BY <1>4, <1>5, <1>6 DEF open

\* The upward and the downward loop stay on the day, and miss none of its starts.
LEMMA LoopsCoverDay ==
    ASSUME NEW r \in 0 .. MinutesPerDay - 1, NEW d \in Nat \ {0}
    PROVE  /\ LaterStarts(r, d) \cup EarlierStarts(r, d) \subseteq 0 .. MinutesPerDay - 1
           /\ \A k \in Int : /\ k # 0
                            /\ r + k * d \in 0 .. MinutesPerDay - 1
                            => r + k * d \in LaterStarts(r, d) \cup EarlierStarts(r, d)
<1>0. MinutesPerDay = 1440
  BY DEF MinutesPerDay
<1>1. ASSUME NEW m \in LaterStarts(r, d) PROVE m \in 0 .. MinutesPerDay - 1
  <2>1. PICK k \in 1 .. ((MinutesPerDay - 1 - r) \div d) : m = r + k * d
    BY DEF LaterStarts
  <2>2. k * d <= MinutesPerDay - 1 - r
    <3>1. PICK a \in Int : a = MinutesPerDay - 1 - r
      BY <1>0
    <3>2. k \in Int /\ k <= a \div d
      BY <2>1, <3>1, Quotient
    <3> QED  BY <3>1, <3>2, FitsExactly
  <2>3. k * d \in Nat
    BY <2>1
  <2> QED  BY <1>0, <2>1, <2>2, <2>3
<1>2. ASSUME NEW m \in EarlierStarts(r, d) PROVE m \in 0 .. MinutesPerDay - 1
  <2>1. PICK k \in 1 .. (r \div d) : m = r - k * d
    BY DEF EarlierStarts
  <2>2. k * d <= r
    <3>1. r \in Int /\ r \div d \in Int
      BY <1>0, Quotient
    <3>2. k \in Int /\ k <= r \div d
      BY <2>1, <3>1
    <3> QED  BY <3>1, <3>2, FitsExactly
  <2>3. k * d \in Nat
    BY <2>1
  <2> QED  BY <1>0, <2>1, <2>2, <2>3
<1>3. ASSUME NEW k \in Int, k # 0, r + k * d \in 0 .. MinutesPerDay - 1
      PROVE  r + k * d \in LaterStarts(r, d) \cup EarlierStarts(r, d)
  <2>1. CASE k > 0
    <3>0. k * d \in Int
      OBVIOUS
    <3>1. k * d <= MinutesPerDay - 1 - r
      BY <1>0, <1>3, <3>0
    <3>2. k <= (MinutesPerDay - 1 - r) \div d
      BY <1>0, <3>1, FitsExactly
    <3>3. (MinutesPerDay - 1 - r) \div d \in Int
      BY <1>0, Quotient
    <3> QED  BY <2>1, <3>2, <3>3 DEF LaterStarts
  <2>2. CASE k < 0
    <3>0. PICK j \in Int : j = -k
      OBVIOUS
    <3>1. j * d = -(k * d) /\ k * d \in Int
      BY <3>0
    <3>2. j * d <= r
      <4>1. r + k * d >= 0
        BY <1>0, <1>3
      <4> QED  BY <1>0, <3>1, <4>1
    <3>3. j <= r \div d /\ r \div d \in Int
      BY <1>0, <3>2, FitsExactly, Quotient
    <3>4. r + k * d = r - j * d
      BY <1>0, <3>1
    <3> QED  BY <2>2, <3>0, <3>3, <3>4 DEF EarlierStarts
  <2> QED  BY <1>3, <2>1, <2>2
<1> QED  BY <1>1, <1>2, <1>3

\* The loop over a range visits the slots of the range, whole slots from its
\* start and less than a day of them, and misses none.
LEMMA LoopCoversRange ==
    ASSUME NEW r \in 0 .. MinutesPerDay - 1, NEW end \in 0 .. MinutesPerDay - 1, NEW d \in Nat \ {0}
    PROVE  /\ \A m \in RangeStarts(r, end, d) :
                m \in r .. end - 1 /\ \E k \in 0 .. (MinutesPerDay \div d) : m = r + k * d
           /\ \A k \in Int : r + k * d \in r .. end - 1 => r + k * d \in RangeStarts(r, end, d)
<1>0. MinutesPerDay = 1440
  BY DEF MinutesPerDay
<1>1. PICK a \in Int : a = end - 1 - r
  BY <1>0
<1>2. a \div d \in Int /\ MinutesPerDay \div d \in Int
  BY <1>0, Quotient
<1>3. RangeStarts(r, end, d) = {r + k * d : k \in 0 .. (a \div d)}
  BY <1>1 DEF RangeStarts
<1>4. ASSUME NEW m \in RangeStarts(r, end, d)
      PROVE  m \in r .. end - 1 /\ \E k \in 0 .. (MinutesPerDay \div d) : m = r + k * d
  <2>1. PICK k \in 0 .. (a \div d) : m = r + k * d
    BY <1>3
  <2>2. k \in Int /\ k >= 0 /\ k <= a \div d
    BY <1>2
  <2>3. k * d <= a /\ k * d \in Nat
    BY <2>2, FitsExactly
  <2>4. k * d <= MinutesPerDay
    BY <1>0, <1>1, <2>3
  <2>5. k <= MinutesPerDay \div d
    BY <1>0, <2>2, <2>4, FitsExactly
  <2>6. k \in 0 .. (MinutesPerDay \div d)
    BY <1>2, <2>2, <2>5
  <2>7. m \in r .. end - 1
    BY <1>0, <1>1, <2>1, <2>3
  <2> QED  BY <2>1, <2>6, <2>7
<1>5. ASSUME NEW k \in Int, r + k * d \in r .. end - 1 PROVE r + k * d \in RangeStarts(r, end, d)
  <2>1. k * d \in Int
    OBVIOUS
  <2>2. k * d >= 0 /\ k * d <= a
    BY <1>0, <1>1, <1>5, <2>1
  <2>3. k <= a \div d
    BY <2>2, FitsExactly
  <2>4. ~(k < 0)
    <3>1. 0 * d = 0
      OBVIOUS
    <3> QED  BY <2>1, <2>2, <3>1, TimesKeepsOrder
  <2>5. k \in 0 .. (a \div d)
    BY <1>2, <2>3, <2>4
  <2> QED  BY <1>3, <2>5
<1> QED  BY <1>4, <1>5

-----------------------------------------------------------------------------
(* The first and the last of a set of minutes.                             *)

\* A set of numbers that is not empty has a least one: among the intervals that
\* end in its members one is minimal.
LEMMA HasLeast ==
    ASSUME NEW S \in SUBSET Nat, S # {}
    PROVE  \E s \in S : \A x \in S : s <= x
<1> DEFINE R == StrictSubsetOrdering(Nat)
           T == {0 .. k : k \in S}
<1>1. IsWellFoundedOn(R, FiniteSubsetsOf(Nat))
  BY FS_StrictSubsetOrderingWellFounded
<1>2. T \subseteq FiniteSubsetsOf(Nat) /\ T # {}
  <2>1. \A k \in S : 0 .. k \in SUBSET Nat /\ IsFiniteSet(0 .. k)
    BY FS_Interval
  <2> QED  BY <2>1 DEF FiniteSubsetsOf
<1> HIDE DEF R
<1>3. \E x \in T : \A y \in T : ~(<<y, x>> \in R)
  BY <1>1, <1>2, WFMin
<1>4. PICK m \in S : \A k \in S : ~(<<0 .. k, 0 .. m>> \in R)
  BY <1>3
<1>5. ASSUME NEW k \in S, k < m PROVE <<0 .. k, 0 .. m>> \in R
  BY <1>5, 0 .. k \subseteq 0 .. m, m \in 0 .. m, m \notin 0 .. k DEF R, StrictSubsetOrdering
<1>6. \A k \in S : ~(k < m)
  BY <1>4, <1>5
<1>7. \A k \in S : m <= k
  BY <1>6
<1> QED  BY <1>7

\* A set of minutes of the day has a last one, the least when counted from the
\* end.
LEMMA HasGreatest ==
    ASSUME NEW n \in Nat, NEW S \in SUBSET (0 .. n), S # {}
    PROVE  \E s \in S : \A x \in S : s >= x
<1> DEFINE T == {n - s : s \in S}
<1>1. T \in SUBSET Nat /\ T # {}
  <2>1. ASSUME NEW s \in S PROVE n - s \in Nat
    <3>1. s \in Int /\ 0 <= s /\ s <= n
      OBVIOUS
    <3> QED  BY <3>1
  <2>2. \A t \in T : t \in Nat
    BY <2>1
  <2>3. PICK s \in S : TRUE
    OBVIOUS
  <2>4. n - s \in T
    BY <2>3
  <2> QED  BY <2>2, <2>4
<1>2. PICK t \in T : \A y \in T : t <= y
  <2> HIDE DEF T
  <2> QED  BY <1>1, HasLeast
<1>3. PICK s \in S : t = n - s
  OBVIOUS
<1>4. \A x \in S : n - s <= n - x
  BY <1>2, <1>3
<1> QED  BY <1>4

-----------------------------------------------------------------------------
(* Doubles.                                                                *)

\* What an exact start gives: r is a whole number of grains of a slot.
ExactStart(r, d) ==
    d \in SlotDurations /\ r \in 0 .. MinutesPerDay - 1 /\ (Grains * r) % d = 0

\* The parts of the assumption on doubles.
LEMMA DoubleFacts ==
    /\ Unit \in Nat \ {0} /\ Grains \in Nat \ {0} /\ Horizon \in Nat
    /\ Unit \div Grains \in Int /\ Unit = Grains * (Unit \div Grains)
<1>1. Unit \in Nat \ {0} /\ Grains \in Nat \ {0} /\ Horizon \in Nat /\ Unit % Grains = 0
  BY DoublesAssumption
<1>2. PICK u \in Int, g \in Nat \ {0} : u = Unit /\ g = Grains
  BY <1>1
<1>3. u \div g \in Int /\ u % g = 0 /\ u = g * (u \div g) + (u % g)
  BY <1>1, <1>2, Quotient
<1>4. u = g * (u \div g)
  BY <1>3
<1> QED  BY <1>1, <1>2, <1>3, <1>4

\* The grains of the starts whole slots away from an exact one.
LEMMA GrainsOf ==
    ASSUME NEW d \in SlotDurations, NEW r \in Int, (Grains * r) % d = 0,
           NEW k \in Int, NEW j \in -Horizon .. Horizon, j = r + k * d
    PROVE  \E n \in -((Grains * Horizon) \div d) .. (Grains * Horizon) \div d : n * d = Grains * j
<1>1. PICK g \in Nat \ {0}, h \in Nat, e \in Nat \ {0} : g = Grains /\ h = Horizon /\ e = d
  BY DoubleFacts, SearchAssumption
<1>2. PICK q \in Int : g * r = e * q
  <2>1. g * r \in Int
    OBVIOUS
  <2>2. PICK a \in Int : a = g * r
    BY <2>1
  <2>3. a \div e \in Int /\ a = e * (a \div e) + (a % e) /\ a % e = 0
    BY <1>1, <2>2, Quotient
  <2>4. PICK q \in Int : q = a \div e
    BY <2>3
  <2>5. a = e * q
    BY <2>3, <2>4
  <2> QED  BY <2>2, <2>5
<1>3. PICK n \in Int : n = q + g * k
  OBVIOUS
<1>4. n * e = g * j
  <2>1. n * e = q * e + (g * k) * e
    BY <1>3
  <2>2. j = r + k * e
    BY <1>1
  <2>3. g * j = g * r + g * (k * e)
    BY <2>2
  <2>4. (g * k) * e = g * (k * e) /\ q * e = e * q
    OBVIOUS
  <2> QED  BY <1>2, <2>1, <2>3, <2>4
<1>5. j \in Int /\ j <= h /\ -h <= j
  BY <1>1
<1>6. n * e <= g * h /\ -n * e <= g * h
  <2>1. j * g <= h * g
    BY <1>5, TimesKeepsOrder
  <2>2. (-h) * g <= j * g
    <3>1. -h \in Int
      OBVIOUS
    <3> QED  BY <1>5, <3>1, TimesKeepsOrder
  <2>3. h * g = g * h /\ j * g = g * j /\ (-h) * g = -(g * h)
    OBVIOUS
  <2>4. -n * e = -(n * e)
    OBVIOUS
  <2> QED  BY <1>4, <1>5, <2>1, <2>2, <2>3, <2>4
<1>7. n <= (g * h) \div e /\ -n <= (g * h) \div e
  <2>1. PICK b \in Int : b = g * h
    OBVIOUS
  <2>2. PICK m \in Int : m = -n
    OBVIOUS
  <2>3. n * e <= b /\ m * e <= b
    BY <1>6, <2>1, <2>2
  <2>4. n <= b \div e /\ m <= b \div e
    BY <2>3, FitsExactly
  <2> QED  BY <2>1, <2>2, <2>4
<1>8. (g * h) \div e \in Int
  <2>1. PICK b \in Int : b = g * h
    OBVIOUS
  <2> QED  BY <2>1, Quotient
<1>9. n \in -((g * h) \div e) .. (g * h) \div e
  BY <1>7, <1>8
<1> QED  BY <1>1, <1>4, <1>9

\* Whole numbers of grains are exact.
LEMMA GrainsExact ==
    ASSUME NEW d \in SlotDurations,
           NEW n \in -((Grains * Horizon) \div d) .. (Grains * Horizon) \div d
    PROVE  /\ Round(n * (Unit \div Grains), 1) = n * (Unit \div Grains)
           /\ Round(n * (Unit \div Grains) * d, d) = n * (Unit \div Grains)
BY DoublesAssumption

\* Their slots: the quotient is exact, and multiplied back it is the start again.
LEMMA ExactSlot ==
    ASSUME NEW d \in SlotDurations, NEW r \in Int, (Grains * r) % d = 0,
           NEW k \in Int, NEW j \in -Horizon .. Horizon, j = r + k * d
    PROVE  /\ slotOf(j, d) \in Int /\ slotOf(j, d) * d = j * Unit
           /\ minutesOf(slotOf(j, d), d) = j * Unit
           /\ \E n \in Int : n * d = Grains * j /\ slotOf(j, d) = n * (Unit \div Grains)
<1>1. PICK n \in -((Grains * Horizon) \div d) .. (Grains * Horizon) \div d : n * d = Grains * j
  BY GrainsOf
<1>2. PICK G \in Int, u \in Nat, gr \in Nat : G = Unit \div Grains /\ u = Unit /\ gr = Grains
  BY DoubleFacts
<1>3. u = gr * G
  BY <1>2, DoubleFacts
<1>4. n \in Int /\ d \in Int /\ j \in Int
  <2>1. (Grains * Horizon) \div d \in Int
    <3>1. Grains * Horizon \in Int /\ d \in Nat \ {0}
      BY DoubleFacts, SearchAssumption
    <3> QED  BY <3>1, Quotient
  <2> QED  BY <2>1, DoubleFacts, SearchAssumption
<1>5. n * G * d = j * u
  <2>1. n * G * d = (n * d) * G
    BY <1>4
  <2>2. (n * d) * G = (gr * j) * G
    BY <1>1, <1>2
  <2>3. (gr * j) * G = j * (gr * G)
    BY <1>4
  <2> QED  BY <1>3, <2>1, <2>2, <2>3
<1>6. Round(n * G * d, d) = n * G
  BY <1>2, GrainsExact
<1>7. slotOf(j, d) = n * G
  BY <1>2, <1>5, <1>6 DEF slotOf
<1>8. Round(j * Unit, 1) = j * Unit
  BY DoublesAssumption
<1>9. minutesOf(slotOf(j, d), d) = j * Unit
  BY <1>2, <1>5, <1>7, <1>8 DEF minutesOf
<1>10. n * G \in Int
  BY <1>4
<1> QED  BY <1>1, <1>2, <1>4, <1>5, <1>7, <1>9, <1>10

\* Adding whole slots is exact.
LEMMA ExactPlus ==
    ASSUME NEW d \in SlotDurations, NEW r \in Int, (Grains * r) % d = 0,
           NEW k \in Int, NEW j \in -Horizon .. Horizon, j = r + k * d,
           NEW n \in Int, NEW i \in -Horizon .. Horizon, i = j + n * d
    PROVE  plusSlots(slotOf(j, d), n) = slotOf(i, d)
<1>1. d \in Nat \ {0} /\ j \in Int /\ i \in Int
  BY DoubleFacts, SearchAssumption
<1>2. i = r + (k + n) * d
  <2>1. (k + n) * d = k * d + n * d
    BY <1>1
  <2>2. k * d \in Int /\ n * d \in Int
    BY <1>1
  <2> QED  BY <2>1, <2>2
<1>3. slotOf(j, d) \in Int /\ slotOf(j, d) * d = j * Unit
  BY ExactSlot
<1>4. k + n \in Int
  OBVIOUS
<1>5. /\ slotOf(i, d) \in Int /\ slotOf(i, d) * d = i * Unit
      /\ \E x \in Int : x * d = Grains * i /\ slotOf(i, d) = x * (Unit \div Grains)
  BY <1>2, <1>4, ExactSlot
<1>6. PICK u \in Nat, e \in Nat \ {0}, a \in Int, b \in Int :
        u = Unit /\ e = d /\ a = slotOf(j, d) /\ b = slotOf(i, d)
  BY <1>1, <1>3, <1>5, DoubleFacts
<1>7. b * e = (a + n * u) * e
  <2>1. a * e = j * u /\ b * e = i * u
    BY <1>3, <1>5, <1>6
  <2>2. i * u = j * u + (n * e) * u
    BY <1>1, <1>6
  <2>3. (a + n * u) * e = a * e + (n * u) * e /\ (n * u) * e = (n * e) * u
    OBVIOUS
  <2> QED  BY <2>1, <2>2, <2>3
<1>8. b = a + n * u
  <2>1. PICK c \in Int : c = a + n * u
    OBVIOUS
  <2>2. b * e = c * e
    BY <1>7, <2>1
  <2>3. ~(b < c) /\ ~(c < b)
    BY <2>2, TimesKeepsOrder
  <2> QED  BY <2>1, <2>3
<1>9. Round(b, 1) = b
  <2>1. PICK x \in -((Grains * Horizon) \div d) .. (Grains * Horizon) \div d : x * d = Grains * i
    BY <1>2, <1>4, GrainsOf
  <2>2. PICK y \in Int : y * d = Grains * i /\ slotOf(i, d) = y * (Unit \div Grains)
    BY <1>5
  <2>3. x \in Int
    <3>1. (Grains * Horizon) \div d \in Int
      <4>1. Grains * Horizon \in Int
        BY DoubleFacts
      <4> QED  BY <1>1, <4>1, Quotient
    <3> QED  BY <3>1
  <2>4. x = y
    <3>1. x * d = y * d
      BY <2>1, <2>2
    <3>2. ~(x < y) /\ ~(y < x)
      BY <1>1, <2>3, <3>1, TimesKeepsOrder
    <3> QED  BY <2>3, <3>2
  <2>5. b = x * (Unit \div Grains)
    BY <1>6, <2>2, <2>4
  <2> QED  BY <2>1, <2>5, GrainsExact
<1> QED  BY <1>6, <1>8, <1>9 DEF plusSlots

-----------------------------------------------------------------------------
(* The loops.                                                              *)

\* The values of the loop variable.
IsWalk(slot, step, m, f) ==
    f = [k \in 0 .. m |-> IF k = 0 THEN slot ELSE plusSlots(f[k - 1], step)]

\* There are such values.
LEMMA WalkExists ==
    ASSUME NEW slot, NEW step, NEW M \in Nat
    PROVE  \E f : IsWalk(slot, step, M, f)
<1> DEFINE Bad == {m \in Nat : ~\E f : IsWalk(slot, step, m, f)}
<1>1. SUFFICES ASSUME Bad # {} PROVE FALSE
  OBVIOUS
<1>2. PICK m \in Bad : \A x \in Bad : m <= x
  <2>1. Bad \in SUBSET Nat
    OBVIOUS
  <2> HIDE DEF Bad
  <2> QED  BY <1>1, <2>1, HasLeast
<1>3. m # 0
  <2>1. IsWalk(slot, step, 0, [n \in 0 .. 0 |-> slot])
    BY DEF IsWalk
  <2> QED  BY <2>1
<1>4. PICK j \in Nat : j = m - 1
  BY <1>3
<1>5. j \notin Bad
  BY <1>2, <1>4
<1>6. PICK f : IsWalk(slot, step, j, f)
  BY <1>5
<1> DEFINE g == [n \in 0 .. m |-> IF n = m THEN plusSlots(f[j], step) ELSE f[n]]
<1>7. ASSUME NEW n \in 0 .. m
      PROVE  g[n] = IF n = 0 THEN slot ELSE plusSlots(g[n - 1], step)
  <2>1. \A x \in 0 .. j : g[x] = f[x]
    BY <1>4
  <2>2. \A x \in 0 .. j : f[x] = IF x = 0 THEN slot ELSE plusSlots(f[x - 1], step)
    BY <1>6 DEF IsWalk
  <2>3. CASE n = m
    <3>1. g[n] = plusSlots(f[j], step) /\ n - 1 = j /\ n # 0 /\ j \in 0 .. j
      BY <1>3, <1>4, <2>3
    <3> HIDE DEF g
    <3> QED  BY <2>1, <2>3, <3>1
  <2>4. CASE n # m
    <3>1. n \in 0 .. j /\ (n # 0 => n - 1 \in 0 .. j)
      BY <1>4, <2>4
    <3> HIDE DEF g
    <3> QED  BY <2>1, <2>2, <3>1
  <2> QED  BY <2>3, <2>4
<1>8. IsWalk(slot, step, m, g)
  <2>1. g = [n \in 0 .. m |-> g[n]]
    OBVIOUS
  <2> HIDE DEF g
  <2> QED  BY <1>7, <2>1 DEF IsWalk
<1> QED  BY <1>8

\* The loop goes through them.
LEMMA WalkRounds ==
    ASSUME NEW slot, NEW step, NEW M \in Nat
    PROVE  /\ Walk(slot, step, M)[0] = slot
           /\ \A k \in 1 .. M : Walk(slot, step, M)[k] = plusSlots(Walk(slot, step, M)[k - 1], step)
<1>1. \E f : IsWalk(slot, step, M, f)
  BY WalkExists
<1>2. Walk(slot, step, M) = CHOOSE f : IsWalk(slot, step, M, f)
  BY DEF Walk, IsWalk
<1>3. PICK f : f = CHOOSE h : IsWalk(slot, step, M, h)
  OBVIOUS
<1>4. IsWalk(slot, step, M, f)
  BY <1>1, <1>3
<1>5. f[0] = slot /\ \A k \in 1 .. M : f[k] = plusSlots(f[k - 1], step)
  <2>1. \A n \in 0 .. M : f[n] = IF n = 0 THEN slot ELSE plusSlots(f[n - 1], step)
    BY <1>4 DEF IsWalk
  <2>2. 0 \in 0 .. M /\ \A n \in 1 .. M : n \in 0 .. M /\ n # 0
    OBVIOUS
  <2> QED  BY <2>1, <2>2
<1> QED  BY <1>2, <1>3, <1>5

\* j is whole slots away from a start r whose slot is exact.
Away(r, d, j) ==
    /\ d \in SlotDurations /\ r \in Int /\ (Grains * r) % d = 0
    /\ j \in -Horizon .. Horizon /\ \E k \in Int : j = r + k * d

\* ExactSlot and ExactPlus for such starts.
LEMMA AwaySlot ==
    ASSUME NEW r, NEW d, NEW j, Away(r, d, j)
    PROVE  /\ slotOf(j, d) \in Int /\ slotOf(j, d) * d = j * Unit
           /\ minutesOf(slotOf(j, d), d) = j * Unit
<1>1. PICK k \in Int : j = r + k * d
  BY DEF Away
<1>2. d \in SlotDurations /\ r \in Int /\ (Grains * r) % d = 0 /\ j \in -Horizon .. Horizon
  BY DEF Away
<1> QED  BY <1>1, <1>2, ExactSlot

\* Minute i lies n slots of d minutes after minute j, within the horizon.
IsPlus(i, j, n, d) == i \in -Horizon .. Horizon /\ n \in Int /\ i = j + n * d

\* Adding whole slots to the slot of an exact minute gives the slot of the minute
\* that many slots away, which is exact again (requestedSlot + i in the loops).
LEMMA AwayPlus ==
    ASSUME NEW r, NEW d, NEW j, NEW i, NEW n, Away(r, d, j), IsPlus(i, j, n, d)
    PROVE  plusSlots(slotOf(j, d), n) = slotOf(i, d) /\ Away(r, d, i)
<1>1. PICK k \in Int : j = r + k * d
  BY DEF Away
<1>2. d \in SlotDurations /\ r \in Int /\ (Grains * r) % d = 0 /\ j \in -Horizon .. Horizon
  BY DEF Away
<1>3. plusSlots(slotOf(j, d), n) = slotOf(i, d)
  BY <1>1, <1>2, ExactPlus DEF IsPlus
<1>4. i = r + (k + n) * d /\ k + n \in Int
  <2>1. d \in Nat \ {0} /\ k * d \in Int /\ n * d \in Int /\ (k + n) * d = k * d + n * d
    BY <1>2, SearchAssumption DEF IsPlus
  <2> QED  BY <1>1, <1>2, <2>1 DEF IsPlus
<1>5. \E x \in Int : i = r + x * d
  BY <1>4
<1> QED  BY <1>2, <1>3, <1>5 DEF Away, IsPlus

\* The rounds of a loop stay where doubles are exact.
Reaches(r, d, step, M) ==
    \A k \in 0 .. M : r + (k * step) * d \in -Horizon .. Horizon

\* The loop variable is the slot of the start it stands for.
Follows(r, d, step, M) ==
    \A k \in 0 .. M : Walk(slotOf(r, d), step, M)[k] = slotOf(r + (k * step) * d, d)

\* From an exact start the loop variable is the slot of the start it stands for.
LEMMA WalkExact ==
    ASSUME NEW d \in SlotDurations, NEW r \in 0 .. Horizon, (Grains * r) % d = 0,
           NEW step \in Int, NEW M \in Nat, Reaches(r, d, step, M)
    PROVE  Follows(r, d, step, M)
<1>1. PICK w : w = Walk(slotOf(r, d), step, M)
  OBVIOUS
<1>2. w[0] = slotOf(r, d) /\ \A k \in 1 .. M : w[k] = plusSlots(w[k - 1], step)
  BY <1>1, WalkRounds
<1>3. d \in Nat \ {0} /\ r \in Int /\ Horizon \in Nat
  BY DoubleFacts, SearchAssumption
<1> DEFINE Good(k) == w[k] = slotOf(r + (k * step) * d, d)
           Bad == {k \in 0 .. M : ~Good(k)}
<1>4. Good(0)
  <2>1. r + (0 * step) * d = r
    BY <1>3
  <2> QED  BY <1>2, <2>1
<1>5. ASSUME NEW k \in 1 .. M, Good(k - 1) PROVE Good(k)
  <2>1. PICK n \in Int, j \in -Horizon .. Horizon : n = (k - 1) * step /\ j = r + n * d
    <3>1. PICK n \in Int : n = (k - 1) * step
      OBVIOUS
    <3>2. k - 1 \in 0 .. M
      OBVIOUS
    <3>3. r + ((k - 1) * step) * d \in -Horizon .. Horizon
      BY <3>2 DEF Reaches
    <3> QED  BY <3>1, <3>3
  <2>2. PICK i \in -Horizon .. Horizon : i = r + (k * step) * d
    <3>1. k \in 0 .. M
      OBVIOUS
    <3> QED  BY <3>1 DEF Reaches
  <2>3. i = j + step * d
    <3>1. k * step = n + step
      BY <2>1
    <3>2. (n + step) * d = n * d + step * d
      BY <1>3
    <3>3. n * d \in Int /\ step * d \in Int
      BY <1>3
    <3> QED  BY <1>3, <2>1, <2>2, <3>1, <3>2, <3>3
  <2>4. plusSlots(slotOf(j, d), step) = slotOf(i, d)
    <3>1. Away(r, d, j)
      BY <1>3, <2>1 DEF Away
    <3>2. IsPlus(i, j, step, d)
      BY <2>2, <2>3 DEF IsPlus
    <3> QED  BY <3>1, <3>2, AwayPlus
  <2>5. w[k - 1] = slotOf(j, d)
    BY <1>5, <2>1
  <2>6. w[k] = slotOf(i, d)
    BY <1>2, <2>4, <2>5
  <2> QED  BY <2>2, <2>6
<1>6. ASSUME Bad # {} PROVE FALSE
  <2> HIDE DEF Good
  <2>1. PICK k \in Bad : \A x \in Bad : k <= x
    <3>1. Bad \in SUBSET Nat
      OBVIOUS
    <3> HIDE DEF Bad
    <3> QED  BY <1>6, <3>1, HasLeast
  <2>2. k \in 1 .. M /\ k - 1 \in 0 .. M /\ ~(k <= k - 1)
    BY <1>4, <2>1
  <2>3. Good(k - 1)
    BY <2>1, <2>2
  <2> QED  BY <1>5, <2>1, <2>2, <2>3
<1> QED  BY <1>1, <1>6 DEF Follows

\* Later starts have larger slots.
LEMMA SlotOrder ==
    ASSUME NEW d \in SlotDurations, NEW x \in 0 .. MinutesPerDay + d, NEW y \in 0 .. MinutesPerDay + d
    PROVE  /\ slotOf(x, d) \in Int /\ slotOf(y, d) \in Int
           /\ x < y => slotOf(x, d) < slotOf(y, d)
<1>0. d \in Nat \ {0} /\ MinutesPerDay \in Nat
  BY SearchAssumption DEF MinutesPerDay
<1>1. PICK top \in Nat : top = MinutesPerDay + d
  BY <1>0
<1>2. \A m \in 0 .. top : slotOf(m, d) \in Int /\ slotOf(m, d) < slotOf(m + 1, d)
  BY <1>1, DoublesAssumption
<1> DEFINE Bad == {m \in 0 .. top : x < m /\ ~(slotOf(x, d) < slotOf(m, d))}
<1>3. ASSUME Bad # {} PROVE FALSE
  <2>1. PICK m \in Bad : \A z \in Bad : m <= z
    <3>1. Bad \in SUBSET Nat
      OBVIOUS
    <3> HIDE DEF Bad
    <3> QED  BY <1>3, <3>1, HasLeast
  <2>2. PICK p \in 0 .. top : p = m - 1 /\ m = p + 1 /\ x <= p
    BY <1>1, <2>1
  <2>3. p \notin Bad
    BY <2>1, <2>2
  <2>4. slotOf(p, d) \in Int /\ slotOf(p, d) < slotOf(m, d) /\ slotOf(m, d) \in Int /\ slotOf(x, d) \in Int
    BY <1>1, <1>2, <2>1, <2>2
  <2>5. CASE x = p
    BY <2>1, <2>4, <2>5
  <2>6. CASE x < p
    <3>1. slotOf(x, d) < slotOf(p, d)
      BY <2>2, <2>3, <2>6
    <3>2. slotOf(x, d) < slotOf(m, d)
      BY <2>4, <3>1
    <3> QED  BY <2>1, <3>2
  <2> QED  BY <1>1, <2>2, <2>5, <2>6
<1> QED  BY <1>1, <1>2, <1>3

\* Multiples below a bound: how far the rounds of a loop take it.
LEMMA RoundsReach ==
    ASSUME NEW d \in Nat \ {0}
    PROVE  /\ Rounds(d) \in Nat
           /\ \A k \in 0 .. Rounds(d) : k * d \in Nat /\ k * d <= MinutesPerDay + d
<1>0. MinutesPerDay = 1440
  BY DEF MinutesPerDay
<1>1. PICK q \in Int : q = MinutesPerDay \div d
  BY <1>0, Quotient
<1>2. Rounds(d) = q + 1
  BY <1>1 DEF Rounds
<1>3. 0 <= q
  <2>1. 0 * d <= MinutesPerDay
    BY <1>0
  <2> QED  BY <1>0, <1>1, <2>1, FitsExactly
<1>4. q * d <= MinutesPerDay /\ q * d \in Int
  BY <1>0, <1>1, FitsExactly
<1>5. ASSUME NEW k \in 0 .. Rounds(d) PROVE k * d \in Nat /\ k * d <= MinutesPerDay + d
  <2>1. k \in Int /\ k <= q + 1 /\ q + 1 \in Int
    BY <1>2, <1>3
  <2>2. k * d <= (q + 1) * d
    BY <2>1, TimesKeepsOrder
  <2>3. (q + 1) * d = q * d + d
    OBVIOUS
  <2>4. k * d \in Nat
    BY <1>2, <1>3
  <2> QED  BY <1>0, <1>4, <2>2, <2>3, <2>4
<1> QED  BY <1>2, <1>3, <1>5

\* No loop over a part of the day needs more.
LEMMA RoundsSuffice ==
    ASSUME NEW d \in Nat \ {0}, NEW a \in Int, a <= MinutesPerDay
    PROVE  a \div d \in Int /\ a \div d <= Rounds(d)
<1>0. MinutesPerDay = 1440
  BY DEF MinutesPerDay
<1>1. PICK q \in Int : q = MinutesPerDay \div d
  BY <1>0, Quotient
<1>2. Rounds(d) = q + 1
  BY <1>1 DEF Rounds
<1>3. PICK b \in Int : b = a \div d
  BY Quotient
<1>4. b * d <= a /\ b * d \in Int
  BY <1>3, FitsExactly
<1>5. b * d <= MinutesPerDay
  BY <1>0, <1>4
<1>6. b <= q
  BY <1>0, <1>1, <1>5, FitsExactly
<1> QED  BY <1>2, <1>3, <1>6

\* The rounds of an upward loop that come before the slot of minute m: those
\* whose start is before m.
LEMMA RoundsBelow ==
    ASSUME NEW r, NEW d, ExactStart(r, d), NEW m \in 0 .. MinutesPerDay,
           NEW first \in {0, 1}, NEW k \in first .. Rounds(d)
    PROVE  (\A j \in first .. k : slotOf(r + j * d, d) < slotOf(m, d)) <=> k <= (m - 1 - r) \div d
<1>0. MinutesPerDay = 1440 /\ d \in Nat \ {0} /\ r \in Nat /\ r <= 1439 /\ d \in SlotDurations
  BY SearchAssumption DEF MinutesPerDay, ExactStart
<1>1. PICK a \in Int : a = m - 1 - r
  BY <1>0
<1>2. PICK q \in Int : q = a \div d
  <2>1. a \div d \in Int
    BY <1>0, Quotient
  <2> QED  BY <2>1
<1>3. q * d <= a /\ q * d \in Int /\ a < (q + 1) * d /\ (q + 1) * d = q * d + d
  <2>1. q * d <= a /\ q * d \in Int /\ (q + 1) * d = q * d + d
    BY <1>0, <1>2, FitsExactly
  <2>2. q + 1 \in Int /\ ~(q + 1 <= a \div d)
    BY <1>2
  <2>3. ~((q + 1) * d <= a)
    BY <1>0, <2>2, FitsExactly
  <2> QED  BY <1>0, <2>1, <2>3
<1>4. k \in Int /\ first \in Int /\ first <= k /\ first \in 0 .. 1 /\ Rounds(d) \in Nat
  BY <1>0, RoundsReach
<1>5. ASSUME k <= q, NEW j \in first .. k PROVE slotOf(r + j * d, d) < slotOf(m, d)
  <2>1. j \in Int /\ j <= q /\ 0 <= j
    BY <1>4, <1>5
  <2>2. j * d <= q * d /\ j * d \in Nat
    BY <1>0, <2>1, TimesKeepsOrder
  <2>3. PICK x \in Nat : x = r + j * d
    BY <1>0, <2>2
  <2>4. x < m /\ x \in 0 .. MinutesPerDay + d /\ m \in 0 .. MinutesPerDay + d
    BY <1>0, <1>1, <1>3, <2>2, <2>3
  <2>5. slotOf(x, d) < slotOf(m, d)
    BY <1>0, <2>4, SlotOrder
  <2> QED  BY <2>3, <2>5
<1>6. ASSUME ~(k <= q) PROVE \E j \in first .. k : ~(slotOf(r + j * d, d) < slotOf(m, d))
  <2>1. PICK j \in first .. k : q + 1 <= j /\ (j = q + 1 \/ j = first)
    <3>1. CASE first <= q + 1
      <4>1. q + 1 \in first .. k
        BY <1>4, <1>6, <3>1
      <4> QED  BY <4>1
    <3>2. CASE ~(first <= q + 1)
      <4>1. first \in first .. k /\ q + 1 <= first
        BY <1>4, <3>2
      <4> QED  BY <4>1
    <3> QED  BY <3>1, <3>2
  <2>2. j \in Int /\ 0 <= j
    BY <1>4
  <2>3. (q + 1) * d <= j * d /\ j * d \in Nat
    <3>1. q + 1 \in Int
      OBVIOUS
    <3>2. (q + 1) * d <= j * d
      BY <1>0, <2>1, <2>2, <3>1, TimesKeepsOrder
    <3> QED  BY <1>0, <2>2, <3>2
  <2>4. PICK x \in Nat : x = r + j * d
    BY <1>0, <2>3
  <2>5. m <= x
    BY <1>0, <1>1, <1>3, <2>3, <2>4
  <2>6. x <= MinutesPerDay + d
    <3>1. CASE j = q + 1
      BY <1>0, <1>1, <1>3, <2>4, <3>1
    <3>2. CASE j = first
      <4>1. j = 0 \/ j = 1
        BY <1>4, <3>2
      <4>2. j * d = 0 \/ j * d = d
        BY <1>0, <4>1
      <4> QED  BY <1>0, <2>4, <4>2
    <3> QED  BY <2>1, <3>1, <3>2
  <2>7. /\ x \in 0 .. MinutesPerDay + d /\ m \in 0 .. MinutesPerDay + d
        /\ slotOf(x, d) \in Int /\ slotOf(m, d) \in Int
    <3>1. x \in 0 .. MinutesPerDay + d /\ m \in 0 .. MinutesPerDay + d
      BY <1>0, <2>4, <2>6
    <3> QED  BY <1>0, <3>1, SlotOrder
  <2>8. x = m \/ slotOf(m, d) < slotOf(x, d)
    <3>1. x = m \/ m < x
      BY <1>0, <2>4, <2>5
    <3> QED  BY <1>0, <2>7, <3>1, SlotOrder
  <2>9. ~(slotOf(x, d) < slotOf(m, d))
    BY <2>7, <2>8
  <2> QED  BY <2>4, <2>9
<1> QED  BY <1>1, <1>2, <1>5, <1>6

\* The durations are within the horizon.
LEMMA WithinHorizon ==
    ASSUME NEW d \in SlotDurations, NEW len \in ReservationDurations
    PROVE  /\ d \in Nat \ {0} /\ len \in Nat /\ Horizon \in Nat
           /\ 4320 + len + 4 * d <= Horizon
<1>1. 3 * MinutesPerDay + len + 4 * d <= Horizon
  BY DoublesAssumption
<1>2. 3 * MinutesPerDay = 4320
  BY DEF MinutesPerDay
<1> QED  BY <1>1, <1>2, DoubleFacts, SearchAssumption

\* What the loops visit, and the slots of the starts they stand for.
Below(w, first, R, m, d)   == {w[k] : k \in {k \in first .. R : \A j \in first .. k : w[j] < slotOf(m, d)}}
Natural(w, R)              == {w[k] : k \in {k \in 1 .. R : \A j \in 1 .. k : w[j] >= 0}}
SlotsFrom(r, first, m, d)  == {slotOf(r + k * d, d) : k \in first .. ((m - 1 - r) \div d)}
SlotsUpto(r, d)            == {slotOf(r - k * d, d) : k \in 1 .. (r \div d)}

\* An upward loop from an exact start visits the slots of the starts before m.
LEMMA UpwardLoop ==
    ASSUME NEW r, NEW d, NEW len \in ReservationDurations, ExactStart(r, d), NEW m \in 0 .. MinutesPerDay,
           NEW first \in {0, 1}, NEW R, R = Rounds(d), NEW w, w = Walk(slotOf(r, d), 1, R)
    PROVE  Below(w, first, R, m, d) = SlotsFrom(r, first, m, d)
<1>0. /\ MinutesPerDay = 1440 /\ d \in Nat \ {0} /\ r \in Nat /\ r <= 1439
      /\ d \in SlotDurations /\ (Grains * r) % d = 0
  BY SearchAssumption DEF MinutesPerDay, ExactStart
<1>1. Horizon \in Nat /\ 4320 + 4 * d <= Horizon
  BY <1>0, WithinHorizon
<1>2. R \in Nat
  BY <1>0, RoundsReach
<1>4. \A k \in 0 .. R : w[k] = slotOf(r + k * d, d)
  <2>1. PICK one \in Int : one = 1
    OBVIOUS
  <2>2. \A k \in 0 .. R : k * one = k
    BY <1>2, <2>1
  <2>3. Reaches(r, d, one, R)
    <3>1. SUFFICES ASSUME NEW k \in 0 .. R PROVE r + (k * one) * d \in -Horizon .. Horizon
      BY DEF Reaches
    <3>2. k * d \in Nat /\ k * d <= MinutesPerDay + d
      BY <1>0, RoundsReach
    <3>3. r + k * d \in -Horizon .. Horizon
      BY <1>0, <1>1, <3>2
    <3> QED  BY <2>2, <3>3
  <2>4. r \in 0 .. Horizon
    BY <1>0, <1>1
  <2>5. \A k \in 0 .. R : Walk(slotOf(r, d), one, R)[k] = slotOf(r + (k * one) * d, d)
    <3>1. one \in Int
      BY <2>1
    <3>2. Follows(r, d, one, R)
      <4>1. d \in SlotDurations /\ (Grains * r) % d = 0
        BY <1>0
      <4> QED  BY <1>2, <2>3, <2>4, <3>1, <4>1, WalkExact
    <3> QED  BY <3>2 DEF Follows
  <2> QED  BY <2>1, <2>2, <2>5
<1>5. PICK q \in Int : q = (m - 1 - r) \div d /\ q <= R
  <2>1. PICK a \in Int : a = m - 1 - r
    BY <1>0
  <2>2. a <= MinutesPerDay
    BY <1>0, <2>1
  <2>3. a \in Int /\ d \in Nat \ {0}
    BY <1>0, <2>1
  <2>4. a \div d \in Int /\ a \div d <= R
    BY <2>2, <2>3, RoundsSuffice
  <2> QED  BY <2>1, <2>4
<1>6. ASSUME NEW k \in first .. R
      PROVE  (\A j \in first .. k : w[j] < slotOf(m, d)) <=> k <= q
  <2>1. \A j \in first .. k : w[j] = slotOf(r + j * d, d)
    BY <1>2, <1>4
  <2>2. (\A j \in first .. k : slotOf(r + j * d, d) < slotOf(m, d)) <=> k <= q
    BY <1>5, RoundsBelow
  <2> QED  BY <2>1, <2>2
<1>7. {k \in first .. R : \A j \in first .. k : w[j] < slotOf(m, d)} = first .. q
  BY <1>2, <1>5, <1>6
<1>8. \A k \in first .. q : w[k] = slotOf(r + k * d, d)
  BY <1>2, <1>4, <1>5
<1>9. {w[k] : k \in first .. q} = {slotOf(r + k * d, d) : k \in first .. q}
  BY <1>8
<1> QED  BY <1>5, <1>7, <1>9 DEF Below, SlotsFrom

\* The downward loop from an exact start visits the slots of the starts from
\* midnight on.
LEMMA DownwardLoop ==
    ASSUME NEW r, NEW d, NEW len \in ReservationDurations, ExactStart(r, d),
           NEW R, R = Rounds(d), NEW w, w = Walk(slotOf(r, d), -1, R)
    PROVE  Natural(w, R) = SlotsUpto(r, d)
<1>0. /\ MinutesPerDay = 1440 /\ d \in Nat \ {0} /\ r \in Nat /\ r <= 1439
      /\ d \in SlotDurations /\ (Grains * r) % d = 0
  BY SearchAssumption DEF MinutesPerDay, ExactStart
<1>1. Horizon \in Nat /\ 4320 + 4 * d <= Horizon
  BY <1>0, WithinHorizon
<1>2. R \in Nat
  BY <1>0, RoundsReach
<1>3. \A k \in 0 .. R : k * d \in Nat /\ r - k * d \in -Horizon .. Horizon
  <2>1. SUFFICES ASSUME NEW k \in 0 .. R PROVE k * d \in Nat /\ r - k * d \in -Horizon .. Horizon
    OBVIOUS
  <2>2. k * d \in Nat /\ k * d <= MinutesPerDay + d
    BY <1>0, RoundsReach
  <2> QED  BY <1>0, <1>1, <2>2
<1>4. \A k \in 0 .. R : w[k] = slotOf(r - k * d, d)
  <2>1. PICK one \in Int : one = -1
    OBVIOUS
  <2>2. \A k \in 0 .. R : r + (k * one) * d = r - k * d
    <3>1. SUFFICES ASSUME NEW k \in 0 .. R PROVE r + (k * one) * d = r - k * d
      OBVIOUS
    <3>2. k * one = -k /\ (-k) * d = -(k * d) /\ k * d \in Int
      BY <1>0, <2>1
    <3> QED  BY <1>0, <3>2
  <2>3. Reaches(r, d, one, R)
    BY <1>3, <2>2 DEF Reaches
  <2>4. r \in 0 .. Horizon
    BY <1>0, <1>1
  <2>5. \A k \in 0 .. R : Walk(slotOf(r, d), one, R)[k] = slotOf(r + (k * one) * d, d)
    <3>1. one \in Int
      BY <2>1
    <3>2. Follows(r, d, one, R)
      <4>1. d \in SlotDurations /\ (Grains * r) % d = 0
        BY <1>0
      <4> QED  BY <1>2, <2>3, <2>4, <3>1, <4>1, WalkExact
    <3> QED  BY <3>2 DEF Follows
  <2> QED  BY <2>1, <2>2, <2>5
<1>5. PICK q \in Int : q = r \div d /\ q <= R
  <2>1. r \in Int /\ r <= MinutesPerDay
    BY <1>0
  <2>2. r \div d \in Int /\ r \div d <= R
    BY <1>0, <2>1, RoundsSuffice
  <2> QED  BY <2>2
<1>6. ASSUME NEW k \in 1 .. R PROVE w[k] >= 0 <=> k <= q
  <2>1. PICK x \in -Horizon .. Horizon : x = r - k * d
    BY <1>3
  <2>2. Away(r, d, x)
    <3>1. PICK n \in Int : n = -k
      OBVIOUS
    <3>2. x = r + n * d
      <4>1. n * d = -(k * d) /\ k * d \in Int
        BY <1>0, <3>1
      <4> QED  BY <1>0, <2>1, <4>1
    <3> QED  BY <1>0, <2>1, <3>1, <3>2 DEF Away
  <2>3. slotOf(x, d) \in Int /\ slotOf(x, d) * d = x * Unit
    BY <2>2, AwaySlot
  <2>4. PICK s \in Int, u \in Nat \ {0} : s = slotOf(x, d) /\ u = Unit
    BY <2>3, DoubleFacts
  <2>5. s * d = x * u /\ x \in Int
    BY <1>1, <2>3, <2>4
  <2>6. s >= 0 <=> x >= 0
    <3>1. ASSUME s < 0, x >= 0 PROVE FALSE
      <4>1. s * d + d <= 0 * d
        BY <1>0, <3>1, TimesKeepsOrder
      <4>2. x * u \in Nat
        BY <2>5, <3>1
      <4> QED  BY <1>0, <2>5, <4>1, <4>2
    <3>2. ASSUME s >= 0, x < 0 PROVE FALSE
      <4>1. x * u + u <= 0 * u
        BY <2>5, <3>2, TimesKeepsOrder
      <4>2. s * d \in Nat
        BY <1>0, <3>2
      <4> QED  BY <2>4, <2>5, <4>1, <4>2
    <3> QED  BY <2>5, <3>1, <3>2
  <2>7. x >= 0 <=> k <= q
    <3>1. k * d \in Int /\ (k <= r \div d <=> k * d <= r)
      BY <1>0, FitsExactly
    <3> QED  BY <1>0, <1>5, <2>1, <3>1
  <2>8. w[k] = s
    BY <1>4, <2>1, <2>4
  <2> QED  BY <2>6, <2>7, <2>8
<1>7. {k \in 1 .. R : \A j \in 1 .. k : w[j] >= 0} = 1 .. q
  <2>1. ASSUME NEW k \in 1 .. R PROVE (\A j \in 1 .. k : w[j] >= 0) <=> k <= q
    <3>1. \A j \in 1 .. k : j \in 1 .. R /\ j <= k
      BY <1>2
    <3>2. k \in 1 .. k
      OBVIOUS
    <3>3. (\A j \in 1 .. k : w[j] >= 0) => k <= q
      BY <1>6, <3>2
    <3>4. ASSUME k <= q, NEW j \in 1 .. k PROVE w[j] >= 0
      <4>1. j \in 1 .. R /\ j <= q
        BY <1>2, <1>5, <3>1, <3>4
      <4> QED  BY <1>6, <4>1
    <3> QED  BY <3>3, <3>4
  <2> QED  BY <1>2, <1>5, <2>1
<1>8. \A k \in 1 .. q : w[k] = slotOf(r - k * d, d)
  BY <1>2, <1>4, <1>5
<1>9. {w[k] : k \in 1 .. q} = {slotOf(r - k * d, d) : k \in 1 .. q}
  BY <1>8
<1> QED  BY <1>5, <1>7, <1>9 DEF Natural, SlotsUpto

\* The slots of a set of starting minutes.
SlotsOf(starts, d) == {slotOf(m, d) : m \in starts}

\* From an exact start, the slots the three loops visit are those of the starts.
LEMMA LoopsVisitStarts ==
    ASSUME NEW r, NEW d, NEW len \in ReservationDurations, ExactStart(r, d), NEW m \in 0 .. MinutesPerDay - 1
    PROVE  /\ LaterSlots(slotOf(r, d), d) = SlotsOf(LaterStarts(r, d), d)
           /\ EarlierSlots(slotOf(r, d), d) = SlotsOf(EarlierStarts(r, d), d)
           /\ RangeSlots(slotOf(r, d), slotOf(m, d), d) = SlotsOf(RangeStarts(r, m, d), d)
<1>0. MinutesPerDay \in 0 .. MinutesPerDay /\ m \in 0 .. MinutesPerDay
  BY DEF MinutesPerDay
<1>1. PICK R, up, down : /\ R = Rounds(d)
                         /\ up = Walk(slotOf(r, d), 1, R) /\ down = Walk(slotOf(r, d), -1, R)
  OBVIOUS
<1>2. PICK last, zero, one : last = MinutesPerDay /\ zero = 0 /\ one = 1
  OBVIOUS
<1>3. Below(up, one, R, last, d) = SlotsFrom(r, one, last, d)
  <2>1. last \in 0 .. MinutesPerDay /\ one \in {0, 1}
    BY <1>0, <1>2
  <2> QED  BY <1>1, <2>1, UpwardLoop
<1>4. Below(up, zero, R, m, d) = SlotsFrom(r, zero, m, d)
  <2>1. zero \in {0, 1}
    BY <1>2
  <2> QED  BY <1>0, <1>1, <2>1, UpwardLoop
<1>5. Natural(down, R) = SlotsUpto(r, d)
  BY <1>1, DownwardLoop
<1>6. LaterSlots(slotOf(r, d), d) = {slotOf(r + k * d, d) : k \in 1 .. ((MinutesPerDay - 1 - r) \div d)}
  BY <1>1, <1>2, <1>3 DEF LaterSlots, Upto, Below, SlotsFrom
<1>7. EarlierSlots(slotOf(r, d), d) = {slotOf(r - k * d, d) : k \in 1 .. (r \div d)}
  BY <1>1, <1>5 DEF EarlierSlots, Upto, Natural, SlotsUpto
<1>8. RangeSlots(slotOf(r, d), slotOf(m, d), d)
        = {slotOf(r + k * d, d) : k \in 0 .. ((m - 1 - r) \div d)}
  BY <1>1, <1>2, <1>4 DEF RangeSlots, Upto, Below, SlotsFrom
<1> QED  BY <1>6, <1>7, <1>8 DEF SlotsOf, LaterStarts, EarlierStarts, RangeStarts

\* In a multiple of the unit, the whole minutes are what one expects.
LEMMA WholeMinutes ==
    ASSUME NEW m \in Int
    PROVE  FirstMinute(m * Unit) = m /\ (m * Unit) \div Unit = m /\ (m * Unit) % Unit = 0
<1>1. PICK u \in Nat \ {0} : u = Unit
  BY DoubleFacts
<1>2. ASSUME NEW x \in Int PROVE (x * u) \div u = x /\ (x * u) % u = 0
  <2>1. PICK a \in Int : a = x * u
    OBVIOUS
  <2>2. PICK q \in Int, rest \in 0 .. u - 1 : q = a \div u /\ rest = a % u /\ a = u * q + rest
    BY Quotient
  <2>3. x * u = q * u + rest
    BY <2>1, <2>2
  <2>4. ~(x < q) /\ ~(q < x)
    <3>1. x < q => x * u + u <= q * u
      BY TimesKeepsOrder
    <3>2. q < x => q * u + u <= x * u
      BY TimesKeepsOrder
    <3>3. x * u \in Int /\ q * u \in Int
      OBVIOUS
    <3> QED  BY <2>3, <3>1, <3>2, <3>3
  <2>5. x = q /\ rest = 0
    BY <2>3, <2>4
  <2> QED  BY <2>1, <2>2, <2>5
<1>3. PICK n \in Int : n = -m
  OBVIOUS
<1>4. -(m * u) = n * u
  BY <1>3
<1>5. (n * u) \div u = n
  BY <1>2
<1>6. FirstMinute(m * u) = m
  BY <1>1, <1>3, <1>4, <1>5 DEF FirstMinute
<1> QED  BY <1>1, <1>2, <1>6

\* The window of the slot of a start, in minutes.
LEMMA WindowOf ==
    ASSUME TableOK, NEW r, ExactStart(r, slotDuration), NEW m \in 0 .. MinutesPerDay - 1,
           Away(r, slotDuration, m)
    PROVE  LET length == slotsPerReservation(slotDuration, reservationDuration)
           IN  /\ FirstMinute(minutesOf(slotOf(m, slotDuration), slotDuration)) = m
               /\ FirstMinute(minutesOf(plusSlots(slotOf(m, slotDuration), length), slotDuration))
                    = m + length * slotDuration
<1>1. PICK d, len : d = slotDuration /\ len = reservationDuration
  OBVIOUS
<1>2. d \in SlotDurations /\ len \in ReservationDurations
  BY <1>1 DEF TableOK
<1>3. d \in Nat \ {0} /\ len \in Nat /\ Horizon \in Nat /\ 4320 + len + 4 * d <= Horizon
  BY <1>2, WithinHorizon
<1>4. PICK n \in Int : n = slotsPerReservation(d, len) /\ n * d \in Nat /\ n * d <= len + d
  <2>1. slotsPerReservation(d, len) * d \in Nat
    BY <1>3, WindowCovers
  <2>2. PICK a \in Int : a = len + d - 1
    BY <1>3
  <2>3. PICK n \in Int : n = a \div d
    <3>1. a \div d \in Int
      BY <1>3, Quotient
    <3> QED  BY <3>1
  <2>4. n = slotsPerReservation(d, len)
    BY <2>2, <2>3 DEF slotsPerReservation
  <2>5. n * d <= a /\ n * d \in Int
    BY <1>3, <2>3, FitsExactly
  <2>6. n * d <= len + d
    BY <1>3, <2>2, <2>5
  <2> QED  BY <2>1, <2>4, <2>6
<1>5. PICK i \in Int : i = m + n * d
  BY <1>4 DEF MinutesPerDay
<1>6. i \in -Horizon .. Horizon /\ m \in Int
  BY <1>3, <1>4, <1>5 DEF MinutesPerDay
<1>7. Away(r, d, m) /\ n \in Int
  BY <1>1, <1>4
<1>8. plusSlots(slotOf(m, d), n) = slotOf(i, d) /\ Away(r, d, i)
  <2>1. IsPlus(i, m, n, d)
    BY <1>5, <1>6, <1>7 DEF IsPlus
  <2> QED  BY <1>7, <2>1, AwayPlus
<1>9. minutesOf(slotOf(m, d), d) = m * Unit
  BY <1>7, AwaySlot
<1>10. minutesOf(slotOf(i, d), d) = i * Unit
  BY <1>8, AwaySlot
<1>11. FirstMinute(m * Unit) = m /\ FirstMinute(i * Unit) = i
  BY <1>6, WholeMinutes
<1>12. FirstMinute(minutesOf(plusSlots(slotOf(m, d), n), d)) = i
  BY <1>8, <1>10, <1>11
<1> QED  BY <1>1, <1>4, <1>5, <1>9, <1>11, <1>12

\* Starts of the day whole slots away from r.
StartsOf(r, d, starts) == \A m \in starts : m \in 0 .. MinutesPerDay - 1 /\ Away(r, d, m)

\* Among the slots of such starts, those of the open starts are open.
LEMMA OpenAreOpen ==
    ASSUME TableOK, NEW r, ExactStart(r, slotDuration), NEW starts, StartsOf(r, slotDuration, starts),
           NEW g
    PROVE  OpenSlots(SlotsOf(starts, slotDuration), table, slotDuration, TotalSeats, g, reservationDuration)
             = SlotsOf(OpenStarts(starts, g), slotDuration)
<1> DEFINE d == slotDuration
           length == slotsPerReservation(slotDuration, reservationDuration)
           room(s) == isSlotAvailable(table, FirstMinute(minutesOf(s, d)),
                                      FirstMinute(minutesOf(plusSlots(s, length), d)), TotalSeats, g)
           open(m) == isSlotAvailable(table, m, m + length * d, TotalSeats, g)
<1>1. ASSUME NEW m \in starts PROVE room(slotOf(m, d)) <=> open(m)
  <2>1. m \in 0 .. MinutesPerDay - 1 /\ Away(r, slotDuration, m)
    BY DEF StartsOf
  <2>2. /\ FirstMinute(minutesOf(slotOf(m, d), d)) = m
        /\ FirstMinute(minutesOf(plusSlots(slotOf(m, d), length), d)) = m + length * d
    BY <2>1, WindowOf
  <2> QED  BY <2>2
<1>2. OpenSlots(SlotsOf(starts, d), table, d, TotalSeats, g, reservationDuration)
        = {s \in SlotsOf(starts, d) : room(s)}
  BY DEF OpenSlots
<1>3. OpenStarts(starts, g) = {m \in starts : open(m)}
  BY DEF OpenStarts
<1> HIDE DEF d, length, room, open
<1>4. {s \in SlotsOf(starts, d) : room(s)} = SlotsOf({m \in starts : open(m)}, d)
  BY <1>1 DEF SlotsOf
<1> QED  BY <1>2, <1>3, <1>4 DEF d

\* The starts the loops visit are such starts.
LEMMA LoopStarts ==
    ASSUME NEW r, NEW d, NEW len \in ReservationDurations, ExactStart(r, d), NEW end \in 0 .. MinutesPerDay - 1
    PROVE  /\ StartsOf(r, d, LaterStarts(r, d)) /\ StartsOf(r, d, EarlierStarts(r, d))
           /\ StartsOf(r, d, RangeStarts(r, end, d))
<1>0. /\ MinutesPerDay = 1440 /\ d \in Nat \ {0} /\ r \in 0 .. MinutesPerDay - 1 /\ r \in Int
      /\ d \in SlotDurations /\ (Grains * r) % d = 0
  BY SearchAssumption DEF MinutesPerDay, ExactStart
<1>1. Horizon \in Nat /\ 4320 + 4 * d <= Horizon
  BY <1>0, WithinHorizon
<1>2. ASSUME NEW m \in 0 .. MinutesPerDay - 1, \E k \in Int : m = r + k * d
      PROVE  Away(r, d, m)
  BY <1>0, <1>1, <1>2 DEF Away
<1>6. r \in 0 .. MinutesPerDay - 1 /\ d \in Nat \ {0}
  BY <1>0
<1>3. ASSUME NEW m \in LaterStarts(r, d) PROVE m \in 0 .. MinutesPerDay - 1 /\ Away(r, d, m)
  <2>1. m \in 0 .. MinutesPerDay - 1
    BY <1>6, LoopsCoverDay
  <2>2. PICK k \in 1 .. ((MinutesPerDay - 1 - r) \div d) : m = r + k * d
    BY DEF LaterStarts
  <2>3. k \in Int
    OBVIOUS
  <2> QED  BY <1>2, <2>1, <2>2, <2>3
<1>4. ASSUME NEW m \in EarlierStarts(r, d) PROVE m \in 0 .. MinutesPerDay - 1 /\ Away(r, d, m)
  <2>1. m \in 0 .. MinutesPerDay - 1
    BY <1>6, LoopsCoverDay
  <2>2. PICK k \in 1 .. (r \div d) : m = r - k * d
    BY DEF EarlierStarts
  <2>3. PICK n \in Int : n = -k
    OBVIOUS
  <2>4. m = r + n * d
    <3>1. n * d = -(k * d) /\ k * d \in Int
      BY <1>0, <2>3
    <3> QED  BY <1>0, <2>2, <3>1
  <2> QED  BY <1>2, <2>1, <2>4
<1>5. ASSUME NEW m \in RangeStarts(r, end, d) PROVE m \in 0 .. MinutesPerDay - 1 /\ Away(r, d, m)
  <2>1. m \in r .. end - 1
    BY <1>6, LoopCoversRange
  <2>2. m \in 0 .. MinutesPerDay - 1
    BY <1>0, <2>1
  <2>3. PICK k \in 0 .. ((end - 1 - r) \div d) : m = r + k * d
    BY DEF RangeStarts
  <2>4. k \in Int
    OBVIOUS
  <2> QED  BY <1>2, <2>2, <2>3, <2>4
<1> QED  BY <1>3, <1>4, <1>5 DEF StartsOf

\* The slot of a start is printed as that start.
LEMMA PrintedTime ==
    ASSUME NEW r, NEW d, NEW m \in 0 .. MinutesPerDay - 1, Away(r, d, m)
    PROVE  /\ slotTime(slotOf(m, d), d) = convertToTime(m)
           /\ isValidTimeString(convertToTime(m)) /\ convertToMinutes(convertToTime(m)) = m
<1>0. m \in Int
  BY DEF MinutesPerDay
<1>1. minutesOf(slotOf(m, d), d) = m * Unit
  BY AwaySlot
<1>2. (m * Unit) \div Unit = m /\ (m * Unit) % Unit = 0
  BY <1>0, WholeMinutes
<1>3. slotTime(slotOf(m, d), d) = convertToTime(m)
  BY <1>1, <1>2 DEF slotTime
<1> QED  BY <1>3, HoursAndRest DEF convertToTime, convertToMinutes, isValidTimeString

-----------------------------------------------------------------------------
(* The theorems.                                                           *)

\* A set of slots has a first and a last one: those of the first and the last
\* start.
LEMMA SlotsHaveEnds ==
    ASSUME NEW d \in SlotDurations, NEW starts \in SUBSET (0 .. MinutesPerDay - 1), starts # {}
    PROVE  /\ \E s \in SlotsOf(starts, d) : \A x \in SlotsOf(starts, d) : s <= x
           /\ \E s \in SlotsOf(starts, d) : \A x \in SlotsOf(starts, d) : s >= x
<1>1. MinutesPerDay - 1 \in Nat /\ d \in Nat \ {0} /\ starts \in SUBSET Nat
  BY SearchAssumption DEF MinutesPerDay
<1>2. PICK n \in Nat : n = MinutesPerDay - 1
  BY <1>1
<1>3. PICK a \in starts : \A x \in starts : a <= x
  BY <1>1, HasLeast
<1>4. PICK b \in starts : \A x \in starts : b >= x
  <2>1. starts \in SUBSET (0 .. n)
    BY <1>2
  <2> QED  BY <2>1, HasGreatest
<1>5. ASSUME NEW x \in starts, NEW y \in starts, x <= y
      PROVE  slotOf(x, d) <= slotOf(y, d)
  <2>1. x \in 0 .. MinutesPerDay + d /\ y \in 0 .. MinutesPerDay + d
    BY <1>1 DEF MinutesPerDay
  <2>2. /\ slotOf(x, d) \in Int /\ slotOf(y, d) \in Int
        /\ x < y => slotOf(x, d) < slotOf(y, d)
    BY <2>1, SlotOrder
  <2>3. CASE x = y
    BY <2>2, <2>3
  <2>4. CASE x < y
    BY <2>2, <2>4
  <2>5. x \in Int /\ y \in Int
    BY <1>1
  <2> QED  BY <1>5, <2>3, <2>4, <2>5
<1>6. ASSUME NEW x \in SlotsOf(starts, d)
      PROVE  slotOf(a, d) <= x /\ slotOf(b, d) >= x
  <2>1. PICK m \in starts : x = slotOf(m, d)
    BY DEF SlotsOf
  <2>2. slotOf(a, d) <= slotOf(m, d) /\ slotOf(m, d) <= slotOf(b, d)
    <3>1. a <= m /\ m <= b
      BY <1>1, <1>3, <1>4
    <3> QED  BY <1>5, <3>1
  <2>3. \A z \in starts : slotOf(z, d) \in Int
    <3>1. ASSUME NEW z \in starts PROVE slotOf(z, d) \in Int
      <4>1. z \in 0 .. MinutesPerDay + d
        BY <1>1 DEF MinutesPerDay
      <4> QED  BY <4>1, SlotOrder
    <3> QED  BY <3>1
  <2> QED  BY <2>1, <2>2, <2>3
<1>7. slotOf(a, d) \in SlotsOf(starts, d) /\ slotOf(b, d) \in SlotsOf(starts, d)
  BY DEF SlotsOf
<1> QED  BY <1>6, <1>7

\* What the two loops find from an exact start: slots of open starts, and nothing
\* only if there is none.
LEMMA NearestFinds ==
    ASSUME TableOK, NEW t \in Times, Exact(t), NEW g \in PartySizes
    PROVE  LET r    == convertToMinutes(t)
               open == OpenStarts(LaterStarts(r, slotDuration), g)
                         \cup OpenStarts(EarlierStarts(r, slotDuration), g)
           IN  /\ \A n \in DOMAIN Nearest(t, g) :
                    \E m \in open : Nearest(t, g)[n] = slotOf(m, slotDuration)
               /\ Nearest(t, g) = <<>> => open = {}
<1> DEFINE r       == convertToMinutes(t)
           above   == OpenStarts(LaterStarts(r, slotDuration), g)
           below   == OpenStarts(EarlierStarts(r, slotDuration), g)
           later   == SlotsOf(above, slotDuration)
           earlier == SlotsOf(below, slotDuration)
           first   == CHOOSE s \in later : \A x \in later : s <= x
           last    == CHOOSE s \in earlier : \A x \in earlier : s >= x
           up      == IF later = {} THEN <<>> ELSE <<first>>
           down    == IF earlier = {} THEN <<>> ELSE <<last>>
<1>1. /\ r \in 0 .. MinutesPerDay - 1 /\ slotDuration \in Nat \ {0}
      /\ slotDuration \in SlotDurations /\ reservationDuration \in ReservationDurations
  BY SearchAssumption, MinuteOfDay DEF TableOK
<1>2. ExactStart(r, slotDuration)
  BY <1>1 DEF Exact, ExactStart
<1>3. PICK d, len : d = slotDuration /\ len = reservationDuration
  OBVIOUS
<1>4. /\ LaterSlots(slotOf(r, d), d) = SlotsOf(LaterStarts(r, d), d)
      /\ EarlierSlots(slotOf(r, d), d) = SlotsOf(EarlierStarts(r, d), d)
      /\ StartsOf(r, d, LaterStarts(r, d)) /\ StartsOf(r, d, EarlierStarts(r, d))
  <2>1. ExactStart(r, d) /\ len \in ReservationDurations /\ r \in 0 .. MinutesPerDay - 1
    BY <1>1, <1>2, <1>3
  <2> HIDE DEF r
  <2> QED  BY <2>1, LoopsVisitStarts, LoopStarts
<1>5. /\ OpenSlots(SlotsOf(LaterStarts(r, slotDuration), slotDuration), table, slotDuration, TotalSeats,
                   g, reservationDuration) = later
      /\ OpenSlots(SlotsOf(EarlierStarts(r, slotDuration), slotDuration), table, slotDuration, TotalSeats,
                   g, reservationDuration) = earlier
  <2>1. /\ StartsOf(r, slotDuration, LaterStarts(r, slotDuration))
        /\ StartsOf(r, slotDuration, EarlierStarts(r, slotDuration))
    BY <1>3, <1>4
  <2> HIDE DEF r
  <2> QED  BY <1>2, <2>1, OpenAreOpen
<1>6. Nearest(t, g) = up \o down
  BY <1>3, <1>4, <1>5 DEF Nearest, findNearestAvailableSlots
<1>7. above \subseteq 0 .. MinutesPerDay - 1 /\ below \subseteq 0 .. MinutesPerDay - 1
  <2>1. LaterStarts(r, slotDuration) \cup EarlierStarts(r, slotDuration) \subseteq 0 .. MinutesPerDay - 1
    <3> HIDE DEF r
    <3> QED  BY <1>1, LoopsCoverDay
  <2> QED  BY <2>1 DEF OpenStarts
<1>8. (above = {} <=> later = {}) /\ (below = {} <=> earlier = {})
  <2> HIDE DEF above, below
  <2> QED  BY DEF SlotsOf
<1>9. later # {} => first \in later
  <2>1. ASSUME later # {} PROVE \E s \in later : \A x \in later : s <= x
    <3>1. above # {} /\ slotDuration \in SlotDurations /\ above \in SUBSET (0 .. MinutesPerDay - 1)
      BY <1>1, <1>7, <1>8, <2>1
    <3> HIDE DEF above
    <3> QED  BY <3>1, SlotsHaveEnds
  <2> HIDE DEF later
  <2> QED  BY <2>1
<1>10. earlier # {} => last \in earlier
  <2>1. ASSUME earlier # {} PROVE \E s \in earlier : \A x \in earlier : s >= x
    <3>1. below # {} /\ slotDuration \in SlotDurations /\ below \in SUBSET (0 .. MinutesPerDay - 1)
      BY <1>1, <1>7, <1>8, <2>1
    <3> HIDE DEF below
    <3> QED  BY <3>1, SlotsHaveEnds
  <2> HIDE DEF earlier
  <2> QED  BY <2>1
<1>11. \A s \in later \cup earlier : \E m \in above \cup below : s = slotOf(m, slotDuration)
  <2> HIDE DEF above, below
  <2> QED  BY DEF SlotsOf
<1> HIDE DEF later, earlier, first, last
<1>12. /\ \A n \in DOMAIN (up \o down) : (up \o down)[n] \in later \cup earlier
       /\ up \o down = <<>> => later = {} /\ earlier = {}
  <2>1. CASE later = {} /\ earlier = {}
    BY <2>1
  <2>2. CASE later # {} /\ earlier = {}
    BY <1>9, <2>2
  <2>3. CASE later = {} /\ earlier # {}
    BY <1>10, <2>3
  <2>4. CASE later # {} /\ earlier # {}
    <3>1. up \o down = <<first, last>>
      <4> DEFINE c == <<first>> \o <<last>>
                 T == {first, last}
      <4>1. <<first>> \in Seq(T) /\ <<last>> \in Seq(T) /\ <<first, last>> \in Seq(T)
        OBVIOUS
      <4>2. Len(<<first>>) = 1 /\ Len(<<last>>) = 1 /\ Len(<<first, last>>) = 2
        OBVIOUS
      <4>3. c \in Seq(T) /\ Len(c) = 2 /\ c[1] = first /\ c[2] = last
        BY <4>1, <4>2, ConcatProperties
      <4>4. up \o down = c
        BY <2>4
      <4> HIDE DEF c
      <4>5. \A i \in 1 .. Len(c) : c[i] = <<first, last>>[i]
        BY <4>3
      <4> QED  BY <4>1, <4>2, <4>3, <4>4, <4>5, SeqEqual
    <3> QED  BY <1>9, <1>10, <2>4, <3>1
  <2> QED  BY <2>1, <2>2, <2>3, <2>4
<1>13. above \cup below = {} <=> later = {} /\ earlier = {}
  BY <1>8
<1> HIDE DEF above, below, up, down
<1> QED  BY <1>6, <1>11, <1>12, <1>13 DEF above, below

-----------------------------------------------------------------------------
(* The sum of the guests.                                                  *)

\* One round of the reduce.
Add(rows, from, to, n, sum) ==
    IF convertToMinutes(rows[n].time) >= from /\ convertToMinutes(rows[n].time) < to
    THEN sum + rows[n].guests ELSE sum

\* The states of the reduce.
IsSum(rows, from, to, m, f) ==
    f = [n \in 0 .. m |-> IF n = 0 THEN 0 ELSE Add(rows, from, to, n, f[n - 1])]

\* There are such states.
LEMMA SumExists ==
    ASSUME NEW rows, NEW from, NEW to, NEW M \in Nat
    PROVE  \E f : IsSum(rows, from, to, M, f)
<1> DEFINE Bad == {m \in Nat : ~\E f : IsSum(rows, from, to, m, f)}
<1>1. SUFFICES ASSUME Bad # {} PROVE FALSE
  OBVIOUS
<1>2. PICK m \in Bad : \A x \in Bad : m <= x
  <2>1. Bad \in SUBSET Nat
    OBVIOUS
  <2> HIDE DEF Bad
  <2> QED  BY <1>1, <2>1, HasLeast
<1>3. m # 0
  <2>1. IsSum(rows, from, to, 0, [n \in 0 .. 0 |-> 0])
    BY DEF IsSum
  <2> QED  BY <2>1
<1>4. PICK j \in Nat : j = m - 1
  BY <1>3
<1>5. j \notin Bad
  BY <1>2, <1>4
<1>6. PICK f : IsSum(rows, from, to, j, f)
  BY <1>5
<1> DEFINE g == [n \in 0 .. m |-> IF n = m THEN Add(rows, from, to, m, f[j]) ELSE f[n]]
<1>7. ASSUME NEW n \in 0 .. m
      PROVE  g[n] = IF n = 0 THEN 0 ELSE Add(rows, from, to, n, g[n - 1])
  <2>1. \A x \in 0 .. j : g[x] = f[x]
    BY <1>4
  <2>2. \A x \in 0 .. j : f[x] = IF x = 0 THEN 0 ELSE Add(rows, from, to, x, f[x - 1])
    BY <1>6 DEF IsSum
  <2>3. CASE n = m
    <3>1. g[n] = Add(rows, from, to, m, f[j]) /\ n - 1 = j /\ n # 0 /\ j \in 0 .. j
      BY <1>3, <1>4, <2>3
    <3> HIDE DEF g
    <3> QED  BY <2>1, <2>3, <3>1
  <2>4. CASE n # m
    <3>1. n \in 0 .. j /\ (n # 0 => n - 1 \in 0 .. j)
      BY <1>4, <2>4
    <3> HIDE DEF g
    <3> QED  BY <2>1, <2>2, <3>1
  <2> QED  BY <2>3, <2>4
<1>8. IsSum(rows, from, to, m, g)
  <2>1. g = [n \in 0 .. m |-> g[n]]
    OBVIOUS
  <2> HIDE DEF g
  <2> QED  BY <1>7, <2>1 DEF IsSum
<1> QED  BY <1>8

\* The reduce goes through them.
LEMMA SumRounds ==
    ASSUME NEW rows, Len(rows) \in Nat, NEW from, NEW to
    PROVE  \E f : /\ Reduced(rows, from, to) = f[Len(rows)] /\ f[0] = 0
                  /\ \A n \in 1 .. Len(rows) : f[n] = Add(rows, from, to, n, f[n - 1])
<1>1. \E f : IsSum(rows, from, to, Len(rows), f)
  BY SumExists
<1>2. Reduced(rows, from, to) = (CHOOSE f : IsSum(rows, from, to, Len(rows), f))[Len(rows)]
  BY DEF Reduced, IsSum, Add
<1>3. PICK f : f = CHOOSE h : IsSum(rows, from, to, Len(rows), h)
  OBVIOUS
<1>4. IsSum(rows, from, to, Len(rows), f)
  BY <1>1, <1>3
<1>5. f[0] = 0 /\ \A n \in 1 .. Len(rows) : f[n] = Add(rows, from, to, n, f[n - 1])
  <2>1. PICK m \in Nat : m = Len(rows)
    OBVIOUS
  <2>2. \A n \in 0 .. m : f[n] = IF n = 0 THEN 0 ELSE Add(rows, from, to, n, f[n - 1])
    BY <1>4, <2>1 DEF IsSum
  <2>3. 0 \in 0 .. m /\ \A n \in 1 .. m : n \in 0 .. m /\ n # 0
    BY <2>1
  <2> QED  BY <2>1, <2>2, <2>3
<1> QED  BY <1>2, <1>3, <1>5

\* After n rounds the reduce has counted the seats of the rows up to n.
LEMMA SumIsSeats ==
    ASSUME NEW rows \in Seq(Rows), NEW from, NEW to
    PROVE  occupiedSeats(rows, from, to) = Reduced(rows, from, to)
<1>1. Len(rows) \in Nat /\ DOMAIN rows = 1 .. Len(rows)
  BY LenProperties
<1>2. PICK f : /\ Reduced(rows, from, to) = f[Len(rows)] /\ f[0] = 0
               /\ \A n \in 1 .. Len(rows) : f[n] = Add(rows, from, to, n, f[n - 1])
  BY <1>1, SumRounds
<1>3. PICK S : S = StartingIn(rows, from, to)
  OBVIOUS
<1>4. S \subseteq 1 .. Len(rows)
      /\ \A n \in 1 .. Len(rows) : n \in S <=> /\ convertToMinutes(rows[n].time) >= from
                                               /\ convertToMinutes(rows[n].time) < to
  BY <1>1, <1>3 DEF StartingIn
<1> DEFINE RowsTo(n) == S \cap (1 .. n)
           Good(n) == /\ IsFiniteSet(SeatsOf(rows, RowsTo(n)))
                      /\ Cardinality(SeatsOf(rows, RowsTo(n))) = f[n]
           Bad == {n \in 0 .. Len(rows) : ~Good(n)}
<1>5. Good(0)
  <2>1. RowsTo(0) = {}
    OBVIOUS
  <2>2. SeatsOf(rows, {}) = {}
    BY DEF SeatsOf
  <2>3. SeatsOf(rows, RowsTo(0)) = {}
    BY <2>1, <2>2
  <2> HIDE DEF RowsTo
  <2> QED  BY <1>2, <2>3, FS_EmptySet
<1>6. ASSUME NEW n \in 1 .. Len(rows), Good(n - 1) PROVE Good(n)
  <2>1. PICK T : T = RowsTo(n - 1)
    OBVIOUS
  <2>2. IsFiniteSet(SeatsOf(rows, T)) /\ Cardinality(SeatsOf(rows, T)) = f[n - 1]
    BY <1>6, <2>1
  <2>3. n \notin T
    BY <1>1, <2>1
  <2>4. rows[n].guests \in Nat
    <3>1. rows[n] \in Rows
      BY ElementOfSeq
    <3> QED  BY <3>1, SearchAssumption DEF Rows
  <2>5. CASE n \in S
    <3>1. RowsTo(n) = T \cup {n}
      BY <1>1, <2>1, <2>5
    <3>2. f[n] = f[n - 1] + rows[n].guests
      BY <1>2, <1>4, <2>5 DEF Add
    <3>3. /\ IsFiniteSet(SeatsOf(rows, T \cup {n}))
          /\ Cardinality(SeatsOf(rows, T \cup {n})) = Cardinality(SeatsOf(rows, T)) + rows[n].guests
      BY <2>2, <2>3, <2>4, SeatsAdd
    <3> HIDE DEF RowsTo
    <3> QED  BY <2>2, <3>1, <3>2, <3>3
  <2>6. CASE n \notin S
    <3>1. RowsTo(n) = T
      BY <1>1, <2>1, <2>6
    <3>2. f[n] = f[n - 1]
      BY <1>2, <1>4, <2>6 DEF Add
    <3> HIDE DEF RowsTo
    <3> QED  BY <2>2, <3>1, <3>2
  <2> QED  BY <2>5, <2>6
<1>7. ASSUME Bad # {} PROVE FALSE
  <2>1. PICK n \in Bad : \A x \in Bad : n <= x
    <3>1. Bad \in SUBSET Nat
      BY <1>1
    <3> HIDE DEF Bad
    <3> QED  BY <1>7, <3>1, HasLeast
  <2>2. n \in 1 .. Len(rows) /\ n - 1 \in 0 .. Len(rows) /\ ~(n <= n - 1)
    <3> HIDE DEF Good
    <3> QED  BY <1>1, <1>5, <2>1
  <2>3. Good(n - 1)
    <3> HIDE DEF Good
    <3> QED  BY <2>1, <2>2
  <2> HIDE DEF Good
  <2> QED  BY <1>6, <2>1, <2>2, <2>3
<1>8. Good(Len(rows)) /\ RowsTo(Len(rows)) = S
  <2>1. Len(rows) \in 0 .. Len(rows) /\ Len(rows) \notin Bad
    <3>1. Len(rows) \in 0 .. Len(rows)
      BY <1>1
    <3> HIDE DEF Bad
    <3> QED  BY <1>7, <3>1
  <2>2. Good(Len(rows))
    <3> HIDE DEF Good
    <3> QED  BY <2>1
  <2>3. RowsTo(Len(rows)) = S
    BY <1>4
  <2> QED  BY <2>2, <2>3
<1> HIDE DEF RowsTo
<1> QED  BY <1>2, <1>3, <1>8 DEF occupiedSeats

\* However many rows the table has, isSlotAvailable's sum is the number of seats
\* that the rows of the window take (SeatsAreGuests).
THEOREM Sums == Spec => []SeatsAreGuests
<1>1. ASSUME TableOK PROVE SeatsAreGuests
  <2>1. PICK rows \in Seq(Rows) : rows = table
    BY <1>1 DEF TableOK
  <2> QED  BY <2>1, SumIsSeats DEF SeatsAreGuests
<1> QED  BY <1>1, TableInvariance, PTL

-----------------------------------------------------------------------------
(* The searches.                                                           *)

\* What createReservation suggests for an exact time, it would accept
\* (SuggestionsBookable).
THEOREM Suggestions == Spec => []SuggestionsBookable
<1>1. ASSUME TableOK PROVE SuggestionsBookable
  <2>1. SUFFICES ASSUME NEW t \in Times, NEW g \in PartySizes, Exact(t), NEW n \in DOMAIN Nearest(t, g)
                 PROVE  LET time == slotTime(Nearest(t, g)[n], slotDuration)
                        IN  isValidTimeString(time) /\ Bookable(convertToMinutes(time), g)
    BY DEF SuggestionsBookable
  <2> DEFINE r == convertToMinutes(t)
             later == LaterStarts(r, slotDuration)
             earlier == EarlierStarts(r, slotDuration)
  <2>2. /\ r \in 0 .. MinutesPerDay - 1 /\ slotDuration \in Nat \ {0}
        /\ slotDuration \in SlotDurations /\ reservationDuration \in ReservationDurations
    BY <1>1, SearchAssumption, MinuteOfDay DEF TableOK
  <2>3. ExactStart(r, slotDuration)
    BY <2>1, <2>2 DEF Exact, ExactStart
  <2>4. PICK m \in OpenStarts(later, g) \cup OpenStarts(earlier, g) :
            Nearest(t, g)[n] = slotOf(m, slotDuration)
    BY <1>1, <2>1, NearestFinds
  <2> HIDE DEF r
  <2>5. later \cup earlier \subseteq 0 .. MinutesPerDay - 1
    BY <2>2, LoopsCoverDay
  <2>6. later \subseteq Int /\ earlier \subseteq Int
    BY <2>5 DEF MinutesPerDay
  <2>7. StartsOf(r, slotDuration, later) /\ StartsOf(r, slotDuration, earlier)
    <3>1. PICK d, len : d = slotDuration /\ len = reservationDuration
      OBVIOUS
    <3>2. len \in ReservationDurations /\ ExactStart(r, d)
      BY <2>2, <2>3, <3>1
    <3>3. StartsOf(r, d, LaterStarts(r, d)) /\ StartsOf(r, d, EarlierStarts(r, d))
      BY <2>2, <3>2, LoopStarts
    <3> QED  BY <3>1, <3>3
  <2> HIDE DEF later, earlier
  <2>8. m \in later \cup earlier /\ Bookable(m, g)
    BY <1>1, <2>6, OpenIsBookable
  <2>9. m \in 0 .. MinutesPerDay - 1 /\ Away(r, slotDuration, m)
    BY <2>7, <2>8 DEF StartsOf
  <2>10. PICK d : d = slotDuration
    OBVIOUS
  <2>11. /\ slotTime(slotOf(m, d), d) = convertToTime(m)
         /\ isValidTimeString(convertToTime(m)) /\ convertToMinutes(convertToTime(m)) = m
    <3>1. m \in 0 .. MinutesPerDay - 1 /\ Away(r, d, m)
      BY <2>9, <2>10
    <3> QED  BY <3>1, PrintedTime
  <2> QED  BY <2>4, <2>8, <2>10, <2>11
<1> QED  BY <1>1, TableInvariance, PTL

\* When createReservation suggests nothing for an exact time, no other start of
\* the day, whole slots from the one asked for, has room (RefusalIsTrue).
THEOREM Refusal == Spec => []RefusalIsTrue
<1>1. ASSUME TableOK PROVE RefusalIsTrue
  <2>1. SUFFICES ASSUME WholeSlots, NEW t \in Times, NEW g \in PartySizes, Exact(t),
                        Nearest(t, g) = <<>>,
                        NEW m \in Grid(t) \ {convertToMinutes(t)}, Bookable(m, g)
                 PROVE  FALSE
    BY DEF RefusalIsTrue
  <2> DEFINE r == convertToMinutes(t)
             later == LaterStarts(r, slotDuration)
             earlier == EarlierStarts(r, slotDuration)
  <2>2. r \in 0 .. MinutesPerDay - 1 /\ slotDuration \in Nat \ {0}
    BY <1>1, SearchAssumption, MinuteOfDay DEF TableOK
  <2>3. later \cup earlier \subseteq 0 .. MinutesPerDay - 1
    BY <2>2, LoopsCoverDay
  <2>4. m \in later \cup earlier
    <3>1. MinutesPerDay \div slotDuration \in Int /\ MinutesPerDay \in Int
      BY <2>2, Quotient DEF MinutesPerDay
    <3>2. PICK k \in Int : m = r + k * slotDuration
      BY <2>1, <3>1 DEF Grid
    <3>3. m \in 0 .. MinutesPerDay - 1 /\ m # r
      BY <2>1 DEF Grid
    <3>4. k # 0
      BY <2>2, <3>1, <3>2, <3>3
    <3> QED  BY <2>2, <3>2, <3>3, <3>4, LoopsCoverDay
  <2>5. later \subseteq Int /\ earlier \subseteq Int
    BY <2>3 DEF MinutesPerDay
  <2>6. OpenStarts(later, g) \cup OpenStarts(earlier, g) = {}
    BY <1>1, <2>1, NearestFinds
  <2> HIDE DEF later, earlier
  <2>7. m \in OpenStarts(later, g) \cup OpenStarts(earlier, g)
    BY <1>1, <2>1, <2>4, <2>5, OpenIsBookable
  <2> QED  BY <2>6, <2>7
<1> QED  BY <1>1, TableInvariance, PTL

\* checkAvailability lists for a range with an exact start what it accepts for
\* the single times, and all of it if a reservation lasts a whole number of slots
\* (RangeAgreesWithTime).
THEOREM RangeAndTime == Spec => []RangeAgreesWithTime
<1>1. ASSUME TableOK PROVE RangeAgreesWithTime
  <2>1. SUFFICES ASSUME NEW a \in Times, NEW b \in Times, NEW g \in PartySizes, Exact(a)
                 PROVE  LET times  == {slotTime(s, slotDuration) : s \in InRange(a, b, g)}
                            listed == {convertToMinutes(time) : time \in times}
                            wanted == {m \in Grid(a) : /\ m >= convertToMinutes(a)
                                                       /\ m < convertToMinutes(b)
                                                       /\ Bookable(m, g)}
                        IN  /\ \A time \in times : isValidTimeString(time)
                            /\ listed \subseteq wanted
                            /\ WholeSlots => listed = wanted
    BY DEF RangeAgreesWithTime
  <2> DEFINE r == convertToMinutes(a)
             end == convertToMinutes(b)
             starts == RangeStarts(r, end, slotDuration)
             open == OpenStarts(starts, g)
             days == MinutesPerDay \div slotDuration
             times == {slotTime(s, slotDuration) : s \in InRange(a, b, g)}
             listed == {convertToMinutes(time) : time \in times}
             wanted == {m \in Grid(a) : m >= r /\ m < end /\ Bookable(m, g)}
  <2>2. /\ r \in 0 .. MinutesPerDay - 1 /\ end \in 0 .. MinutesPerDay - 1
        /\ slotDuration \in Nat \ {0} /\ MinutesPerDay \in Nat
        /\ slotDuration \in SlotDurations /\ reservationDuration \in ReservationDurations
    BY <1>1, SearchAssumption, MinuteOfDay DEF TableOK, MinutesPerDay
  <2>3. ExactStart(r, slotDuration)
    BY <2>1, <2>2 DEF Exact, ExactStart
  <2>4. /\ \A m \in starts : m \in r .. end - 1 /\ \E k \in 0 .. days : m = r + k * slotDuration
        /\ \A k \in Int : r + k * slotDuration \in r .. end - 1 => r + k * slotDuration \in starts
    BY <2>2, LoopCoversRange
  <2>5. Grid(a) = {r + k * slotDuration : k \in -days .. days} \cap (0 .. MinutesPerDay - 1)
    BY DEF Grid
  <2>6. days \in Int /\ starts \subseteq Int
    BY <2>2, <2>4, Quotient
  <2>7. InRange(a, b, g) = OpenSlots(RangeSlots(slotOf(r, slotDuration), slotOf(end, slotDuration),
                                                slotDuration),
                                     table, slotDuration, TotalSeats, g, reservationDuration)
    BY DEF InRange, findAvailableSlots
  <2> HIDE DEF r, end
  <2>8. PICK d, len : d = slotDuration /\ len = reservationDuration
    OBVIOUS
  <2>9. /\ RangeSlots(slotOf(r, d), slotOf(end, d), d) = SlotsOf(RangeStarts(r, end, d), d)
        /\ StartsOf(r, d, RangeStarts(r, end, d))
    <3>1. ExactStart(r, d) /\ len \in ReservationDurations /\ end \in 0 .. MinutesPerDay - 1
      BY <2>2, <2>3, <2>8
    <3> QED  BY <3>1, LoopsVisitStarts, LoopStarts
  <2> HIDE DEF days
  <2>10. InRange(a, b, g) = SlotsOf(open, slotDuration)
    <3>1. StartsOf(r, slotDuration, starts)
      BY <2>8, <2>9
    <3> HIDE DEF starts
    <3>2. OpenSlots(SlotsOf(starts, slotDuration), table, slotDuration, TotalSeats, g, reservationDuration)
            = SlotsOf(open, slotDuration)
      BY <1>1, <2>3, <3>1, OpenAreOpen
    <3>3. RangeSlots(slotOf(r, slotDuration), slotOf(end, slotDuration), slotDuration)
            = SlotsOf(starts, slotDuration)
      BY <2>8, <2>9 DEF starts
    <3> QED  BY <2>7, <3>2, <3>3
  <2>11. ASSUME NEW m \in starts
         PROVE  /\ slotTime(slotOf(m, slotDuration), slotDuration) = convertToTime(m)
                /\ isValidTimeString(convertToTime(m)) /\ convertToMinutes(convertToTime(m)) = m
    <3>1. m \in 0 .. MinutesPerDay - 1 /\ Away(r, d, m)
      BY <2>8, <2>9 DEF StartsOf
    <3>2. /\ slotTime(slotOf(m, d), d) = convertToTime(m)
          /\ isValidTimeString(convertToTime(m)) /\ convertToMinutes(convertToTime(m)) = m
      BY <3>1, PrintedTime
    <3> QED  BY <2>8, <3>2
  <2> HIDE DEF starts
  <2>12. /\ open \subseteq starts
         /\ \A m \in open : Bookable(m, g)
         /\ WholeSlots => \A m \in starts : Bookable(m, g) => m \in open
    BY <1>1, <2>6, OpenIsBookable
  <2> HIDE DEF open
  <2>13. (\A time \in times : isValidTimeString(time)) /\ listed = open
    <3>1. times = {convertToTime(m) : m \in open}
      BY <2>10, <2>11, <2>12 DEF SlotsOf
    <3>2. \A m \in open : /\ isValidTimeString(convertToTime(m))
                          /\ convertToMinutes(convertToTime(m)) = m
      BY <2>11, <2>12
    <3> HIDE DEF times
    <3> QED  BY <3>1, <3>2
  <2>14. ASSUME NEW m \in open PROVE m \in wanted
    <3>1. m \in starts /\ Bookable(m, g)
      BY <2>12
    <3>2. PICK k \in 0 .. days : m = r + k * slotDuration
      BY <2>4, <3>1
    <3>3. k \in -days .. days
      BY <2>6
    <3>4. m \in Int /\ m >= r /\ m < end
      BY <2>2, <2>4, <3>1
    <3>5. m \in 0 .. MinutesPerDay - 1
      BY <2>2, <3>4
    <3>6. m \in Grid(a)
      BY <2>5, <3>2, <3>3, <3>5
    <3> QED  BY <3>1, <3>4, <3>6
  <2>15. ASSUME WholeSlots, NEW m \in wanted PROVE m \in open
    <3>1. PICK k \in Int : m = r + k * slotDuration
      BY <2>5, <2>6
    <3>2. m \in r .. end - 1
      <4>1. m \in 0 .. MinutesPerDay - 1 /\ m >= r /\ m < end
        BY <2>5
      <4> QED  BY <2>2, <4>1
    <3>3. m \in starts
      BY <2>4, <3>1, <3>2
    <3> QED  BY <2>12, <2>15, <3>3
  <2>16. /\ \A time \in times : isValidTimeString(time)
         /\ listed \subseteq wanted
         /\ WholeSlots => listed = wanted
    <3> HIDE DEF times, listed, wanted
    <3> QED  BY <2>13, <2>14, <2>15
  <2> QED  BY <2>16 DEF r, end
<1> QED  BY <1>1, TableInvariance, PTL
=============================================================================
