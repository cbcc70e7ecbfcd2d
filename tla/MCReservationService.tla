------------------------ MODULE MCReservationService ------------------------
(***************************************************************************)
(* Instances of ReservationService for TLC: the input sets of the runs.    *)
(***************************************************************************)
EXTENDS ReservationRefinement, TLC

\* Half a day per slot, and a reservation as long as two slots: a create at
\* 00:00 is measured against 12:00 as well.
Midnight == <<0, 0>>
Noon     == <<12, 0>>
LastMinute == <<23, 59>>

MCDates == {1}
MCTimes == {Midnight, Noon}

Check(time, range, guests) == [date |-> 1, time |-> time, range |-> range, guests |-> guests]
Range(start, end) == [start |-> start, end |-> end]

NoQueries == {}
OneTime   == {Check(Noon, None, 1)}
OneRange  == {Check(None, Range(Midnight, LastMinute), 1)}
Queries   == OneTime \cup OneRange

List(filter, page, limit, sortBy, order) ==
    [filter |-> filter, pagination |-> [page |-> page, limit |-> limit],
     sort |-> [sortBy |-> sortBy, order |-> order]]

NoFilter == [customerName |-> None, date |-> None, guests |-> None]

\* Every row; and the rows one by one, in descending order of guests.
AllRows  == {List(NoFilter, None, None, None, None)}
Paged    == {List(NoFilter, page, 1, "guests", "DESC") : page \in {1, 2}}
Filtered == {List([customerName |-> "ann", date |-> 1, guests |-> 2], 1, 10, "date", "ASC")}
Lists    == Paged \cup Filtered

Patch(date, time, guests) == [date |-> date, time |-> time, guests |-> guests]
NoPatches   == {}
ToNoon      == {Patch(None, Noon, None)}
SomePatches == {Patch(None, Noon, None), Patch(1, None, 2)}

Symmetry == Permutations(Proc)
=============================================================================
