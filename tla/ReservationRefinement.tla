------------------------ MODULE ReservationRefinement ------------------------
(***************************************************************************)
(* The reservation service seen as a ReservationBook.                      *)
(***************************************************************************)
EXTENDS ReservationService

\* A row with the name of the customer it refers to.
Promised(row) == [name |-> customers[row.customer], date |-> row.date,
                  time |-> row.time, guests |-> row.guests]

\* createReservation and cancelReservation clear the cache once their write is
\* committed; updateReservation commits with its last command.
Committed(p) == pc[p] \in ClearCommands /\ req[p].op # "update"

Book ==
    INSTANCE ReservationBook
        WITH Client   <- Proc,
             Id       <- Ids,
             Request  <- Requests,
             Reliable <- ~Faults,
             book     <- [id \in DOMAIN reservations |-> Promised(reservations[id])],
             issued   <- 1 .. nextId - 1,
             asked    <- req,
             done     <- {p \in Proc : Committed(p)}

\* Every call of the service takes effect at most once and all at once, on the
\* table as it is at that moment, under the name the caller gave, and what the
\* reply says is what happened, also when calls of createReservation and
\* cancelReservation overlap, fail or are cut off by a crash.  Overlapping
\* calls of updateReservation do not: they save all columns of what they read.
ImplementsReservationBook == Book!Spec
=============================================================================
