--------------------------- MODULE RefinementProofs ---------------------------
(***************************************************************************)
(* The reservation service implements the ReservationBook, for any number  *)
(* of overlapping calls if nobody updates, and with updates if calls do    *)
(* not overlap; and one client at a time reads no stale data.              *)
(***************************************************************************)
EXTENDS ReservationRefinement, ReservationServiceProofs

\* Two calls that overlap do not update.
NoRace == "update" \notin Ops \/ \A p, q \in Proc : p = q

-----------------------------------------------------------------------------
(* What the mapping relies on, beyond well-formedness.                     *)

\* The creations that have not stored their row.
Pending == {p \in Proc : pc[p] \in {"findCustomer", "saveCustomer", "findDay", "save"}}

\* There is an id for each of them.
RoomOK == nextId + Cardinality(Pending) <= MaxRows + 1

\* The customer that a creation has found or saved bears the caller's name.
NamesOK ==
    \A p \in Proc : pc[p] \in {"findDay", "save"} => customers[held[p].customer] = req[p].name

\* The row that an update has read is still there, and what it will save is
\* that row with the caller's changes.
EntityOK ==
    \A p \in Proc : Updating(p) => /\ req[p].id \in DOMAIN reservations
                                   /\ held[p] = Merged(reservations[req[p].id], req[p].patch)

RefInv == WellFormed /\ OnlyOps /\ RoomOK /\ NamesOK /\ EntityOK

-----------------------------------------------------------------------------
(* The mapped state.                                                       *)

BookOf == [id \in DOMAIN reservations |-> Promised(reservations[id])]
Done   == {p \in Proc : Committed(p)}

\* The book shows the rows and the names of the customers they refer to.
LEMMA BookStable ==
    ASSUME WellFormed, UNCHANGED <<reservations, nextId>>,
           \A c \in 1 .. Len(customers) : customers'[c] = customers[c]
    PROVE  BookOf' = BookOf /\ (1 .. nextId - 1)' = 1 .. nextId - 1
<1>1. \A id \in DOMAIN reservations : Promised(reservations[id])' = Promised(reservations[id])
  BY DEF WellFormed, TablesOK, Promised
<1> QED  BY <1>1 DEF BookOf

\* A step of p commits or ends no other call.
LEMMA DoneStep ==
    ASSUME NEW p \in Proc, \A q \in Proc \ {p} : pc'[q] = pc[q] /\ req'[q] = req[q]
    PROVE  Done' = IF Committed(p)' THEN Done \cup {p} ELSE Done \ {p}
<1>1. \A q \in Proc \ {p} : Committed(q)' <=> Committed(q)
  BY DEF Committed
<1> QED  BY <1>1 DEF Done

\* A call that goes on without committing or ending is not seen.
LEMMA Hidden ==
    ASSUME WellFormed, NEW p \in Proc, NEW command, UNCHANGED <<reservations, nextId, req, reply>>,
           \A c \in 1 .. Len(customers) : customers'[c] = customers[c],
           pc' = [pc EXCEPT ![p] = command],
           (command \in ClearCommands <=> pc[p] \in ClearCommands) \/ req[p].op = "update"
    PROVE  UNCHANGED Book!vars
<1>1. BookOf' = BookOf /\ (1 .. nextId - 1)' = 1 .. nextId - 1
  BY BookStable
<1>2. pc'[p] = command /\ \A q \in Proc \ {p} : pc'[q] = pc[q]
  BY DEF WellFormed, LocalsOK
<1>3. Committed(p)' <=> Committed(p)
  BY <1>2 DEF Committed
<1>4. Done' = Done
  BY <1>2, <1>3 DEF Done, Committed
<1> QED  BY <1>1, <1>4 DEF Book!vars, BookOf, Done

\* A call that ends without writing.
LEMMA Ends ==
    ASSUME WellFormed, NEW p \in Proc, NEW status, End(p, status), UNCHANGED db
    PROVE  Book!Close(p, status) /\ BookOf' = BookOf /\ (1 .. nextId - 1)' = 1 .. nextId - 1
<1>1. BookOf' = BookOf /\ (1 .. nextId - 1)' = 1 .. nextId - 1
  BY BookStable DEF db
<1>2. pc'[p] = "idle" /\ \A q \in Proc \ {p} : pc'[q] = pc[q] /\ req'[q] = req[q]
  BY DEF End, Goto, WellFormed, LocalsOK
<1>3. ~Committed(p)'
  BY <1>2 DEF Committed, ClearCommands
<1>4. Done' = Done \ {p}
  BY <1>2, <1>3, DoneStep
<1>5. Book!Close(p, status)
  BY <1>4 DEF Book!Close, End, Done
<1> QED  BY <1>1, <1>5

\* A call in flight has a request.
LEMMA Asked ==
    ASSUME WellFormed, NEW p \in Proc, pc[p] # "idle"
    PROVE  req[p] \in Requests /\ req[p] # None
<1>1. pc[p] \in Commands
  BY DEF WellFormed, LocalsOK
<1>2. req[p] \in Requests
  BY <1>1 DEF WellFormed, CallOK, Commands, ClearCommands, Requests, WriteReqs, ReadReqs
<1> QED  BY <1>2, RequestAssumption

-----------------------------------------------------------------------------
(* Each step of a call is a step of the book, or is not seen.              *)

BookStep == Book!Next \/ UNCHANGED Book!vars

\* A new call asks.
LEMMA ReceiveMaps == ASSUME RefInv, NEW p \in Proc, Receive(p) PROVE BookStep
<1>1. PICK r \in Requests :
        /\ pc' = [pc EXCEPT ![p] = FirstCommand[r.op]]
        /\ req' = [req EXCEPT ![p] = r]
        /\ reply' = [reply EXCEPT ![p] = "none"]
  BY DEF Receive, Goto
<1>2. pc[p] = "idle" /\ req[p] = None /\ UNCHANGED <<reservations, nextId, customers>>
  BY DEF Receive, db, RefInv, WellFormed, CallOK
<1>3. BookOf' = BookOf /\ (1 .. nextId - 1)' = 1 .. nextId - 1
  BY <1>2, BookStable DEF RefInv
<1>4. /\ pc'[p] \notin ClearCommands
      /\ \A q \in Proc \ {p} : pc'[q] = pc[q] /\ req'[q] = req[q]
  <2>1. FirstCommand[r.op] \notin ClearCommands
    BY RequestKinds DEF Requests, ReadReqs, FirstCommand, ClearCommands
  <2> QED  BY <1>1, <2>1 DEF RefInv, WellFormed, LocalsOK
<1>5. Done' = Done
  <2>1. ~Committed(p) /\ ~Committed(p)'
    BY <1>2, <1>4 DEF Committed, ClearCommands
  <2> QED  BY <1>4, <2>1, DoneStep DEF Done
<1>6. Book!Ask(p)
  BY <1>1, <1>2, <1>3, <1>5 DEF Book!Ask, BookOf, Done
<1> QED  BY <1>6 DEF BookStep, Book!Next

\* createReservation takes effect with the insert of its row.
LEMMA CreateMaps == ASSUME RefInv, NEW p \in Proc, Create(p) PROVE BookStep
<1>0. /\ WellFormed /\ pc \in [Proc -> Commands \cup {"idle"}] /\ DOMAIN req = Proc
      /\ customers \in Seq(Names)
  BY DEF RefInv, WellFormed, LocalsOK, TablesOK
<1>1. CASE CreateFindCustomer(p)
  <2>1. /\ \E command \in {"saveCustomer", "findDay"} : pc' = [pc EXCEPT ![p] = command]
        /\ pc[p] = "findCustomer" /\ UNCHANGED <<reservations, nextId, customers, req, reply>>
    BY <1>1 DEF CreateFindCustomer, Goto, db
  <2> QED  BY <1>0, <2>1, Hidden DEF BookStep, ClearCommands
<1>2. CASE CreateSaveCustomer(p)
  <2>1. /\ pc[p] = "saveCustomer" /\ pc' = [pc EXCEPT ![p] = "findDay"]
        /\ customers' = Append(customers, req[p].name)
        /\ UNCHANGED <<reservations, nextId, req, reply>>
    BY <1>2 DEF CreateSaveCustomer, Goto
  <2>2. req[p].name \in Names
    BY <1>0, <2>1, RequestKinds DEF WellFormed, CallOK
  <2>3. \A c \in 1 .. Len(customers) : customers'[c] = customers[c]
    BY <1>0, <2>1, <2>2, AppendProperties
  <2> QED  BY <1>0, <2>1, <2>3, Hidden DEF BookStep, ClearCommands
<1>3. CASE CreateAdmit(p)
  <2>1. /\ pc[p] = "findDay" /\ pc' = [pc EXCEPT ![p] = "save"]
        /\ UNCHANGED <<reservations, nextId, customers, req, reply>>
    BY <1>3 DEF CreateAdmit, Goto, db
  <2> QED  BY <1>0, <2>1, Hidden DEF BookStep, ClearCommands
<1>4. CASE CreateRefuse(p)
  <2>1. PICK status \in {"suggested", "unavailable"} : End(p, status)
    BY <1>4 DEF CreateRefuse
  <2>2. pc[p] = "findDay" /\ UNCHANGED db
    BY <1>4 DEF CreateRefuse
  <2>3. Book!Close(p, status) /\ BookOf' = BookOf /\ (1 .. nextId - 1)' = 1 .. nextId - 1
    BY <1>0, <2>1, <2>2, Ends
  <2>4. req[p] # None /\ req[p].op = "create" /\ p \notin Done
    BY <1>0, <2>2, Asked, RequestKinds DEF WellFormed, CallOK, Done, Committed, ClearCommands
  <2>5. Book!TurnDown(p)
    BY <2>1, <2>3, <2>4 DEF Book!TurnDown, BookOf, Done
  <2> QED  BY <2>5 DEF BookStep, Book!Next
<1>5. CASE CreateSave(p)
  <2> DEFINE row == [date |-> req[p].date, time |-> req[p].time,
                     guests |-> req[p].guests, customer |-> held[p].customer]
  <2>1. /\ pc[p] = "save" /\ reservations' = Put(reservations, nextId, row)
        /\ nextId' = nextId + 1 /\ pc' = [pc EXCEPT ![p] = "scan"]
        /\ UNCHANGED <<customers, req, reply>>
    BY <1>5 DEF CreateSave, StartClear, Goto
  <2>2. /\ req[p] # None /\ req[p].op = "create" /\ p \notin Done
        /\ customers[held[p].customer] = req[p].name
    BY <1>0, <2>1, Asked, RequestKinds DEF RefInv, WellFormed, CallOK, NamesOK, Done, Committed, ClearCommands
  <2>3. nextId \in Nat \ {0} /\ nextId <= MaxRows
    <3>1. nextId \in Nat \ {0} /\ MaxRows \in Nat /\ nextId + Cardinality(Pending) <= MaxRows + 1
      BY ConfigAssumption DEF RefInv, WellFormed, TablesOK, RoomOK
    <3>2. p \in Pending /\ IsFiniteSet(Pending)
      BY <2>1, FS_Subset, ProcAssumption DEF Pending
    <3>3. Cardinality(Pending) \in Nat /\ Cardinality(Pending) # 0
      BY <3>2, FS_CardinalityType, FS_EmptySet
    <3> QED  BY <3>1, <3>3
  <2>4. nextId \in Ids /\ nextId \notin 1 .. nextId - 1
        /\ (1 .. nextId - 1)' = (1 .. nextId - 1) \cup {nextId}
    BY <2>1, <2>3, ConfigAssumption DEF Ids
  <2>5. /\ pc'[p] = "scan" /\ req'[p] = req[p]
        /\ \A q \in Proc \ {p} : pc'[q] = pc[q] /\ req'[q] = req[q]
    BY <1>0, <2>1
  <2>6. Done' = Done \cup {p}
    <3>1. Committed(p)'
      BY <2>2, <2>5 DEF Committed, ClearCommands
    <3> QED  BY <2>5, <3>1, DoneStep
  <2>7. BookOf' = [i \in DOMAIN BookOf \cup {nextId} |->
                     IF i = nextId THEN [name |-> req[p].name, date |-> req[p].date,
                                         time |-> req[p].time, guests |-> req[p].guests]
                     ELSE BookOf[i]]
    <3> DEFINE new == [name |-> req[p].name, date |-> req[p].date,
                       time |-> req[p].time, guests |-> req[p].guests]
    <3>1. DOMAIN reservations' = DOMAIN reservations \cup {nextId}
      BY <2>1 DEF Put
    <3>2. reservations'[nextId] = row
      BY <2>1 DEF Put
    <3>3. \A i \in DOMAIN reservations : i # nextId => reservations'[i] = reservations[i]
      BY <2>1 DEF Put
    <3>4. BookOf' = [i \in DOMAIN reservations' |->
                       [name |-> customers[reservations'[i].customer], date |-> reservations'[i].date,
                        time |-> reservations'[i].time, guests |-> reservations'[i].guests]]
      BY <2>1 DEF BookOf, Promised
    <3>5. [name |-> customers[reservations'[nextId].customer], date |-> reservations'[nextId].date,
           time |-> reservations'[nextId].time, guests |-> reservations'[nextId].guests] = new
      BY <2>2, <3>2
    <3>6. \A i \in DOMAIN reservations : i # nextId =>
            [name |-> customers[reservations'[i].customer], date |-> reservations'[i].date,
             time |-> reservations'[i].time, guests |-> reservations'[i].guests] = BookOf[i]
      BY <3>3 DEF BookOf, Promised
    <3>7. DOMAIN BookOf = DOMAIN reservations
      BY DEF BookOf
    <3> HIDE DEF new
    <3>8. BookOf' = [i \in DOMAIN BookOf \cup {nextId} |-> IF i = nextId THEN new ELSE BookOf[i]]
      BY <3>1, <3>4, <3>5, <3>6, <3>7
    <3> QED  BY <3>8 DEF new
  <2>8. Book!TakeEffect(p)
    <3>1. Book!Booked(req[p], nextId)
      BY <2>4, <2>7 DEF Book!Booked, BookOf
    <3>2. Book!Effect(req[p])
      BY <2>2, <2>4, <3>1 DEF Book!Effect
    <3> QED  BY <2>1, <2>2, <2>6, <3>2 DEF Book!TakeEffect, Done
  <2> QED  BY <2>8 DEF BookStep, Book!Next
<1> QED  BY <1>1, <1>2, <1>3, <1>4, <1>5 DEF Create

\* cancelReservation takes effect with the delete, or finds nothing to delete.
LEMMA CancelMaps == ASSUME RefInv, NEW p \in Proc, Cancel(p) PROVE BookStep
<1>0. /\ WellFormed /\ pc \in [Proc -> Commands \cup {"idle"}] /\ DOMAIN req = Proc
  BY DEF RefInv, WellFormed, LocalsOK
<1>1. pc[p] = "delete"
  BY DEF Cancel, CancelDelete, CancelMissing
<1>2. req[p] # None /\ req[p].op = "cancel" /\ p \notin Done
  BY <1>0, <1>1, Asked, RequestKinds DEF WellFormed, CallOK, Done, Committed, ClearCommands
<1>3. DOMAIN BookOf = DOMAIN reservations
  BY DEF BookOf
<1>4. CASE CancelDelete(p)
  <2>1. /\ req[p].id \in DOMAIN reservations /\ reservations' = Drop(reservations, {req[p].id})
        /\ pc' = [pc EXCEPT ![p] = "scan"]
        /\ UNCHANGED <<nextId, customers, req, reply>>
    BY <1>4 DEF CancelDelete, StartClear, Goto
  <2>2. /\ pc'[p] = "scan" /\ req'[p] = req[p]
        /\ \A q \in Proc \ {p} : pc'[q] = pc[q] /\ req'[q] = req[q]
    BY <1>0, <2>1
  <2>3. Done' = Done \cup {p}
    <3>1. Committed(p)'
      BY <1>2, <2>2 DEF Committed, ClearCommands
    <3> QED  BY <2>2, <3>1, DoneStep
  <2>4. BookOf' = [i \in DOMAIN BookOf \ {req[p].id} |-> BookOf[i]]
    <3>1. /\ DOMAIN reservations' = DOMAIN reservations \ {req[p].id}
          /\ \A i \in DOMAIN reservations' : reservations'[i] = reservations[i]
      BY <2>1 DEF Drop
    <3>2. \A i \in DOMAIN reservations' : Promised(reservations[i])' = BookOf[i]
      BY <2>1, <3>1 DEF Promised, BookOf
    <3> QED  BY <1>3, <3>1, <3>2 DEF BookOf
  <2>5. Book!Cancelled(req[p])
    BY <1>3, <2>1, <2>4 DEF Book!Cancelled, BookOf
  <2>6. Book!TakeEffect(p)
    BY <1>2, <2>1, <2>3, <2>5 DEF Book!TakeEffect, Book!Effect, Done
  <2> QED  BY <2>6 DEF BookStep, Book!Next
<1>5. CASE CancelMissing(p)
  <2>1. End(p, "failed") /\ UNCHANGED db /\ req[p].id \notin DOMAIN reservations
    BY <1>5 DEF CancelMissing
  <2>2. Book!Close(p, "failed") /\ BookOf' = BookOf /\ (1 .. nextId - 1)' = 1 .. nextId - 1
    BY <1>0, <2>1, Ends
  <2>3. Book!TurnDown(p)
    BY <1>2, <1>3, <2>1, <2>2 DEF Book!TurnDown, BookOf, Done
  <2> QED  BY <2>3 DEF BookStep, Book!Next
<1> QED  BY <1>4, <1>5 DEF Cancel

\* What an update saves is the promise with the caller's changes.
LEMMA MergedPromise ==
    ASSUME NEW row \in Row, NEW patch \in Patches
    PROVE  LET old == Promised(row)
           IN  Promised(Merged(row, patch)) =
                 [f \in DOMAIN old |-> IF f = "name" \/ patch[f] = None THEN old[f] ELSE patch[f]]
<1> DEFINE given(new, old) == IF new = None THEN old ELSE new
           n == customers[row.customer]
           d == given(patch.date, row.date)
           t == given(patch.time, row.time)
           g == given(patch.guests, row.guests)
           old == Promised(row)
           new == [f \in DOMAIN old |-> IF f = "name" \/ patch[f] = None THEN old[f] ELSE patch[f]]
<1>1. Promised(Merged(row, patch)) = [name |-> n, date |-> d, time |-> t, guests |-> g]
  BY DEF Merged, Promised
<1>2. DOMAIN old = {"name", "date", "time", "guests"}
  BY DEF Promised
<1>3. old["name"] = n /\ old["date"] = row.date /\ old["time"] = row.time /\ old["guests"] = row.guests
  BY DEF Promised
<1>4. patch["date"] = patch.date /\ patch["time"] = patch.time /\ patch["guests"] = patch.guests
  OBVIOUS
<1>5. /\ DOMAIN new = {"name", "date", "time", "guests"}
      /\ new["name"] = n /\ new["date"] = d /\ new["time"] = t /\ new["guests"] = g
  BY <1>2, <1>3, <1>4
<1>6. new = [f \in {"name", "date", "time", "guests"} |-> new[f]]
  BY <1>2
<1> HIDE DEF new, n, d, t, g
<1>7. new = [name |-> n, date |-> d, time |-> t, guests |-> g]
  BY <1>5, <1>6
<1> QED  BY <1>1, <1>7 DEF new

\* updateReservation takes effect with its last command.
LEMMA UpdateMaps == ASSUME RefInv, NEW p \in Proc, Update(p) PROVE BookStep
<1>0. WellFormed /\ pc \in [Proc -> Commands \cup {"idle"}] /\ DOMAIN req = Proc
  BY DEF RefInv, WellFormed, LocalsOK
<1>1. pc[p] \in {"findOne", "saveEntity"}
  BY DEF Update, UpdateFind, UpdateMissing, UpdateSave
<1>2. /\ req[p] # None /\ req[p] \in UpdateReqs /\ req[p].op = "update" /\ req[p].patch \in Patches
      /\ p \notin Done
  BY <1>0, <1>1, Asked, RequestKinds DEF WellFormed, CallOK, Done, Committed, ClearCommands
<1>3. DOMAIN BookOf = DOMAIN reservations
  BY DEF BookOf
<1>4. CASE UpdateFind(p)
  <2>1. /\ pc' = [pc EXCEPT ![p] = "scan"] /\ UNCHANGED <<reservations, nextId, customers, req, reply>>
    BY <1>4 DEF UpdateFind, StartClear, Goto, db
  <2> QED  BY <1>0, <1>2, <2>1, Hidden DEF BookStep
<1>5. CASE UpdateMissing(p)
  <2>1. End(p, "notFound") /\ UNCHANGED db /\ req[p].id \notin DOMAIN reservations
    BY <1>5 DEF UpdateMissing
  <2>2. Book!Close(p, "notFound") /\ BookOf' = BookOf /\ (1 .. nextId - 1)' = 1 .. nextId - 1
    BY <1>0, <2>1, Ends
  <2>3. Book!TurnDown(p)
    BY <1>2, <1>3, <2>1, <2>2 DEF Book!TurnDown, BookOf, Done
  <2> QED  BY <2>3 DEF BookStep, Book!Next
<1>6. CASE UpdateSave(p)
  <2> DEFINE id == req[p].id
             row == reservations[id]
  <2>1. /\ pc[p] = "saveEntity" /\ reservations' = Put(reservations, id, held[p])
        /\ End(p, "ok") /\ UNCHANGED <<nextId, customers>>
    BY <1>6 DEF UpdateSave
  <2>2. id \in DOMAIN reservations /\ held[p] = Merged(row, req[p].patch) /\ row \in Row
    BY <2>1 DEF RefInv, EntityOK, Updating, WellFormed, TablesOK
  <2>3. /\ DOMAIN reservations' = DOMAIN reservations /\ reservations'[id] = held[p]
        /\ \A i \in DOMAIN reservations : i # id => reservations'[i] = reservations[i]
    BY <2>1, <2>2 DEF Put
  <2>4. PICK new : new = [f \in DOMAIN BookOf[id] |-> IF f = "name" \/ req[p].patch[f] = None
                                                      THEN BookOf[id][f] ELSE req[p].patch[f]]
    OBVIOUS
  <2>5. Promised(held[p]) = new
    <3>1. BookOf[id] = Promised(row)
      BY <2>2 DEF BookOf
    <3> QED  BY <1>2, <2>2, <2>4, <3>1, MergedPromise
  <2>6. BookOf' = [BookOf EXCEPT ![id] = new]
    <3>1. BookOf' = [i \in DOMAIN reservations |->
                       [name |-> customers[reservations'[i].customer], date |-> reservations'[i].date,
                        time |-> reservations'[i].time, guests |-> reservations'[i].guests]]
      BY <2>1, <2>3 DEF BookOf, Promised
    <3>2. [name |-> customers[reservations'[id].customer], date |-> reservations'[id].date,
           time |-> reservations'[id].time, guests |-> reservations'[id].guests] = new
      BY <2>3, <2>5 DEF Promised
    <3>3. \A i \in DOMAIN reservations : i # id =>
            [name |-> customers[reservations'[i].customer], date |-> reservations'[i].date,
             time |-> reservations'[i].time, guests |-> reservations'[i].guests] = BookOf[i]
      BY <2>3 DEF BookOf, Promised
    <3> HIDE DEF id
    <3>4. [BookOf EXCEPT ![id] = new] = [i \in DOMAIN reservations |-> IF i = id THEN new ELSE BookOf[i]]
      BY <1>3
    <3> QED  BY <3>1, <3>2, <3>3, <3>4
  <2>7. Book!Changed(req[p])
    BY <1>3, <2>1, <2>2, <2>4, <2>6 DEF Book!Changed, BookOf
  <2>8. Book!Close(p, "ok")
    <3>1. pc'[p] = "idle" /\ \A q \in Proc \ {p} : pc'[q] = pc[q] /\ req'[q] = req[q]
      BY <1>0, <2>1 DEF End, Goto
    <3>2. Done' = Done \ {p}
      BY <3>1, DoneStep DEF Committed, ClearCommands
    <3> QED  BY <2>1, <3>2 DEF Book!Close, End, Done
  <2>9. Book!TakeEffectAndReply(p)
    BY <1>2, <2>7, <2>8 DEF Book!TakeEffectAndReply, Book!Effect, Done
  <2> QED  BY <2>9 DEF BookStep, Book!Next
<1> QED  BY <1>4, <1>5, <1>6 DEF Update

\* The reads have no effect.
LEMMA ReadMaps == ASSUME RefInv, NEW p \in Proc, Read(p) PROVE BookStep
<1>0. WellFormed
  BY DEF RefInv
<1>1. /\ pc[p] \in {"get", "find", "getMany", "getCount", "set"}
      /\ UNCHANGED <<reservations, nextId, customers>>
  BY DEF Read, CacheHit, CacheMiss, CheckFind, ListGetMany, ListGetCount, CacheSet, db
<1>2. req[p] # None /\ req[p].op \notin Book!Writes
  BY <1>0, <1>1, Asked, RequestKinds DEF WellFormed, CallOK, ReadReqs, Book!Writes
<1>3. CASE End(p, "ok")
  <2>1. Book!Close(p, "ok") /\ BookOf' = BookOf /\ (1 .. nextId - 1)' = 1 .. nextId - 1
    BY <1>0, <1>1, <1>3, Ends DEF db
  <2>2. Book!Succeed(p)
    BY <1>2, <2>1 DEF Book!Succeed, BookOf, Done
  <2> QED  BY <2>2 DEF BookStep, Book!Next
<1>4. ASSUME NEW command \in {"find", "getMany", "getCount", "set"}, Goto(p, command),
             UNCHANGED <<req, reply>>
      PROVE  BookStep
  BY <1>0, <1>1, <1>4, Hidden DEF BookStep, Goto, ClearCommands
<1> QED  BY <1>3, <1>4 DEF Read, CacheHit, CacheMiss, CheckFind, ListGetMany, ListGetCount, CacheSet

\* Clearing the cache is not seen; with it a write ends.
LEMMA ClearMaps == ASSUME RefInv, NEW p \in Proc, Clear(p) PROVE BookStep
<1>0. WellFormed
  BY DEF RefInv
<1>1. ASSUME pc[p] \in ClearCommands, UNCHANGED db, AfterPattern(p)
      PROVE  BookStep
  <2>1. CASE Goto(p, "scan") /\ UNCHANGED <<req, reply>>
    BY <1>0, <1>1, <2>1, Hidden DEF BookStep, Goto, ClearCommands, db
  <2>2. CASE req[p].op = "update" /\ Goto(p, "saveEntity") /\ UNCHANGED <<req, reply>>
    BY <1>0, <1>1, <2>2, Hidden DEF BookStep, Goto, db
  <2>3. CASE req[p].op # "update" /\ End(p, "ok")
    <3>1. Book!Close(p, "ok") /\ BookOf' = BookOf /\ (1 .. nextId - 1)' = 1 .. nextId - 1
      BY <1>0, <1>1, <2>3, Ends
    <3>2. req[p] # None /\ p \in Done
      BY <1>0, <1>1, <2>3, Asked DEF ClearCommands, Done, Committed
    <3>3. Book!Succeed(p)
      BY <3>1, <3>2 DEF Book!Succeed, BookOf, Done
    <3> QED  BY <3>3 DEF BookStep, Book!Next
  <2> QED  BY <1>1, <2>1, <2>2, <2>3 DEF AfterPattern
<1>2. ASSUME NEW page, NEW last, ScanPage(p, page, last) PROVE BookStep
  <2>1. /\ pc[p] \in ClearCommands /\ UNCHANGED <<reservations, nextId, customers, req, reply>>
        /\ \E command \in {"delLast", "del"} : pc' = [pc EXCEPT ![p] = command]
    BY <1>2 DEF ScanPage, Goto, db, ClearCommands
  <2> QED  BY <1>0, <2>1, Hidden DEF BookStep, ClearCommands
<1>3. CASE ScanNothing(p)
  BY <1>1, <1>3 DEF ScanNothing, ClearCommands
<1>4. CASE Del(p)
  <2>1. CASE pc[p] = "del" /\ Goto(p, "rescan") /\ UNCHANGED <<req, reply>>
    BY <1>0, <1>4, <2>1, Hidden DEF Del, BookStep, Goto, ClearCommands, db
  <2>2. CASE pc[p] = "delLast" /\ AfterPattern(p)
    BY <1>1, <1>4, <2>2 DEF Del, ClearCommands
  <2> QED  BY <1>4, <2>1, <2>2 DEF Del
<1> QED  BY <1>2, <1>3, <1>4 DEF Clear, Scan, ScanEnd

\* A call that fails, and a crash, are what the book allows them to be.
LEMMA FaultMaps ==
    ASSUME RefInv, (\E p \in Proc : Fail(p)) \/ Crash
    PROVE  BookStep
<1>0. WellFormed
  BY DEF RefInv
<1>1. ASSUME NEW p \in Proc, Fail(p) PROVE BookStep
  <2>1. Faults /\ pc[p] # "idle" /\ End(p, "failed") /\ UNCHANGED db
    BY <1>1 DEF Fail
  <2>2. Book!Close(p, "failed") /\ BookOf' = BookOf /\ (1 .. nextId - 1)' = 1 .. nextId - 1
    BY <1>0, <2>1, Ends
  <2>3. Book!Fail(p)
    BY <1>0, <2>1, <2>2, Asked DEF Book!Fail, BookOf
  <2> QED  BY <2>3 DEF BookStep, Book!Next
<1>2. CASE Crash
  <2>1. /\ Faults /\ pc' = [p \in Proc |-> "idle"] /\ req' = [p \in Proc |-> None]
        /\ reply' = [p \in Proc |-> "none"] /\ UNCHANGED <<reservations, nextId, customers>>
    BY <1>2 DEF Crash, db
  <2>2. BookOf' = BookOf /\ (1 .. nextId - 1)' = 1 .. nextId - 1
    BY <1>0, <2>1, BookStable
  <2>3. Done' = {}
    BY <2>1 DEF Done, Committed, ClearCommands
  <2>4. Book!Crash
    BY <2>1, <2>2, <2>3 DEF Book!Crash, BookOf, Done
  <2> QED  BY <2>4 DEF BookStep, Book!Next
<1> QED  BY <1>1, <1>2

\* Every step of the service is a step of the book, or is not seen.
LEMMA NextMaps == RefInv /\ [Next]_vars => [Book!Next]_(Book!vars)
<1> SUFFICES ASSUME RefInv, [Next]_vars PROVE BookStep
  BY DEF BookStep
<1>1. CASE UNCHANGED vars
  BY <1>1 DEF vars, db, BookStep, Book!vars, Promised, Committed
<1>2. ASSUME NEW k \in Keys, Expire(k) PROVE BookStep
  BY <1>2 DEF Expire, db, BookStep, Book!vars, Promised, Committed
<1>3. ASSUME NEW p \in Proc, Step(p) PROVE BookStep
  BY <1>3, CreateMaps, CancelMaps, UpdateMaps, ReadMaps, ClearMaps DEF Step
<1> QED  BY <1>1, <1>2, <1>3, ReceiveMaps, FaultMaps DEF Next

-----------------------------------------------------------------------------
(* RefInv is inductive.                                                    *)

\* A step of p that leaves the other calls and the customers alone, and p's own
\* names and entity right.
Local(p) ==
    /\ \A q \in Proc \ {p} : pc'[q] = pc[q] /\ req'[q] = req[q] /\ held'[q] = held[q]
    /\ \A c \in 1 .. Len(customers) : customers'[c] = customers[c]
    /\ pc'[p] \in {"findDay", "save"} => customers'[held'[p].customer] = req'[p].name
    /\ Updating(p)' => \/ /\ Updating(p) /\ UNCHANGED reservations
                          /\ req'[p] = req[p] /\ held'[p] = held[p]
                       \/ /\ req'[p].id \in DOMAIN reservations'
                          /\ held'[p] = Merged(reservations'[req'[p].id], req'[p].patch)

\* One that neither draws an id nor starts a creation.
Mild(p) == Local(p) /\ nextId' = nextId /\ (p \in Pending' => p \in Pending)

\* A call that ends without a new row is mild.
LEMMA EndMild ==
    ASSUME WellFormed, NEW p \in Proc, NEW status, End(p, status), UNCHANGED <<nextId, customers>>
    PROVE  Mild(p)
<1>1. /\ pc'[p] = "idle"
      /\ \A q \in Proc \ {p} : pc'[q] = pc[q] /\ req'[q] = req[q] /\ held'[q] = held[q]
  BY DEF End, Goto, WellFormed, LocalsOK
<1> QED  BY <1>1 DEF Mild, Local, Pending, Updating, ClearCommands

\* The steps of createReservation but the last.
LEMMA CreateMild ==
    ASSUME WellFormed, NamesOK, NEW p \in Proc, Create(p), ~CreateSave(p)
    PROVE  Mild(p)
<1>0. /\ pc \in [Proc -> Commands \cup {"idle"}] /\ DOMAIN req = Proc /\ DOMAIN held = Proc
      /\ customers \in Seq(Names)
  BY DEF WellFormed, LocalsOK, TablesOK
<1>1. CASE CreateFindCustomer(p)
  <2>1. pc[p] = "findCustomer" /\ UNCHANGED <<reservations, nextId, customers, req>>
    BY <1>1 DEF CreateFindCustomer, db
  <2>2. CASE Goto(p, "saveCustomer") /\ UNCHANGED held
    BY <1>0, <2>1, <2>2 DEF Mild, Local, Goto, Pending, Updating, ClearCommands
  <2>3. ASSUME NEW c \in DOMAIN customers, customers[c] = req[p].name,
               Goto(p, "findDay"), held' = [held EXCEPT ![p] = [customer |-> c]]
        PROVE  Mild(p)
    BY <1>0, <2>1, <2>3 DEF Mild, Local, Goto, Pending, Updating, ClearCommands
  <2> QED  BY <1>1, <2>2, <2>3 DEF CreateFindCustomer
<1>2. CASE CreateSaveCustomer(p)
  <2>1. /\ pc[p] = "saveCustomer" /\ customers' = Append(customers, req[p].name)
        /\ held' = [held EXCEPT ![p] = [customer |-> Len(customers) + 1]]
        /\ pc' = [pc EXCEPT ![p] = "findDay"] /\ UNCHANGED <<reservations, nextId, req>>
    BY <1>2 DEF CreateSaveCustomer, Goto
  <2>2. req[p].name \in Names
    BY <2>1, RequestKinds DEF WellFormed, CallOK
  <2>3. /\ \A c \in 1 .. Len(customers) : customers'[c] = customers[c]
        /\ customers'[Len(customers) + 1] = req[p].name
    BY <1>0, <2>1, <2>2, AppendProperties
  <2>4. /\ pc'[p] = "findDay" /\ held'[p].customer = Len(customers) + 1
        /\ \A q \in Proc \ {p} : pc'[q] = pc[q] /\ held'[q] = held[q]
    BY <1>0, <2>1
  <2> QED  BY <2>1, <2>3, <2>4 DEF Mild, Local, Pending, Updating, ClearCommands
<1>3. CASE CreateAdmit(p)
  BY <1>0, <1>3 DEF CreateAdmit, Goto, db, NamesOK, Mild, Local, Pending, Updating, ClearCommands
<1>4. CASE CreateRefuse(p)
  BY <1>4, EndMild DEF CreateRefuse, db
<1> QED  BY <1>1, <1>2, <1>3, <1>4 DEF Create

\* The steps of the other operations, and failures.
LEMMA OtherMild ==
    ASSUME WellFormed, NEW p \in Proc,
           Cancel(p) \/ Update(p) \/ Read(p) \/ Clear(p) \/ Fail(p)
    PROVE  Mild(p)
<1>0. /\ pc \in [Proc -> Commands \cup {"idle"}] /\ DOMAIN req = Proc /\ DOMAIN held = Proc
  BY DEF WellFormed, LocalsOK
<1>1. CASE CancelDelete(p)
  <2>1. /\ pc[p] = "delete" /\ pc' = [pc EXCEPT ![p] = "scan"]
        /\ UNCHANGED <<nextId, customers, req, held>>
    BY <1>1 DEF CancelDelete, StartClear, Goto
  <2>2. req[p].op = "cancel"
    BY <2>1, RequestKinds DEF WellFormed, CallOK
  <2> QED  BY <1>0, <2>1, <2>2 DEF Mild, Local, Pending, Updating
<1>2. CASE UpdateFind(p)
  BY <1>0, <1>2 DEF UpdateFind, StartClear, Goto, db, Mild, Local, Pending
<1>3. CASE CancelMissing(p) \/ UpdateMissing(p) \/ UpdateSave(p) \/ Fail(p)
  BY <1>3, EndMild DEF CancelMissing, UpdateMissing, UpdateSave, Fail, db
<1>4. CASE CacheHit(p) \/ CacheSet(p)
  BY <1>4, EndMild DEF CacheHit, CacheSet, db
<1>5. ASSUME NEW command \in {"find", "getMany", "getCount", "set"}, Goto(p, command),
             UNCHANGED <<nextId, customers, req>>, \A q \in Proc \ {p} : held'[q] = held[q]
      PROVE  Mild(p)
  BY <1>0, <1>5 DEF Mild, Local, Goto, Pending, Updating, ClearCommands
<1>6. CASE CacheMiss(p) \/ CheckFind(p) \/ ListGetMany(p) \/ ListGetCount(p)
  BY <1>0, <1>5, <1>6 DEF CacheMiss, CheckFind, ListGetMany, ListGetCount, db
<1>7. ASSUME NEW command \in {"scan", "rescan", "del", "delLast", "saveEntity"},
             command = "saveEntity" => req[p].op = "update",
             pc[p] \in ClearCommands, Goto(p, command), UNCHANGED <<db, req, held>>
      PROVE  Mild(p)
  BY <1>0, <1>7 DEF Mild, Local, Goto, db, Pending, Updating, ClearCommands
<1>8. ASSUME pc[p] \in ClearCommands, AfterPattern(p), UNCHANGED db PROVE Mild(p)
  <2>1. CASE Goto(p, "scan") /\ UNCHANGED <<req, held>>
    BY <1>7, <1>8, <2>1
  <2>2. CASE req[p].op = "update" /\ Goto(p, "saveEntity") /\ UNCHANGED <<req, held>>
    BY <1>7, <1>8, <2>2
  <2>3. CASE End(p, "ok")
    BY <1>8, <2>3, EndMild DEF db
  <2> QED  BY <1>8, <2>1, <2>2, <2>3 DEF AfterPattern
<1>9. CASE Clear(p)
  <2>1. ASSUME NEW page, NEW last, ScanPage(p, page, last) PROVE Mild(p)
    <3>1. PICK command \in {"del", "delLast"} : Goto(p, command)
      BY <2>1 DEF ScanPage
    <3>2. pc[p] \in ClearCommands /\ UNCHANGED <<db, req, held>>
      BY <2>1 DEF ScanPage, ClearCommands
    <3> QED  BY <1>7, <3>1, <3>2
  <2>2. CASE ScanNothing(p)
    BY <1>8, <2>2 DEF ScanNothing, ClearCommands
  <2>3. CASE Del(p)
    <3>1. UNCHANGED db /\ pc[p] \in ClearCommands
      BY <2>3 DEF Del, ClearCommands
    <3>2. CASE Goto(p, "rescan") /\ UNCHANGED <<req, held>>
      BY <1>7, <3>1, <3>2
    <3>3. CASE AfterPattern(p)
      BY <1>8, <3>1, <3>3
    <3> QED  BY <2>3, <3>2, <3>3 DEF Del
  <2> QED  BY <1>9, <2>1, <2>2, <2>3 DEF Clear, Scan, ScanEnd
<1> QED  BY <1>1, <1>2, <1>3, <1>4, <1>6, <1>9 DEF Cancel, Update, Read

\* A local step keeps the names, and the entity of the only call that may update.
LEMMA LocalKeeps ==
    ASSUME NoRace, RefInv, NEW p \in Proc, Local(p), WellFormed', OnlyOps'
    PROVE  NamesOK' /\ EntityOK'
<1>1. NamesOK'
  <2>1. SUFFICES ASSUME NEW q \in Proc, pc'[q] \in {"findDay", "save"}, q # p
                 PROVE  customers'[held'[q].customer] = req'[q].name
    BY DEF NamesOK, Local
  <2>2. pc'[q] = pc[q] /\ req'[q] = req[q] /\ held'[q] = held[q]
    BY <2>1 DEF Local
  <2>3. held[q].customer \in 1 .. Len(customers) /\ customers[held[q].customer] = req[q].name
    BY <2>1, <2>2 DEF RefInv, WellFormed, CallOK, NamesOK
  <2> QED  BY <2>2, <2>3 DEF Local
<1>2. EntityOK'
  <2>1. SUFFICES ASSUME NEW q \in Proc, Updating(q)'
                 PROVE  (req[q].id \in DOMAIN reservations /\ held[q] = Merged(reservations[req[q].id], req[q].patch))'
    BY DEF EntityOK
  <2>2. "update" \in Ops
    <3>1. pc'[q] # "idle" /\ req'[q].op = "update"
      BY <2>1, RequestKinds DEF Updating, WellFormed, CallOK, ClearCommands
    <3> QED  BY <3>1 DEF OnlyOps
  <2>3. q = p
    BY <2>2 DEF NoRace
  <2>4. \/ /\ Updating(q) /\ UNCHANGED reservations /\ req'[q] = req[q] /\ held'[q] = held[q]
        \/ /\ req'[q].id \in DOMAIN reservations'
           /\ held'[q] = Merged(reservations'[req'[q].id], req'[q].patch)
    BY <2>1, <2>3 DEF Local
  <2>5. Updating(q) => req[q].id \in DOMAIN reservations /\ held[q] = Merged(reservations[req[q].id], req[q].patch)
    BY DEF RefInv, EntityOK
  <2>6. req'[q].id \in DOMAIN reservations' /\ held'[q] = Merged(reservations'[req'[q].id], req'[q].patch)
    BY <2>4, <2>5
  <2> QED  BY <2>6 DEF Merged
<1> QED  BY <1>1, <1>2

\* The creations in flight are finitely many.
LEMMA PendingFinite ==
    /\ IsFiniteSet(Pending) /\ Cardinality(Pending) \in Nat
    /\ IsFiniteSet(Pending') /\ Cardinality(Pending') \in Nat
BY FS_Subset, FS_CardinalityType, ProcAssumption DEF Pending

\* A mild step keeps the room for the creations, too.
LEMMA MildKeeps ==
    ASSUME NoRace, RefInv, NEW p \in Proc, Mild(p), WellFormed', OnlyOps'
    PROVE  RefInv'
<1>1. NamesOK' /\ EntityOK'
  BY LocalKeeps DEF Mild
<1>2. RoomOK'
  <2>1. Pending' \subseteq Pending
    BY DEF Mild, Local, Pending
  <2>2. /\ Cardinality(Pending) \in Nat /\ Cardinality(Pending') \in Nat
        /\ Cardinality(Pending') <= Cardinality(Pending)
    BY <2>1, PendingFinite, FS_Subset
  <2>3. nextId' = nextId /\ nextId \in Nat /\ MaxRows \in Nat /\ nextId + Cardinality(Pending) <= MaxRows + 1
    BY ConfigAssumption DEF Mild, RefInv, WellFormed, TablesOK, RoomOK
  <2> QED  BY <2>2, <2>3 DEF RoomOK
<1> QED  BY <1>1, <1>2 DEF RefInv

\* A creation starts only where there is an id left for it.
LEMMA ReceiveKeeps ==
    ASSUME NoRace, RefInv, NEW p \in Proc, Receive(p), WellFormed', OnlyOps'
    PROVE  RefInv'
<1>1. PICK r \in Requests :
        /\ r.op = "create" => Room
        /\ pc' = [pc EXCEPT ![p] = FirstCommand[r.op]]
        /\ req' = [req EXCEPT ![p] = r]
  BY DEF Receive, Goto
<1>2. UNCHANGED <<nextId, customers, held>>
  BY DEF Receive, db
<1>3. \/ r.op = "create" /\ FirstCommand[r.op] = "findCustomer"
      \/ FirstCommand[r.op] \in {"delete", "findOne", "get"}
  BY RequestKinds DEF Requests, ReadReqs, FirstCommand
<1>4. /\ pc'[p] = FirstCommand[r.op]
      /\ \A q \in Proc \ {p} : pc'[q] = pc[q] /\ req'[q] = req[q]
  BY <1>1 DEF RefInv, WellFormed, LocalsOK
<1>5. Local(p)
  BY <1>2, <1>3, <1>4 DEF Local, Updating, ClearCommands
<1>6. CASE FirstCommand[r.op] \in {"delete", "findOne", "get"}
  <2>1. Mild(p)
    BY <1>2, <1>4, <1>5, <1>6 DEF Mild, Pending
  <2> QED  BY <2>1, MildKeeps
<1>7. CASE r.op = "create"
  <2> DEFINE creating == {q \in Proc : pc[q] # "idle" /\ req[q].op = "create"}
  <2>1. nextId + Cardinality(creating) <= MaxRows
    BY <1>1, <1>7 DEF Room
  <2>2. Pending \subseteq creating
    BY RequestKinds DEF Pending, RefInv, WellFormed, CallOK
  <2>3. IsFiniteSet(creating)
    BY FS_Subset, ProcAssumption
  <2> HIDE DEF creating
  <2>4. Pending' \subseteq Pending \cup {p}
    BY <1>4 DEF Pending
  <2>5. Cardinality(Pending) <= Cardinality(creating) /\ Cardinality(creating) \in Nat
    BY <2>2, <2>3, FS_Subset, FS_CardinalityType
  <2>6. /\ Cardinality(Pending \cup {p}) <= Cardinality(Pending) + 1
        /\ IsFiniteSet(Pending \cup {p}) /\ Cardinality(Pending \cup {p}) \in Nat
    <3>1. IsFiniteSet(Pending) /\ Cardinality(Pending) \in Nat
      BY PendingFinite
    <3>2. /\ IsFiniteSet(Pending \cup {p})
          /\ Cardinality(Pending \cup {p}) = IF p \in Pending THEN Cardinality(Pending)
                                             ELSE Cardinality(Pending) + 1
      BY <3>1, FS_AddElement
    <3> QED  BY <3>1, <3>2
  <2>7. Cardinality(Pending') <= Cardinality(Pending \cup {p})
    BY <2>4, <2>6, FS_Subset
  <2>8. nextId \in Nat /\ MaxRows \in Nat
    BY ConfigAssumption DEF RefInv, WellFormed, TablesOK
  <2>9. RoomOK'
    <3>1. Cardinality(Pending') <= Cardinality(creating) + 1
      BY <2>5, <2>6, <2>7, PendingFinite
    <3> QED  BY <1>2, <2>1, <2>5, <2>8, <3>1, PendingFinite DEF RoomOK
  <2> QED  BY <1>5, <2>9, LocalKeeps DEF RefInv
<1> QED  BY <1>3, <1>6, <1>7

\* A creation that draws its id is not pending any more.
LEMMA SaveKeeps ==
    ASSUME NoRace, RefInv, NEW p \in Proc, CreateSave(p), WellFormed', OnlyOps'
    PROVE  RefInv'
<1>1. /\ pc[p] = "save" /\ nextId' = nextId + 1 /\ pc' = [pc EXCEPT ![p] = "scan"]
      /\ UNCHANGED <<customers, req, held>>
  BY DEF CreateSave, StartClear, Goto
<1>2. pc'[p] = "scan" /\ \A q \in Proc \ {p} : pc'[q] = pc[q]
  BY <1>1 DEF RefInv, WellFormed, LocalsOK
<1>3. req[p].op = "create"
  BY <1>1, RequestKinds DEF RefInv, WellFormed, CallOK
<1>4. Local(p)
  BY <1>1, <1>2, <1>3 DEF Local, Updating
<1>5. Pending' = Pending \ {p} /\ p \in Pending
  BY <1>1, <1>2 DEF Pending
<1>6. Cardinality(Pending') = Cardinality(Pending) - 1
  BY <1>5, PendingFinite, FS_RemoveElement
<1>7. nextId \in Nat /\ MaxRows \in Nat /\ nextId + Cardinality(Pending) <= MaxRows + 1
  BY ConfigAssumption DEF RefInv, WellFormed, TablesOK, RoomOK
<1>8. RoomOK'
  BY <1>1, <1>6, <1>7, PendingFinite DEF RoomOK
<1> QED  BY <1>4, <1>8, LocalKeeps DEF RefInv

\* Every step keeps the invariant.
LEMMA RefNext == ASSUME NoRace PROVE RefInv /\ [Next]_vars => RefInv'
<1> SUFFICES ASSUME RefInv, [Next]_vars PROVE RefInv'
  OBVIOUS
<1>0. WellFormed' /\ OnlyOps'
  BY NextOK, OnlyOpsStep DEF RefInv
<1>1. CASE UNCHANGED <<db, pc, req, held>>
  BY <1>0, <1>1 DEF RefInv, RoomOK, NamesOK, EntityOK, Pending, Updating, Merged, db
<1>2. ASSUME NEW p \in Proc, Step(p) \/ Fail(p) PROVE RefInv'
  <2>1. CreateSave(p) \/ Mild(p)
    BY <1>2, CreateMild, OtherMild DEF Step, RefInv
  <2> QED  BY <1>0, <2>1, MildKeeps, SaveKeeps
<1>3. ASSUME NEW p \in Proc, Receive(p) PROVE RefInv'
  BY <1>0, <1>3, ReceiveKeeps
<1>4. CASE Crash
  <2>1. \A p \in Proc : pc'[p] = "idle"
    BY <1>4 DEF Crash
  <2>2. Pending' = {} /\ NamesOK' /\ EntityOK'
    BY <2>1 DEF Pending, NamesOK, EntityOK, Updating, ClearCommands
  <2>3. UNCHANGED nextId
    BY <1>4 DEF Crash, db
  <2>4. nextId \in Nat /\ MaxRows \in Nat /\ nextId + Cardinality(Pending) <= MaxRows + 1
    BY ConfigAssumption DEF RefInv, WellFormed, TablesOK, RoomOK
  <2>5. RoomOK'
    BY <2>2, <2>3, <2>4, PendingFinite, FS_EmptySet DEF RoomOK
  <2> QED  BY <1>0, <2>2, <2>5 DEF RefInv
<1>5. ASSUME NEW k \in Keys, Expire(k) PROVE RefInv'
  BY <1>1, <1>5 DEF Expire
<1>6. UNCHANGED vars => UNCHANGED <<db, pc, req, held>>
  BY DEF vars
<1> QED  BY <1>1, <1>2, <1>3, <1>4, <1>5, <1>6 DEF Next

\* The service starts like the book.
LEMMA RefInit == Init => RefInv /\ Book!Init
<1> SUFFICES ASSUME Init PROVE RefInv /\ Book!Init
  OBVIOUS
<1>1. WellFormed /\ OnlyOps /\ NamesOK /\ EntityOK
  BY InitOK DEF Init, OnlyOps, NamesOK, EntityOK, Updating, ClearCommands
<1>2. Pending = {}
  BY DEF Init, Pending
<1>3. RoomOK
  BY <1>2, FS_EmptySet, ConfigAssumption DEF RoomOK, Init
<1>4. BookOf = <<>> /\ 1 .. nextId - 1 = {} /\ Done = {}
  BY DEF Init, BookOf, Done, Committed, ClearCommands
<1>5. Book!Init
  BY <1>4 DEF Book!Init, Init, BookOf, Done
<1> QED  BY <1>1, <1>3, <1>5 DEF RefInv

\* The reservation service implements the ReservationBook: every call takes effect
\* at most once and at one moment, on the table as it then is, and the reply tells
\* the truth (ImplementsReservationBook), if calls that overlap do not update.
THEOREM Implements ==
    ASSUME NoRace
    PROVE  Spec => ImplementsReservationBook
<1>1. RefInv /\ [Next]_vars => RefInv'
  BY RefNext
<1> QED  BY <1>1, RefInit, NextMaps, PTL DEF Spec, ImplementsReservationBook, Book!Spec

-----------------------------------------------------------------------------
(* What one client at a time reads.                                        *)

Alone == \A p, q \in Proc : p = q

\* checkAvailability is asked for a time, or for a range with an end.  (The
\* validation also lets both, and an empty end, through: their keys collide.)
OneForm ==
    \A q \in AvailQueries : Accepts(q) => \/ q.time # None /\ q.range = None
                                          \/ q.time = None /\ q.range # None /\ q.range.end # None

\* Two reads with the same cache key ask for the same answer.
LEMMA KeyDetermines ==
    ASSUME OneForm, NEW r \in ReadReqs, NEW s \in ReadReqs, KeyOf(r) = KeyOf(s)
    PROVE  Answer(r) = Answer(s)
<1>1. /\ r \in CheckReqs => r.op = "check" /\ r.query \in AvailQueries /\ Accepts(r.query)
      /\ s \in CheckReqs => s.op = "check" /\ s.query \in AvailQueries /\ Accepts(s.query)
      /\ r \in ListReqs => r.op = "list"
      /\ s \in ListReqs => s.op = "list"
  BY DEF CheckReqs, ListReqs
<1>2. KeyOf(r).pattern = KeyOf(s).pattern /\ KeyOf(r).of = KeyOf(s).of
  OBVIOUS
<1>3. CASE r \in CheckReqs
  <2>1. s \in CheckReqs
    BY <1>1, <1>2, <1>3 DEF KeyOf, AvailabilityKey, ListKey, ReadReqs
  <2> DEFINE a == r.query
             b == s.query
  <2>2. <<a.date, IF a.time # None THEN a.time ELSE a.range.start,
          IF a.range # None THEN a.range.end ELSE None, a.guests>> =
        <<b.date, IF b.time # None THEN b.time ELSE b.range.start,
          IF b.range # None THEN b.range.end ELSE None, b.guests>>
    BY <1>1, <1>2, <1>3, <2>1 DEF KeyOf, AvailabilityKey
  <2>3. /\ a.date = b.date /\ a.guests = b.guests
        /\ (IF a.time # None THEN a.time ELSE a.range.start) =
           (IF b.time # None THEN b.time ELSE b.range.start)
        /\ (IF a.range # None THEN a.range.end ELSE None) =
           (IF b.range # None THEN b.range.end ELSE None)
    BY <2>2
  <2>4. /\ (a.time # None /\ a.range = None) \/ (a.time = None /\ a.range # None /\ a.range.end # None)
        /\ (b.time # None /\ b.range = None) \/ (b.time = None /\ b.range # None /\ b.range.end # None)
    BY <1>1, <1>3, <2>1 DEF OneForm
  <2>5. \/ a.time # None /\ b.time = a.time
        \/ a.time = None /\ b.time = None /\ a.range.start = b.range.start /\ a.range.end = b.range.end
    BY <2>3, <2>4
  <2>6. Availability(a) = Availability(b)
    <3>0. PICK d, g : a.date = d /\ b.date = d /\ a.guests = g /\ b.guests = g
      BY <2>3
    <3> HIDE DEF a, b
    <3>1. CASE a.time # None /\ b.time = a.time
      BY <3>0, <3>1 DEF Availability
    <3>2. CASE a.time = None /\ b.time = None /\ a.range.start = b.range.start /\ a.range.end = b.range.end
      BY <3>0, <3>2 DEF Availability
    <3> QED  BY <2>5, <3>1, <3>2
  <2> QED  BY <1>1, <1>3, <2>1, <2>6 DEF Answer
<1>4. CASE r \in ListReqs
  <2>1. s \in ListReqs
    BY <1>1, <1>2, <1>4 DEF KeyOf, AvailabilityKey, ListKey, ReadReqs
  <2> DEFINE a == r.query
             b == s.query
  <2>2. <<a.filter, a.pagination, a.sort>> = <<b.filter, b.pagination, b.sort>>
    BY <1>1, <1>2, <1>4, <2>1 DEF KeyOf, ListKey
  <2>3. a.filter = b.filter /\ a.pagination = b.pagination /\ a.sort = b.sort
    BY <2>2
  <2> HIDE DEF a, b
  <2>4. Matching(a) = Matching(b)
    BY <2>3 DEF Matching
  <2>5. \A i, j : SortsBefore(a, i, j) = SortsBefore(b, i, j)
    BY <2>3 DEF SortsBefore
  <2>6. \A i : Position(a, i) = Position(b, i)
    BY <2>4, <2>5 DEF Position
  <2>7. Items(a) = Items(b)
    BY <2>3, <2>4, <2>6 DEF Items, OnPage
  <2>8. TotalItems(a) = TotalItems(b)
    BY <2>4 DEF TotalItems
  <2> QED  BY <1>1, <1>4, <2>1, <2>7, <2>8 DEF Answer, a, b
<1> QED  BY <1>3, <1>4 DEF ReadReqs

\* The entry of k is the answer to every read with that key.
Right(k) == \A r \in ReadReqs : KeyOf(r) = k => cache[k] = Answer(r)

\* The inductive invariant behind ReadsAreCurrent: outside clearReservationCache
\* the cache agrees with the tables, inside it every entry is still to be
\* removed, and an update saves with the cache empty.
CurrentOK ==
    \A p \in Proc :
        /\ pc[p] \notin ClearCommands => \A k \in DOMAIN cache : Right(k)
        /\ pc[p] \in ClearCommands => \A k \in DOMAIN cache : Owes(p, k)
        /\ pc[p] = "saveEntity" => DOMAIN cache = {}
        /\ pc[p] = "getCount" => held[p].items = Items(req[p].query)
        /\ pc[p] = "set" => held[p] = Answer(req[p])

\* A step that changes neither the answers nor the cache, of a call that is not
\* clearing it.
LEMMA OutsideCurrent ==
    ASSUME Alone, WellFormed, CurrentOK, NEW p \in Proc, UNCHANGED <<reservations, cache>>,
           \A c \in 1 .. Len(customers) : customers'[c] = customers[c],
           pc[p] \notin ClearCommands, pc'[p] \notin ClearCommands \cup {"saveEntity"},
           pc'[p] = "getCount" => held'[p].items = Items(req'[p].query),
           pc'[p] = "set" => held'[p] = Answer(req'[p])
    PROVE  CurrentOK'
<1>1. \A r : Answer(r)' = Answer(r)
  BY AnswerStable
<1>2. \A q : Items(q)' = Items(q)
  <2>1. ASSUME NEW q PROVE Items(q)' = Items(q)
    <3> DEFINE r == [op |-> "list", query |-> q]
    <3>1. Answer(r) = [items |-> Items(q), totalItems |-> TotalItems(q)]
      BY DEF Answer
    <3>2. Answer(r)' = [items |-> Items(q)', totalItems |-> TotalItems(q)']
      BY DEF Answer
    <3>3. Answer(r)' = Answer(r)
      <4> HIDE DEF r
      <4> QED  BY AnswerStable
    <3> QED  BY <3>1, <3>2, <3>3
  <2> QED  BY <2>1
<1>3. \A k \in DOMAIN cache' : Right(k)'
  BY <1>1 DEF CurrentOK, Right
<1>4. ASSUME NEW q \in Proc, q = p
      PROVE  /\ pc'[q] = "getCount" => held'[q].items = Items(req'[q].query)
             /\ pc'[q] = "set" => held'[q] = Answer(req'[q])
  BY <1>4
<1> QED  BY <1>1, <1>2, <1>3, <1>4 DEF CurrentOK, Alone

\* A call that starts to clear the cache owes every entry.
LEMMA StartsClearing ==
    ASSUME Alone, WellFormed, NEW p \in Proc, UNCHANGED cache,
           pc'[p] = "scan", pat'[p] = "reservations"
    PROVE  CurrentOK'
<1>1. ASSUME NEW k \in DOMAIN cache PROVE Owes(p, k)'
  <2>1. k.pattern \in {"reservations", "availability"}
    BY Patterns DEF WellFormed, CacheOK
  <2> QED  BY <2>1 DEF Owes, ClearCommands
<1> QED  BY <1>1 DEF CurrentOK, Alone, ClearCommands

\* A call that has cleared the cache leaves it empty.
LEMMA StopsClearing ==
    ASSUME Alone, NEW p \in Proc, DOMAIN cache' = {},
           pc'[p] \in {"idle", "saveEntity"}
    PROVE  CurrentOK'
BY DEF CurrentOK, Alone, ClearCommands

\* Going on after a pattern: with every entry of the first pattern gone, the
\* rest is owed; with every entry gone, the call is done.
LEMMA PatternDone ==
    ASSUME Alone, WellFormed, WellFormed', NEW p \in Proc, pc[p] \in ClearCommands, AfterPattern(p),
           \A k \in DOMAIN cache' : pat[p] = "reservations" /\ k.pattern = "availability"
    PROVE  CurrentOK'
<1>1. CASE pat[p] = "reservations"
  <2>1. pc'[p] = "scan"
    BY <1>1 DEF AfterPattern, Goto, WellFormed, LocalsOK
  <2>2. \A k \in DOMAIN cache' : Owes(p, k)'
    BY <1>1, NextPatternOwed DEF WellFormed, CacheOK
  <2> QED  BY <2>1, <2>2 DEF CurrentOK, Alone, ClearCommands
<1>2. CASE pat[p] # "reservations"
  <2>1. pc'[p] \in {"idle", "saveEntity"}
    BY <1>2 DEF AfterPattern, End, Goto, WellFormed, LocalsOK
  <2>2. DOMAIN cache' = {}
    BY <1>2
  <2> QED  BY <2>1, <2>2, StopsClearing
<1> QED  BY <1>1, <1>2

\* Clearing passes over no entry.
LEMMA ClearCurrent ==
    ASSUME Alone, WellFormed, WellFormed', CurrentOK, NEW p \in Proc, Clear(p)
    PROVE  CurrentOK'
<1>0. /\ pc \in [Proc -> Commands \cup {"idle"}] /\ DOMAIN pat = Proc
      /\ todo \in [Proc -> SUBSET Keys] /\ batch \in [Proc -> SUBSET Keys]
  BY DEF WellFormed, LocalsOK
<1>1. ASSUME NEW page \in SUBSET CachedKeys(pat[p]), NEW last \in BOOLEAN, ScanPage(p, page, last)
      PROVE  CurrentOK'
  <2>1. /\ pc[p] \in {"scan", "rescan"} /\ batch' = [batch EXCEPT ![p] = page]
        /\ last => MustReturn(p) \subseteq page
        /\ todo' = [todo EXCEPT ![p] = MustReturn(p) \ page]
        /\ pc' = [pc EXCEPT ![p] = IF last THEN "delLast" ELSE "del"]
        /\ UNCHANGED <<cache, pat>>
    BY <1>1 DEF ScanPage, Goto, redis
  <2>2. ASSUME NEW k \in DOMAIN cache PROVE Owes(p, k)'
    <3>1. Owes(p, k)
      BY <2>1, <2>2 DEF CurrentOK, ClearCommands
    <3>2. CASE k.pattern = pat[p]
      <4>1. k \in MustReturn(p)
        BY <2>1, <2>2, <3>1, <3>2 DEF Owes, MustReturn, CachedKeys
      <4> QED  BY <1>0, <2>1, <3>2, <4>1 DEF Owes
    <3>3. CASE k.pattern # pat[p]
      BY <1>0, <2>1, <3>1, <3>3 DEF Owes, ClearCommands
    <3> QED  BY <3>2, <3>3
  <2>3. pc'[p] \in {"del", "delLast"}
    BY <1>0, <2>1
  <2> QED  BY <2>1, <2>2, <2>3 DEF CurrentOK, Alone, ClearCommands
<1>2. CASE ScanNothing(p)
  <2>1. /\ pc[p] \in {"scan", "rescan"} /\ MustReturn(p) = {} /\ AfterPattern(p) /\ UNCHANGED cache
    BY <1>2 DEF ScanNothing, redis
  <2>2. ASSUME NEW k \in DOMAIN cache PROVE pat[p] = "reservations" /\ k.pattern = "availability"
    <3>1. Owes(p, k)
      BY <2>1, <2>2 DEF CurrentOK, ClearCommands
    <3> QED  BY <2>1, <2>2, <3>1 DEF Owes, MustReturn, CachedKeys
  <2> QED  BY <2>1, <2>2, PatternDone DEF ClearCommands
<1>3. CASE Del(p)
  <2>1. /\ cache' = Drop(cache, batch[p])
        /\ todo' = [q \in Proc |-> todo[q] \ batch[p]]
        /\ batch' = [batch EXCEPT ![p] = {}]
        /\ \/ pc[p] = "del" /\ pc' = [pc EXCEPT ![p] = "rescan"] /\ UNCHANGED pat
           \/ pc[p] = "delLast" /\ AfterPattern(p)
    BY <1>3 DEF Del, Remove, Goto
  <2>2. \A k \in DOMAIN cache' : Owes(p, k) /\ k \notin batch[p]
    BY <2>1 DEF Drop, CurrentOK, ClearCommands
  <2>3. CASE pc[p] = "del" /\ pc' = [pc EXCEPT ![p] = "rescan"] /\ UNCHANGED pat
    <3>1. ASSUME NEW k \in DOMAIN cache' PROVE Owes(p, k)'
      BY <1>0, <2>1, <2>2, <2>3, <3>1 DEF Owes, ClearCommands
    <3>2. pc'[p] = "rescan"
      BY <1>0, <2>3
    <3> QED  BY <3>1, <3>2 DEF CurrentOK, Alone, ClearCommands
  <2>4. CASE pc[p] = "delLast" /\ AfterPattern(p)
    <3>1. ASSUME NEW k \in DOMAIN cache' PROVE pat[p] = "reservations" /\ k.pattern = "availability"
      BY <2>2, <2>4, <3>1 DEF Owes
    <3> QED  BY <2>4, <3>1, PatternDone DEF ClearCommands
  <2> QED  BY <2>1, <2>3, <2>4
<1> QED  BY <1>1, <1>2, <1>3 DEF Clear, Scan, ScanEnd

\* A reader stores an answer that is right for every read with its key.
LEMMA SetCurrent ==
    ASSUME Alone, OneForm, WellFormed, CurrentOK, NEW p \in Proc, CacheSet(p)
    PROVE  CurrentOK'
<1> DEFINE k == KeyOf(req[p])
<1>1. /\ pc[p] = "set" /\ cache' = Put(cache, k, held[p])
      /\ End(p, "ok") /\ UNCHANGED <<reservations, customers>>
  BY DEF CacheSet, db
<1>2. req[p] \in ReadReqs /\ held[p] = Answer(req[p])
  BY <1>1 DEF WellFormed, CallOK, CurrentOK
<1>3. \A r : Answer(r)' = Answer(r)
  BY <1>1, AnswerStable
<1>4. /\ DOMAIN cache' = DOMAIN cache \cup {k}
      /\ \A x \in DOMAIN cache' : cache'[x] = IF x = k THEN held[p] ELSE cache[x]
  BY <1>1 DEF Put
<1>5. ASSUME NEW x \in DOMAIN cache', NEW r \in ReadReqs, KeyOf(r) = x
      PROVE  cache'[x] = Answer(r)
  <2>1. CASE x = k
    BY <1>2, <1>4, <1>5, <2>1, KeyDetermines
  <2>2. CASE x # k
    BY <1>1, <1>4, <1>5, <2>2 DEF CurrentOK, Right, ClearCommands
  <2> QED  BY <2>1, <2>2
<1>6. \A x \in DOMAIN cache' : Right(x)'
  BY <1>3, <1>5 DEF Right
<1>7. pc'[p] = "idle"
  BY <1>1 DEF End, Goto, WellFormed, LocalsOK
<1> QED  BY <1>6, <1>7 DEF CurrentOK, Alone, ClearCommands

\* Every step of the one call in flight keeps the cache right.
LEMMA CurrentStep ==
    ASSUME Alone, ~Faults, OneForm, WellFormed, WellFormed', CurrentOK, [Next]_vars
    PROVE  CurrentOK'
<1>0. /\ pc \in [Proc -> Commands \cup {"idle"}] /\ DOMAIN pat = Proc
      /\ DOMAIN req = Proc /\ DOMAIN held = Proc
      /\ customers \in Seq(Names)
  BY DEF WellFormed, LocalsOK, TablesOK
<1>1. CASE UNCHANGED vars
  <2>1. UNCHANGED <<reservations, customers, cache, pc, req, held, pat, todo, batch>>
    BY <1>1 DEF vars, db, redis, sweep
  <2>2. \A k : Right(k)' <=> Right(k)
    BY <2>1, AnswerStable DEF Right
  <2>3. \A p, k : Owes(p, k)' <=> Owes(p, k)
    BY <2>1 DEF Owes
  <2>4. \A q : Items(q)' = Items(q)
    BY <2>1 DEF Items, Matching, Position, SortsBefore, OnPage
  <2>5. \A r : Answer(r)' = Answer(r)
    BY <2>1, AnswerStable
  <2> QED  BY <2>1, <2>2, <2>3, <2>4, <2>5 DEF CurrentOK
<1>2. ASSUME NEW p \in Proc, Receive(p) PROVE CurrentOK'
  <2>1. pc'[p] \in {"findCustomer", "delete", "findOne", "get"}
    BY <1>0, <1>2, RequestKinds DEF Receive, Goto, FirstCommand, Requests, ReadReqs
  <2> QED  BY <1>2, <2>1, OutsideCurrent DEF Receive, ClearCommands, db, redis
<1>3. ASSUME NEW p \in Proc, Create(p) PROVE CurrentOK'
  <2>1. CASE CreateFindCustomer(p)
    BY <1>0, <2>1, OutsideCurrent DEF CreateFindCustomer, Goto, ClearCommands, db, redis
  <2>2. CASE CreateSaveCustomer(p)
    <3>1. req[p].name \in Names
      BY <2>2, RequestKinds DEF CreateSaveCustomer, WellFormed, CallOK
    <3>2. \A c \in 1 .. Len(customers) : customers'[c] = customers[c]
      BY <1>0, <2>2, <3>1, AppendProperties DEF CreateSaveCustomer
    <3> QED  BY <1>0, <2>2, <3>2, OutsideCurrent DEF CreateSaveCustomer, Goto, ClearCommands, redis
  <2>3. CASE CreateAdmit(p)
    BY <1>0, <2>3, OutsideCurrent DEF CreateAdmit, Goto, ClearCommands, db, redis
  <2>4. CASE CreateRefuse(p)
    BY <1>0, <2>4, OutsideCurrent DEF CreateRefuse, End, Goto, ClearCommands, db, redis
  <2>5. CASE CreateSave(p)
    BY <1>0, <2>5, StartsClearing DEF CreateSave, StartClear, Goto
  <2> QED  BY <1>3, <2>1, <2>2, <2>3, <2>4, <2>5 DEF Create
<1>4. ASSUME NEW p \in Proc, Cancel(p) PROVE CurrentOK'
  <2>1. CASE CancelDelete(p)
    BY <1>0, <2>1, StartsClearing DEF CancelDelete, StartClear, Goto
  <2>2. CASE CancelMissing(p)
    BY <1>0, <2>2, OutsideCurrent DEF CancelMissing, End, Goto, ClearCommands, db, redis
  <2> QED  BY <1>4, <2>1, <2>2 DEF Cancel
<1>5. ASSUME NEW p \in Proc, Update(p) PROVE CurrentOK'
  <2>1. CASE UpdateFind(p)
    BY <1>0, <2>1, StartsClearing DEF UpdateFind, StartClear, Goto, redis
  <2>2. CASE UpdateMissing(p)
    BY <1>0, <2>2, OutsideCurrent DEF UpdateMissing, End, Goto, ClearCommands, db, redis
  <2>3. CASE UpdateSave(p)
    <3>1. DOMAIN cache' = {}
      BY <2>3 DEF UpdateSave, CurrentOK
    <3> QED  BY <1>0, <2>3, <3>1, StopsClearing DEF UpdateSave, End, Goto
  <2> QED  BY <1>5, <2>1, <2>2, <2>3 DEF Update
<1>6. ASSUME NEW p \in Proc, Read(p) PROVE CurrentOK'
  <2>1. CASE CacheHit(p)
    BY <1>0, <2>1, OutsideCurrent DEF CacheHit, End, Goto, ClearCommands, db, redis
  <2>2. CASE CacheMiss(p)
    BY <1>0, <2>2, OutsideCurrent DEF CacheMiss, Goto, ClearCommands, db, redis
  <2>3. CASE CheckFind(p)
    <3>1. req[p].op = "check"
      BY <2>3, RequestKinds DEF CheckFind, WellFormed, CallOK
    <3>2. /\ pc[p] = "find" /\ pc'[p] = "set" /\ UNCHANGED <<reservations, customers, cache, req>>
          /\ held'[p] = Availability(req[p].query)
      BY <1>0, <2>3 DEF CheckFind, Goto, db, redis
    <3>3. held'[p] = Answer(req'[p])
      BY <3>1, <3>2 DEF Answer
    <3> QED  BY <3>2, <3>3, OutsideCurrent DEF ClearCommands
  <2>4. CASE ListGetMany(p)
    <3>1. /\ pc[p] = "getMany" /\ pc'[p] = "getCount" /\ UNCHANGED <<reservations, customers, cache, req>>
          /\ held'[p] = [items |-> Items(req[p].query), totalItems |-> None]
      BY <1>0, <2>4 DEF ListGetMany, Goto, db, redis
    <3>2. held'[p].items = Items(req'[p].query)
      BY <3>1
    <3> QED  BY <3>1, <3>2, OutsideCurrent DEF ClearCommands
  <2>5. CASE ListGetCount(p)
    <3>1. req[p].op = "list"
      BY <2>5, RequestKinds DEF ListGetCount, WellFormed, CallOK
    <3>2. /\ pc[p] = "getCount" /\ pc'[p] = "set" /\ UNCHANGED <<reservations, customers, cache, req>>
          /\ held'[p] = [items |-> held[p].items, totalItems |-> TotalItems(req[p].query)]
      BY <1>0, <2>5 DEF ListGetCount, Goto, db, redis
    <3>3. held[p].items = Items(req[p].query)
      BY <3>2 DEF CurrentOK
    <3>4. held'[p] = Answer(req'[p])
      BY <3>1, <3>2, <3>3 DEF Answer
    <3> QED  BY <3>2, <3>4, OutsideCurrent DEF ClearCommands
  <2> QED  BY <1>6, <2>1, <2>2, <2>3, <2>4, <2>5, SetCurrent DEF Read
<1>7. ASSUME NEW k \in Keys, Expire(k) PROVE CurrentOK'
  <2>1. /\ cache' = Drop(cache, {k}) /\ UNCHANGED <<reservations, customers, pc, req, held, pat, batch>>
        /\ todo' = [q \in Proc |-> todo[q] \ {k}]
    BY <1>7 DEF Expire, Remove, db
  <2>2. \A x \in DOMAIN cache' : x \in DOMAIN cache /\ x # k /\ cache'[x] = cache[x]
    BY <2>1 DEF Drop
  <2>3. \A r : Answer(r)' = Answer(r)
    BY <2>1, AnswerStable
  <2>4. \A x \in DOMAIN cache' : Right(x) => Right(x)'
    BY <2>2, <2>3 DEF Right
  <2>5. \A p \in Proc : \A x \in DOMAIN cache' : Owes(p, x) => Owes(p, x)'
    BY <2>1, <2>2 DEF Owes
  <2>6. \A q : Items(q)' = Items(q)
    BY <2>1 DEF Items, Matching, Position, SortsBefore, OnPage
  <2>7. DOMAIN cache = {} => DOMAIN cache' = {}
    BY <2>2
  <2> QED  BY <2>1, <2>2, <2>3, <2>4, <2>5, <2>6, <2>7 DEF CurrentOK
<1> QED  BY <1>1, <1>2, <1>3, <1>4, <1>5, <1>6, <1>7, ClearCurrent DEF Next, Step, Fail, Crash

\* A read that ends at its first command has found its key.
LEMMA OnlyHitsEnd ==
    ASSUME Alone, ~Faults, WellFormed, Next, NEW p \in Proc, pc[p] = "get", pc'[p] = "idle"
    PROVE  CacheHit(p)
<1>0. pc \in [Proc -> Commands \cup {"idle"}]
  BY DEF WellFormed, LocalsOK
<1>1. ~(\E k \in Keys : Expire(k)) /\ ~Crash
  BY DEF Expire, Crash
<1>2. PICK q \in Proc : Receive(q) \/ Step(q) \/ Fail(q)
  BY <1>1 DEF Next
<1>3. q = p
  BY DEF Alone
<1>4. ~Receive(p) /\ ~Fail(p)
  BY DEF Receive, Fail
<1>5. ~Create(p) /\ ~Cancel(p) /\ ~Update(p)
  BY DEF Create, CreateFindCustomer, CreateSaveCustomer, CreateAdmit, CreateRefuse, CreateSave,
         Cancel, CancelDelete, CancelMissing, Update, UpdateFind, UpdateMissing, UpdateSave
<1>6. ~Clear(p)
  BY DEF Clear, Scan, ScanEnd, ScanPage, ScanNothing, Del
<1>7. ~CacheMiss(p) /\ ~CheckFind(p) /\ ~ListGetMany(p) /\ ~ListGetCount(p) /\ ~CacheSet(p)
  BY <1>0 DEF CacheMiss, CheckFind, ListGetMany, ListGetCount, CacheSet, Goto
<1> QED  BY <1>2, <1>3, <1>4, <1>5, <1>6, <1>7 DEF Step, Read

\* One client at a time never reads stale data (ReadsAreCurrent), from the cache
\* or from the tables, whatever it writes in between: for every set of queries
\* that ask for a time or for a range with an end, and while no command fails.
THEOREM ReadsCurrent ==
    ASSUME Alone, ~Faults, OneForm
    PROVE  Spec => ReadsAreCurrent
<1>1. Init => CurrentOK
  BY DEF Init, CurrentOK, ClearCommands
<1>2. WellFormed /\ WellFormed' /\ CurrentOK /\ [Next]_vars => CurrentOK'
  BY CurrentStep
<1>3. WellFormed /\ CurrentOK /\ [Next]_vars =>
        [\A p \in Proc : Served(p) => Result(p) = Answer(req[p])]_vars
  <2> SUFFICES ASSUME WellFormed, CurrentOK, Next, NEW p \in Proc, Served(p)
               PROVE  Result(p) = Answer(req[p])
    OBVIOUS
  <2>1. pc[p] \in {"get", "set"} /\ pc'[p] = "idle" /\ req[p] \in ReadReqs
    BY DEF Served, WellFormed, CallOK
  <2>2. CASE pc[p] = "set"
    BY <2>2 DEF Result, CurrentOK
  <2>3. CASE pc[p] = "get"
    <3>1. CacheHit(p)
      BY <2>1, <2>3, OnlyHitsEnd
    <3>2. Right(KeyOf(req[p]))
      BY <2>3, <3>1 DEF CacheHit, CurrentOK, ClearCommands
    <3> QED  BY <2>1, <2>3, <3>2 DEF Right, Result
  <2> QED  BY <2>1, <2>2, <2>3
<1> QED  BY <1>1, <1>2, <1>3, AlwaysWellFormed, PTL DEF Spec, ReadsAreCurrent
=============================================================================
