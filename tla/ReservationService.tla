-------------------------- MODULE ReservationService --------------------------
(***************************************************************************)
(* The reservation service of the backend, with the two tables it writes   *)
(* and the Redis cache in front of them                                    *)
(* (src/backend/src/reservations/reservation.service.ts and                *)
(* src/backend/src/redis/redis.service.ts).                                *)
(*                                                                         *)
(* Proc is the set of GraphQL calls the server can have in flight at once. *)
(* A handler gives up the event loop at every await, so each database or   *)
(* Redis command is one action, together with the code that runs from its  *)
(* reply to the next await; pc[p] names the command that p waits for.      *)
(* Nothing (no lock, no transaction) groups two commands of one call.      *)
(***************************************************************************)
EXTENDS ReservationUtils

CONSTANTS
    Proc,                 \* concurrent GraphQL calls
    Ops,                  \* the operations callers use, a subset of AllOps
    Names, Dates, Times, PartySizes,     \* fields of createReservation
    Patches,              \* inputs of updateReservation, None for a field left out
    AvailQueries,         \* inputs of checkAvailability
    ListQueries,          \* inputs of getReservations
    TotalSeats, SlotDuration, ReservationDuration,      \* configuration
    Faults,               \* whether commands may fail and the server may crash
    MaxRows,              \* bound: the number of reservations ever created
    None                  \* an absent value (undefined, null or '')

AllOps == {"create", "cancel", "update", "check", "list"}

ASSUME ConfigAssumption ==
    /\ TotalSeats \in Nat /\ MaxRows \in Nat
    /\ SlotDuration \in Nat \ {0} /\ ReservationDuration \in Nat \ {0}
    /\ Ops \subseteq AllOps /\ Faults \in BOOLEAN

\* What the validation pipe lets through to createReservation: a 24-hour time
\* and at least one guest.  Dates are compared as strings; a date is its rank
\* in that order.
ASSUME InputAssumption ==
    /\ \A t \in Times : t \in Nat \X Nat /\ isValidTimeString(t)
    /\ PartySizes \subseteq Nat \ {0}
    /\ Dates \subseteq Nat
    /\ None \notin Names /\ None \notin Dates /\ None \notin Times /\ None \notin PartySizes

ASSUME PatchAssumption ==
    Patches \subseteq [date : Dates \cup {None}, time : Times \cup {None},
                       guests : PartySizes \cup {None}]

ASSUME ProcAssumption ==
    IsFiniteSet(Proc) /\ {"fill", "update", "fault"} \cap Proc = {}

VARIABLES
    reservations,  \* the reservation table: id -> row
    nextId,        \* the next value of its id sequence
    customers,     \* the customer table: the names, in the order of their ids
    cache,         \* Redis: key -> the answer stored under it
    pc,            \* the command each call waits for, "idle" between calls
    req,           \* the input of each call
    held,          \* what each call carries from one command to the next
    pat,           \* the pattern scanAndDelete works on
    todo,          \* keys its SCAN iteration must still return
    batch,         \* keys of the page it is about to DEL
    reply,         \* how each call's latest request ended
    blame          \* history: why each cache entry may be out of date

db    == <<reservations, nextId, customers>>
redis == <<cache, blame>>
sweep == <<pat, todo, batch>>
vars  == <<db, redis, pc, req, held, sweep, reply>>

-----------------------------------------------------------------------------
(* Tables and the cache are functions with a growing and shrinking domain. *)

Put(f, x, v) == [y \in DOMAIN f \cup {x} |-> IF y = x THEN v ELSE f[y]]
Drop(f, S)   == [y \in DOMAIN f \ S |-> f[y]]

Ids == 1 .. MaxRows

Row == [date : Dates, time : Times, guests : PartySizes, customer : Nat \ {0}]

-----------------------------------------------------------------------------
(* Requests.                                                               *)

\* IsTimeOrRange.  ValidateIf runs the validators of one field only when the
\* other is absent.  The fields of a range are not validated: its end may be
\* an empty string.
IsTimeOrRange(q) == \/ q.time # None /\ q.range = None
                    \/ q.time = None /\ q.range # None
Accepts(q) == /\ q.range # None \/ IsTimeOrRange(q)
              /\ q.time # None \/ IsTimeOrRange(q)

CreateReqs == [op : {"create"}, name : Names, date : Dates, time : Times, guests : PartySizes]
CancelReqs == [op : {"cancel"}, id : Ids]
UpdateReqs == [op : {"update"}, id : Ids, patch : Patches]
CheckReqs  == [op : {"check"}, query : {q \in AvailQueries : Accepts(q)}]
ListReqs   == [op : {"list"}, query : ListQueries]

ReadReqs == CheckReqs \cup ListReqs
Requests == CreateReqs \cup CancelReqs \cup UpdateReqs \cup ReadReqs

ASSUME RequestAssumption == None \notin Requests

\* The cache keys.  The two prefixes are the patterns scanAndDelete is given.
AvailabilityKey(q) ==
    [pattern |-> "availability",
     of |-> <<q.date,
              IF q.time # None THEN q.time ELSE q.range.start,
              IF q.range # None THEN q.range.end ELSE None,
              q.guests>>]

\* Mutant: the key leaves the pagination out.
ListKey_AnyPage(q) == [pattern |-> "reservations", of |-> <<q.filter, q.sort>>]

ListKey(q) == [pattern |-> "reservations", of |-> <<q.filter, q.pagination, q.sort>>]

KeyOf(r) == IF r.op = "check" THEN AvailabilityKey(r.query) ELSE ListKey(r.query)

Keys == {KeyOf(r) : r \in ReadReqs}
CachedKeys(pattern) == {k \in DOMAIN cache : k.pattern = pattern}

-----------------------------------------------------------------------------
(* What the handlers compute from the tables.                              *)

\* reservationRepo.find({ where: { date } })
OnDate(date) ==
    LET ids == {id \in DOMAIN reservations : reservations[id].date = date}
    IN  [id \in ids |-> reservations[id]]

\* The result of checkAvailability: which of the two pairs of messages, and
\* the slots.  A time wins over a range; an empty end makes the loop's bound
\* NaN, and the loop never runs.
Availability(q) ==
    IF q.time # None
    THEN LET start == convertToMinutes(q.time)
         IN  [asked |-> "time",
              slots |-> IF isSlotAvailable(OnDate(q.date), start,
                                           start + ReservationDuration,
                                           TotalSeats, q.guests)
                        THEN {q.time} ELSE {}]
    ELSE [asked |-> "range",
          slots |-> IF q.range.end = None THEN {}
                    ELSE {slotTime(s, SlotDuration) :
                            s \in findAvailableSlots(OnDate(q.date),
                                    slotOf(convertToMinutes(q.range.start), SlotDuration),
                                    slotOf(convertToMinutes(q.range.end), SlotDuration),
                                    SlotDuration, TotalSeats, q.guests,
                                    ReservationDuration)}]

\* The rows a list query selects: every filter that is given must match.
Matching(q) ==
    {id \in DOMAIN reservations :
        LET row == reservations[id]
        IN  /\ q.filter.customerName \in {None, customers[row.customer]}
            /\ q.filter.date \in {None, row.date}
            /\ q.filter.guests \in {None, row.guests}}

\* The order of the rows: the sort column, then the id (skip and take make
\* TypeORM append the primary key to the order).
SortsBefore(q, i, j) ==
    LET col(id) == IF q.sort.sortBy = "date" THEN reservations[id].date
                                             ELSE reservations[id].guests
        tie     == q.sort.sortBy = None \/ col(i) = col(j)
    IN  IF tie THEN i < j
        ELSE IF q.sort.order = "DESC" THEN col(i) > col(j) ELSE col(i) < col(j)

\* The number of selected rows that come before row i.
Position(q, i) == Cardinality({j \in Matching(q) : SortsBefore(q, j, i)})

\* skip((page - 1) * limit).take(limit)
OnPage(q, position) ==
    LET page  == IF q.pagination.page = None THEN 1 ELSE q.pagination.page
        limit == IF q.pagination.limit = None THEN 10 ELSE q.pagination.limit
    IN  position >= (page - 1) * limit /\ position < page * limit

\* getMany: the rows of one page.
Items(q) ==
    LET ids == {i \in Matching(q) : OnPage(q, Position(q, i))}
    IN  [i \in ids |-> reservations[i]]

TotalItems(q) == Cardinality(Matching(q))

\* What the tables answer at this moment.
Answer(r) ==
    IF r.op = "check" THEN Availability(r.query)
    ELSE [items |-> Items(r.query), totalItems |-> TotalItems(r.query)]

\* createReservation's test, and the alternatives it offers.
Fits(r) ==
    LET start == convertToMinutes(r.time)
    IN  isSlotAvailable(OnDate(r.date), start, start + ReservationDuration,
                        TotalSeats, r.guests)

Suggestions(r) ==
    findNearestAvailableSlots(OnDate(r.date), slotOf(convertToMinutes(r.time), SlotDuration),
                              SlotDuration, TotalSeats, r.guests, ReservationDuration)

\* Mutant: fields that are absent from the input are assigned too.
Merged_Absent(row, patch) ==
    [row EXCEPT !.date = patch.date, !.time = patch.time, !.guests = patch.guests]

\* Object.assign(reservation, data): customerName is not a column of the
\* entity, so a new one is not stored.
Merged(row, patch) ==
    LET given(new, old) == IF new = None THEN old ELSE new
    IN  [date |-> given(patch.date, row.date), time |-> given(patch.time, row.time),
         guests |-> given(patch.guests, row.guests), customer |-> row.customer]

-----------------------------------------------------------------------------
(* Control: where a call starts, goes on and ends.                         *)

FirstCommand == [create |-> "findCustomer", cancel |-> "delete", update |-> "findOne",
                 check |-> "get", list |-> "get"]

ClearCommands == {"scan", "rescan", "del", "delLast"}
Commands == {"findCustomer", "saveCustomer", "findDay", "save", "delete", "findOne",
             "saveEntity", "get", "find", "getMany", "getCount", "set"} \cup ClearCommands

Goto(p, command) == pc' = [pc EXCEPT ![p] = command]

\* The handler returns or throws.
End(p, status) ==
    /\ Goto(p, "idle")
    /\ req'   = [req EXCEPT ![p] = None]
    /\ held'  = [held EXCEPT ![p] = None]
    /\ reply' = [reply EXCEPT ![p] = status]

\* The handler awaits clearReservationCache.
StartClear(p) == Goto(p, "scan") /\ pat' = [pat EXCEPT ![p] = "reservations"]

\* The bound on rows counts the creations in flight, so that it never stops one.
Room == nextId + Cardinality({q \in Proc : pc[q] # "idle" /\ req[q].op = "create"}) <= MaxRows

\* A resolver method: the validated input reaches the service.
Receive(p) ==
    /\ pc[p] = "idle"
    /\ \E r \in Requests :
        /\ r.op \in Ops
        /\ r.op = "create" => Room
        /\ Goto(p, FirstCommand[r.op])
        /\ req'   = [req EXCEPT ![p] = r]
        /\ reply' = [reply EXCEPT ![p] = "none"]
    /\ UNCHANGED <<db, redis, held, sweep>>

-----------------------------------------------------------------------------
(* History.  blame[k] collects the reasons why the entry of k may differ    *)
(* from the tables: the calls that changed a table while it was stored and  *)
(* owe its removal, and "fill", "update" or "fault" where nobody owes it.   *)

Accuse(reason) ==
    blame' = [k \in Keys |-> IF k \in DOMAIN cache THEN blame[k] \cup {reason} ELSE {}]

Removed(K) == [k \in Keys |-> IF k \in K THEN {} ELSE blame[k]]

\* The calls of S will not finish what they owe.
Excused(S) ==
    [k \in Keys |-> IF blame[k] \cap S = {} THEN blame[k]
                                             ELSE (blame[k] \ S) \cup {"fault"}]

-----------------------------------------------------------------------------
(* createReservation.                                                      *)

\* Mutant: the query has no where clause.
CreateFindCustomer_Any(p) ==
    /\ pc[p] = "findCustomer"
    /\ LET found == DOMAIN customers
       IN  \/ /\ found = {} /\ Goto(p, "saveCustomer") /\ UNCHANGED held
           \/ \E c \in found : Goto(p, "findDay") /\ held' = [held EXCEPT ![p] = [customer |-> c]]
    /\ UNCHANGED <<db, redis, req, sweep, reply>>

\* customerRepo.findOne({ where: { name } }): any customer of that name.
CreateFindCustomer(p) ==
    /\ pc[p] = "findCustomer"
    /\ LET found == {c \in DOMAIN customers : customers[c] = req[p].name}
       IN  \/ /\ found = {} /\ Goto(p, "saveCustomer") /\ UNCHANGED held
           \/ \E c \in found : Goto(p, "findDay") /\ held' = [held EXCEPT ![p] = [customer |-> c]]
    /\ UNCHANGED <<db, redis, req, sweep, reply>>

\* Mutant: the new customer is created but not saved.
CreateSaveCustomer_NotSaved(p) ==
    /\ pc[p] = "saveCustomer"
    /\ held' = [held EXCEPT ![p] = [customer |-> Len(customers) + 1]]
    /\ Goto(p, "findDay")
    /\ UNCHANGED <<db, redis, req, sweep, reply>>

CreateSaveCustomer(p) ==
    /\ pc[p] = "saveCustomer"
    /\ customers' = Append(customers, req[p].name)
    /\ held' = [held EXCEPT ![p] = [customer |-> Len(customers) + 1]]
    /\ Goto(p, "findDay")
    /\ UNCHANGED <<reservations, nextId, redis, req, sweep, reply>>

\* The rows of the day are read, and the slot is free.
CreateAdmit(p) ==
    /\ pc[p] = "findDay" /\ Fits(req[p])
    /\ Goto(p, "save")
    /\ UNCHANGED <<db, redis, req, held, sweep, reply>>

\* It is not free: suggest other slots, or refuse when there are none.
CreateRefuse(p) ==
    /\ pc[p] = "findDay" /\ ~Fits(req[p])
    /\ End(p, IF Suggestions(req[p]) # <<>> THEN "suggested" ELSE "unavailable")
    /\ UNCHANGED <<db, redis, sweep>>

CreateSave(p) ==
    /\ pc[p] = "save"
    /\ reservations' = Put(reservations, nextId,
                           [date |-> req[p].date, time |-> req[p].time,
                            guests |-> req[p].guests, customer |-> held[p].customer])
    /\ nextId' = nextId + 1
    /\ Accuse(p)
    /\ StartClear(p)
    /\ UNCHANGED <<customers, cache, req, held, todo, batch, reply>>

-----------------------------------------------------------------------------
(* cancelReservation.  The catch block turns its NotFoundException into the *)
(* same InternalServerErrorException as any other error.                   *)

\* Mutant: a cancellation does not clear the cache.
CancelDelete_NoClear(p) ==
    /\ pc[p] = "delete" /\ req[p].id \in DOMAIN reservations
    /\ reservations' = Drop(reservations, {req[p].id})
    /\ Accuse(p)
    /\ End(p, "ok")
    /\ UNCHANGED <<nextId, customers, cache, sweep>>

CancelDelete(p) ==
    /\ pc[p] = "delete" /\ req[p].id \in DOMAIN reservations
    /\ reservations' = Drop(reservations, {req[p].id})
    /\ Accuse(p)
    /\ StartClear(p)
    /\ UNCHANGED <<nextId, customers, cache, req, held, todo, batch, reply>>

\* Mutant: the number of deleted rows is not looked at.
CancelMissing_Ignored(p) ==
    /\ pc[p] = "delete" /\ req[p].id \notin DOMAIN reservations
    /\ End(p, "ok")
    /\ UNCHANGED <<db, redis, sweep>>

CancelMissing(p) ==
    /\ pc[p] = "delete" /\ req[p].id \notin DOMAIN reservations
    /\ End(p, "failed")
    /\ UNCHANGED <<db, redis, sweep>>

-----------------------------------------------------------------------------
(* updateReservation.  It clears the cache first and saves the entity last. *)

\* Mutant: findOne also finds rows that have been removed.
UpdateFind_Removed(p) ==
    /\ pc[p] = "findOne" /\ req[p].id < nextId
    /\ LET row == IF req[p].id \in DOMAIN reservations THEN reservations[req[p].id]
                  ELSE CHOOSE r \in [date : Dates, time : Times, guests : PartySizes,
                                     customer : {1}] : TRUE
       IN  held' = [held EXCEPT ![p] = Merged(row, req[p].patch)]
    /\ StartClear(p)
    /\ UNCHANGED <<db, redis, req, todo, batch, reply>>

UpdateFind(p) ==
    /\ pc[p] = "findOne" /\ req[p].id \in DOMAIN reservations
    /\ held' = [held EXCEPT ![p] = Merged(reservations[req[p].id], req[p].patch)]
    /\ StartClear(p)
    /\ UNCHANGED <<db, redis, req, todo, batch, reply>>

UpdateMissing(p) ==
    /\ pc[p] = "findOne" /\ req[p].id \notin DOMAIN reservations
    /\ End(p, "notFound")
    /\ UNCHANGED <<db, redis, sweep>>

\* TypeORM's save writes every column of the entity, and inserts the entity
\* under its id when the row is gone.
UpdateSave(p) ==
    /\ pc[p] = "saveEntity"
    /\ reservations' = Put(reservations, req[p].id, held[p])
    /\ Accuse("update")
    /\ End(p, "ok")
    /\ UNCHANGED <<nextId, customers, cache, sweep>>

-----------------------------------------------------------------------------
(* checkAvailability and getReservations.                                  *)

CacheHit(p) ==
    /\ pc[p] = "get" /\ KeyOf(req[p]) \in DOMAIN cache
    /\ End(p, "ok")
    /\ UNCHANGED <<db, redis, sweep>>

CacheMiss(p) ==
    /\ pc[p] = "get" /\ KeyOf(req[p]) \notin DOMAIN cache
    /\ Goto(p, IF req[p].op = "check" THEN "find" ELSE "getMany")
    /\ UNCHANGED <<db, redis, req, held, sweep, reply>>

CheckFind(p) ==
    /\ pc[p] = "find"
    /\ held' = [held EXCEPT ![p] = Availability(req[p].query)]
    /\ Goto(p, "set")
    /\ UNCHANGED <<db, redis, req, sweep, reply>>

ListGetMany(p) ==
    /\ pc[p] = "getMany"
    /\ held' = [held EXCEPT ![p] = [items |-> Items(req[p].query), totalItems |-> None]]
    /\ Goto(p, "getCount")
    /\ UNCHANGED <<db, redis, req, sweep, reply>>

\* The count is a second query: a write may have come in between.
ListGetCount(p) ==
    /\ pc[p] = "getCount"
    /\ held' = [held EXCEPT ![p] = [items |-> held[p].items,
                                     totalItems |-> TotalItems(req[p].query)]]
    /\ Goto(p, "set")
    /\ UNCHANGED <<db, redis, req, sweep, reply>>

\* SET key value EX 300, then return the result.
CacheSet(p) ==
    LET k == KeyOf(req[p])
    IN  /\ pc[p] = "set"
        /\ cache' = Put(cache, k, held[p])
        /\ blame' = [blame EXCEPT ![k] = IF held[p] = Answer(req[p]) THEN {} ELSE {"fill"}]
        /\ End(p, "ok")
        /\ UNCHANGED <<db, sweep>>

-----------------------------------------------------------------------------
(* clearReservationCache: scanAndDelete('reservations:*'), then             *)
(* scanAndDelete('availability:*').  A SCAN iteration returns, over its      *)
(* pages, every key that is present from its first call to its last; it may  *)
(* or may not return the others.                                            *)

MustReturn(p) == IF pc[p] = "scan" THEN CachedKeys(pat[p]) ELSE todo[p]

\* The pattern is done: on to the next one, or back to the caller.
AfterPattern(p) ==
    \/ /\ pat[p] = "reservations"
       /\ pat' = [pat EXCEPT ![p] = "availability"]
       /\ Goto(p, "scan")
       /\ UNCHANGED <<req, held, reply>>
    \/ /\ pat[p] = "availability"
       /\ pat' = [pat EXCEPT ![p] = None]
       /\ \/ /\ req[p].op = "update"
             /\ Goto(p, "saveEntity")
             /\ UNCHANGED <<req, held, reply>>
          \/ req[p].op # "update" /\ End(p, "ok")

\* A page with keys.  The last one comes with cursor 0.  An empty page that
\* is not the last changes nothing.
ScanPage(p, page, last) ==
    /\ pc[p] \in {"scan", "rescan"} /\ page # {}
    /\ last => MustReturn(p) \subseteq page
    /\ batch' = [batch EXCEPT ![p] = page]
    /\ todo'  = [todo EXCEPT ![p] = MustReturn(p) \ page]
    /\ Goto(p, IF last THEN "delLast" ELSE "del")
    /\ UNCHANGED <<db, redis, req, held, pat, reply>>

ScanNothing(p) ==
    /\ pc[p] \in {"scan", "rescan"} /\ MustReturn(p) = {}
    /\ AfterPattern(p)
    /\ UNCHANGED <<db, redis, todo, batch>>

\* Mutant: the loop's test never recognises the final cursor.
ScanEnd_Never(p) == FALSE

ScanEnd(p) ==
    \/ \E page \in SUBSET CachedKeys(pat[p]) : ScanPage(p, page, TRUE)
    \/ ScanNothing(p)

Scan(p) ==
    \/ \E page \in SUBSET CachedKeys(pat[p]) : ScanPage(p, page, FALSE)
    \/ ScanEnd(p)

\* Keys that leave the cache need not be returned by any SCAN in progress.
Remove(K) ==
    /\ cache' = Drop(cache, K)
    /\ blame' = Removed(K)
    /\ todo'  = [q \in Proc |-> todo[q] \ K]

Del(p) ==
    /\ Remove(batch[p])
    /\ batch' = [batch EXCEPT ![p] = {}]
    /\ \/ pc[p] = "del" /\ Goto(p, "rescan") /\ UNCHANGED <<req, held, pat, reply>>
       \/ pc[p] = "delLast" /\ AfterPattern(p)
    /\ UNCHANGED db

-----------------------------------------------------------------------------
(* The environment.                                                        *)

\* Mutant: entries are stored without a time to live.
Expire_Never(k) == FALSE

\* The time to live of an entry runs out.
Expire(k) ==
    /\ k \in DOMAIN cache
    /\ Remove({k})
    /\ UNCHANGED <<db, pc, req, held, pat, batch, reply>>

Forget(S) ==
    /\ pat'   = [q \in Proc |-> IF q \in S THEN None ELSE pat[q]]
    /\ todo'  = [q \in Proc |-> IF q \in S THEN {} ELSE todo[q]]
    /\ batch' = [q \in Proc |-> IF q \in S THEN {} ELSE batch[q]]
    /\ blame' = Excused(S)

\* The command that p waits for rejects: every handler's catch block ends in
\* an error reply, whatever was written before.
Fail(p) ==
    /\ Faults /\ pc[p] # "idle"
    /\ End(p, "failed")
    /\ Forget({p})
    /\ UNCHANGED <<db, cache>>

\* The server stops and starts again: calls in flight are gone, the database
\* and Redis keep what they have.
Crash ==
    /\ Faults /\ \E p \in Proc : pc[p] # "idle"
    /\ pc'    = [p \in Proc |-> "idle"]
    /\ req'   = [p \in Proc |-> None]
    /\ held'  = [p \in Proc |-> None]
    /\ reply' = [p \in Proc |-> "none"]
    /\ Forget(Proc)
    /\ UNCHANGED <<db, cache>>

-----------------------------------------------------------------------------
Create(p) == \/ CreateFindCustomer(p) \/ CreateSaveCustomer(p) \/ CreateAdmit(p)
             \/ CreateRefuse(p) \/ CreateSave(p)
Cancel(p) == CancelDelete(p) \/ CancelMissing(p)
Update(p) == UpdateFind(p) \/ UpdateMissing(p) \/ UpdateSave(p)
Read(p)   == \/ CacheHit(p) \/ CacheMiss(p) \/ CheckFind(p) \/ ListGetMany(p)
             \/ ListGetCount(p) \/ CacheSet(p)
Clear(p)  == Scan(p) \/ Del(p)

\* What a call in flight does.
Step(p) == Create(p) \/ Cancel(p) \/ Update(p) \/ Read(p) \/ Clear(p)

Init ==
    /\ reservations = <<>> /\ nextId = 1 /\ customers = <<>>
    /\ cache = <<>> /\ blame = [k \in Keys |-> {}]
    /\ pc = [p \in Proc |-> "idle"] /\ reply = [p \in Proc |-> "none"]
    /\ req = [p \in Proc |-> None] /\ held = [p \in Proc |-> None]
    /\ pat = [p \in Proc |-> None]
    /\ todo = [p \in Proc |-> {}] /\ batch = [p \in Proc |-> {}]

Next ==
    \/ \E p \in Proc : Receive(p) \/ Step(p) \/ Fail(p)
    \/ \E k \in Keys : Expire(k)
    \/ Crash

Spec == Init /\ [][Next]_vars

\* Every command is answered, and a handler that has its answer runs on.  A
\* SCAN iteration ends after finitely many calls.  Redis drops what expires.
FairSpec ==
    /\ Spec
    /\ \A p \in Proc : WF_vars(Step(p)) /\ SF_vars(ScanEnd(p))
    /\ \A k \in Keys : WF_vars(Expire(k))

-----------------------------------------------------------------------------
(* Properties.                                                             *)

Statuses == {"none", "ok", "suggested", "unavailable", "notFound", "failed"}

\* The type invariant of the tables, the cache and the calls' local state.
TypeOK ==
    /\ nextId \in Nat \ {0}
    /\ customers \in Seq(Names)
    /\ DOMAIN reservations \subseteq Nat
    /\ \A id \in DOMAIN reservations : reservations[id] \in Row
    /\ DOMAIN cache \subseteq Keys
    /\ blame \in [Keys -> SUBSET (Proc \cup {"fill", "update", "fault"})]
    /\ pc \in [Proc -> Commands \cup {"idle"}]
    /\ \A p \in Proc : IF pc[p] = "idle" THEN req[p] = None ELSE req[p] \in Requests
    /\ pat \in [Proc -> {"reservations", "availability", None}]
    /\ todo \in [Proc -> SUBSET Keys] /\ batch \in [Proc -> SUBSET Keys]
    /\ reply \in [Proc -> Statuses]

\* The tables never refer to what is not there: a row's id was drawn from the
\* sequence, and its customer exists.  createReservation saves the customer in
\* a command of its own before the row that refers to it.
ReferencesResolve ==
    \A id \in DOMAIN reservations :
        id < nextId /\ reservations[id].customer \in DOMAIN customers

\* The seats booked for one start time.
Booked(d, t) ==
    SeatsOf(reservations, {id \in DOMAIN reservations :
                             reservations[id].date = d /\ reservations[id].time = t})

\* createReservation tests the capacity in one command and saves in another,
\* so calls admitted by the same test overbook; but never beyond what each
\* call in flight could have been granted alone.  (With one call at a time:
\* never beyond TotalSeats.)  updateReservation tests no
\* capacity: where it is used, the bound does not hold.
OverbookingBound ==
    \A d \in Dates, t \in Times :
        Cardinality(Booked(d, t)) <= Cardinality(Proc) * TotalSeats

\* The entry of k is an answer the tables give now to a query with that key.
Fresh(k) == \E r \in ReadReqs : KeyOf(r) = k /\ cache[k] = Answer(r)

\* A cached answer that no longer matches the tables is accounted for: a
\* createReservation or cancelReservation that has committed is still in
\* clearReservationCache, or a reader stored an answer older than a write, or
\* updateReservation saved after it cleared, or a call failed half way.  So a
\* creation or a cancellation that ends well leaves no stale entry of its own.
StaleExplained ==
    \A k \in DOMAIN cache :
        \/ Fresh(k)
        \/ blame[k] \cap {"fill", "update", "fault"} # {}
        \/ \E p \in Proc : p \in blame[k] /\ pc[p] \in ClearCommands

\* The update that p runs has read its row and has yet to save it.
Updating(p) == pc[p] = "saveEntity" \/ (pc[p] \in ClearCommands /\ req[p].op = "update")

Gone(id) ==
    /\ id \notin DOMAIN reservations
    /\ \A p \in Proc : Updating(p) => req[p].id # id

\* A reservation that is cancelled, and that no update holds a copy of, stays
\* cancelled: neither a new reservation nor an update that starts later brings
\* its id back, and no call can get hold of its row again.  An update that has
\* read the row before the cancellation does bring it back: TypeORM's save
\* inserts the entity when its row is gone.
CancelIsFinal == [][\A id \in 1 .. nextId - 1 : Gone(id) => Gone(id)']_vars

\* A read that ends well, and the answer it returns.
Served(p) == /\ pc[p] \in {"get", "set"} /\ pc'[p] = "idle" /\ reply'[p] = "ok"
Result(p) == IF pc[p] = "get" THEN cache[KeyOf(req[p])] ELSE held[p]

\* What checkAvailability and getReservations return is what the tables say at
\* that moment: one client at a time, whatever it does, sees no stale data.
ReadsAreCurrent == [][\A p \in Proc : Served(p) => Result(p) = Answer(req[p])]_vars

\* Every call is answered, also when other calls keep filling the cache that
\* it is clearing.
EveryCallEnds == \A p \in Proc : pc[p] # "idle" ~> pc[p] = "idle"

\* Once the writes are over, the cache goes back to agreeing with the tables
\* for good, whatever races and failures there were: the time to live bounds
\* all of them.
EventuallyFresh ==
    <>[](\A p \in Proc : pc[p] # "idle" => req[p].op \in {"check", "list"})
      => <>[](\A k \in DOMAIN cache : Fresh(k))

-----------------------------------------------------------------------------
(* What the repository says of the service and the code does not do; run   *)
(* overlap shows how it fails.                                             *)

\* The seats in use at one minute: those of the reservations that have started
\* and not ended.
InUse(d, minute) ==
    SeatsOf(reservations, {id \in DOMAIN reservations :
        /\ reservations[id].date = d
        /\ convertToMinutes(reservations[id].time) <= minute
        /\ minute < convertToMinutes(reservations[id].time) + ReservationDuration})

\* A reservation takes its seats for its whole duration ("how many slots a
\* reservation takes"), so with one call at a time no more seats are in use at
\* any start time than there are.  isSlotAvailable does not count what started
\* before the requested time.
SeatsSuffice ==
    \A d \in Dates, t \in Times : Cardinality(InUse(d, convertToMinutes(t))) <= TotalSeats
=============================================================================
