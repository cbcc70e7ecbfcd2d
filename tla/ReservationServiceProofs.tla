----------------------- MODULE ReservationServiceProofs -----------------------
(***************************************************************************)
(* Theorems about ReservationService, for every set of concurrent calls,   *)
(* every input set and every configuration.                                *)
(***************************************************************************)
EXTENDS ReservationService, ReservationUtilsProofs, SequenceTheorems

-----------------------------------------------------------------------------
(* Type correctness and references.                                        *)

WriteReqs == CreateReqs \cup CancelReqs \cup UpdateReqs

\* What the local state of a call holds at each command.
CallOK(p) ==
    /\ pc[p] = "idle" => req[p] = None
    /\ pc[p] \in {"findCustomer", "saveCustomer", "findDay", "save"} => req[p] \in CreateReqs
    /\ pc[p] = "delete" => req[p] \in CancelReqs
    /\ pc[p] \in {"findOne", "saveEntity"} => req[p] \in UpdateReqs
    /\ pc[p] \in {"get", "set"} => req[p] \in ReadReqs
    /\ pc[p] = "find" => req[p] \in CheckReqs
    /\ pc[p] \in {"getMany", "getCount"} => req[p] \in ListReqs
    /\ pc[p] \in ClearCommands => /\ req[p] \in WriteReqs
                                  /\ pat[p] \in {"reservations", "availability"}
    /\ pc[p] \in {"findDay", "save"} => held[p].customer \in 1 .. Len(customers)
    /\ Updating(p) => /\ held[p] \in Row /\ held[p].customer \in 1 .. Len(customers)
                      /\ req[p].id < nextId

TablesOK ==
    /\ nextId \in Nat \ {0}
    /\ customers \in Seq(Names)
    /\ DOMAIN reservations \subseteq 1 .. nextId - 1
    /\ \A id \in DOMAIN reservations :
         reservations[id] \in Row /\ reservations[id].customer \in 1 .. Len(customers)

CacheOK ==
    /\ DOMAIN cache \subseteq Keys
    /\ blame \in [Keys -> SUBSET (Proc \cup {"fill", "update", "fault"})]

LocalsOK ==
    /\ pc \in [Proc -> Commands \cup {"idle"}]
    /\ DOMAIN req = Proc /\ DOMAIN held = Proc
    /\ pat \in [Proc -> {"reservations", "availability", None}]
    /\ todo \in [Proc -> SUBSET Keys] /\ batch \in [Proc -> SUBSET Keys]
    /\ reply \in [Proc -> Statuses]

\* The inductive invariant behind TypeOK and ReferencesResolve.
WellFormed == TablesOK /\ CacheOK /\ LocalsOK /\ \A p \in Proc : CallOK(p)

\* What a request of each operation carries.
LEMMA RequestKinds ==
    /\ \A r \in CreateReqs : /\ r.op = "create" /\ r.name \in Names /\ r.date \in Dates
                             /\ r.time \in Times /\ r.guests \in PartySizes
    /\ \A r \in CancelReqs : r.op = "cancel" /\ r.id \in Ids
    /\ \A r \in UpdateReqs : r.op = "update" /\ r.id \in Ids /\ r.patch \in Patches
    /\ \A r \in CheckReqs  : r.op = "check"
    /\ \A r \in ListReqs   : r.op = "list"
BY DEF CreateReqs, CancelReqs, UpdateReqs, CheckReqs, ListReqs

\* What a step of p must do for the other calls to stay well formed: leave
\* their local state alone, and neither shrink the customer table nor take
\* back an id.
LEMMA OthersStayOK ==
    ASSUME WellFormed, NEW p \in Proc, NEW q \in Proc, q # p,
           pc'[q] = pc[q], req'[q] = req[q], held'[q] = held[q], pat'[q] = pat[q],
           Len(customers) <= Len(customers'), Len(customers') \in Nat,
           nextId <= nextId', nextId' \in Nat
    PROVE  CallOK(q)'
<1>1. CallOK(q) /\ nextId \in Nat /\ Len(customers) \in Nat
  BY LenProperties DEF WellFormed, TablesOK
<1>2. Updating(q)' <=> Updating(q)
  BY DEF Updating
<1>3. \A n : n \in 1 .. Len(customers) => n \in 1 .. Len(customers')
  BY <1>1
<1>4. Updating(q) => req[q].id < nextId'
  <2>1. Updating(q) => req[q].id \in Nat
    BY <1>1, RequestKinds, ConfigAssumption DEF CallOK, Updating, WriteReqs, Ids
  <2> QED  BY <2>1, <1>1 DEF CallOK
<1> QED  BY <1>1, <1>2, <1>3, <1>4 DEF CallOK

\* The step of p touches no other call's local state, and the tables only grow
\* where calls refer to them.
Frame(p) ==
    /\ \A q \in Proc \ {p} : /\ pc'[q] = pc[q] /\ req'[q] = req[q]
                             /\ held'[q] = held[q] /\ pat'[q] = pat[q]
    /\ Len(customers) <= Len(customers')
    /\ nextId <= nextId'

\* A step of p has to be checked for p and the shared state only.
LEMMA StepOfOne ==
    ASSUME WellFormed, NEW p \in Proc, Frame(p),
           TablesOK', CacheOK', LocalsOK', CallOK(p)'
    PROVE  WellFormed'
<1>1. Len(customers') \in Nat /\ nextId' \in Nat
  BY LenProperties DEF TablesOK
<1>2. ASSUME NEW q \in Proc PROVE CallOK(q)'
  BY <1>1, OthersStayOK, q \in Proc \ {p} \/ q = p DEF Frame
<1> QED  BY <1>2 DEF WellFormed

\* Most steps change neither the tables nor the cache.
LEMMA LocalStep ==
    ASSUME WellFormed, UNCHANGED <<db, redis>>
    PROVE  /\ TablesOK' /\ CacheOK'
           /\ Len(customers) <= Len(customers') /\ nextId <= nextId'
<1>1. Len(customers) \in Nat
  BY LenProperties DEF WellFormed, TablesOK
<1> QED  BY <1>1 DEF WellFormed, TablesOK, CacheOK, db, redis

\* A call that ends has nothing left to be right about.
LEMMA EndOK ==
    ASSUME WellFormed, NEW p \in Proc, NEW status \in Statuses, End(p, status)
    PROVE  /\ CallOK(p)'
           /\ DOMAIN req' = Proc /\ DOMAIN held' = Proc
           /\ pc' \in [Proc -> Commands \cup {"idle"}] /\ reply' \in [Proc -> Statuses]
           /\ \A q \in Proc \ {p} : pc'[q] = pc[q] /\ req'[q] = req[q] /\ held'[q] = held[q]
BY DEF End, Goto, WellFormed, LocalsOK, CallOK, Updating, ClearCommands

\* A call that ends without writing anything.
LEMMA QuietEnd ==
    ASSUME WellFormed, NEW p \in Proc, NEW status \in Statuses, End(p, status),
           UNCHANGED <<db, redis, sweep>>
    PROVE  WellFormed'
<1>1. TablesOK' /\ CacheOK' /\ Len(customers) <= Len(customers') /\ nextId <= nextId'
  BY LocalStep
<1>2. LocalsOK' /\ CallOK(p)' /\ Frame(p)
  BY <1>1, EndOK DEF WellFormed, LocalsOK, Frame, sweep
<1> QED  BY <1>1, <1>2, StepOfOne

\* A new call starts with the request its first command expects.
LEMMA ReceiveOK == ASSUME WellFormed, NEW p \in Proc, Receive(p) PROVE WellFormed'
<1>1. PICK r \in Requests :
        /\ r.op \in Ops
        /\ Goto(p, FirstCommand[r.op])
        /\ req'   = [req EXCEPT ![p] = r]
        /\ reply' = [reply EXCEPT ![p] = "none"]
  BY DEF Receive
<1>2. TablesOK' /\ CacheOK' /\ Len(customers) <= Len(customers') /\ nextId <= nextId'
  BY LocalStep DEF Receive
<1>3. pc' = [pc EXCEPT ![p] = FirstCommand[r.op]] /\ UNCHANGED <<held, pat, todo, batch>>
  BY <1>1 DEF Receive, Goto, sweep
<1>4. \/ r \in CreateReqs /\ FirstCommand[r.op] = "findCustomer"
      \/ r \in CancelReqs /\ FirstCommand[r.op] = "delete"
      \/ r \in UpdateReqs /\ FirstCommand[r.op] = "findOne"
      \/ r \in ReadReqs /\ FirstCommand[r.op] = "get"
  BY RequestKinds DEF Requests, ReadReqs, FirstCommand
<1>5. LocalsOK'
  BY <1>1, <1>3, <1>4 DEF WellFormed, LocalsOK, Commands, Statuses
<1>6. CallOK(p)'
  BY <1>1, <1>3, <1>4 DEF WellFormed, LocalsOK, CallOK, Updating, ClearCommands
<1>7. Frame(p)
  BY <1>1, <1>2, <1>3 DEF Frame, WellFormed, LocalsOK
<1> QED  BY <1>2, <1>5, <1>6, <1>7, StepOfOne

\* createReservation stores a customer before the row that refers to it.
LEMMA CreateOK == ASSUME WellFormed, NEW p \in Proc, Create(p) PROVE WellFormed'
<1> USE DEF WellFormed
<1>1. CASE CreateFindCustomer(p)
  <2>1. /\ TablesOK' /\ CacheOK' /\ Len(customers) <= Len(customers') /\ nextId <= nextId'
        /\ UNCHANGED <<req, sweep, reply, customers>> /\ pc[p] = "findCustomer"
    BY <1>1, LocalStep DEF CreateFindCustomer, db
  <2>2. \/ Goto(p, "saveCustomer") /\ UNCHANGED held
        \/ \E c \in DOMAIN customers : Goto(p, "findDay") /\ held' = [held EXCEPT ![p] = [customer |-> c]]
    BY <1>1 DEF CreateFindCustomer
  <2>3. \A c \in DOMAIN customers : c \in 1 .. Len(customers)
    BY LenProperties DEF TablesOK
  <2>4. LocalsOK'
    BY <2>1, <2>2 DEF LocalsOK, Goto, Commands, sweep
  <2>5. CallOK(p)'
    BY <2>1, <2>2, <2>3 DEF CallOK, LocalsOK, Goto, Updating, ClearCommands
  <2>6. Frame(p)
    BY <2>1, <2>2 DEF Frame, LocalsOK, Goto, sweep
  <2> QED  BY <2>1, <2>4, <2>5, <2>6, StepOfOne
<1>2. CASE CreateSaveCustomer(p)
  <2>1. /\ pc[p] = "saveCustomer" /\ customers' = Append(customers, req[p].name)
        /\ held' = [held EXCEPT ![p] = [customer |-> Len(customers) + 1]]
        /\ pc' = [pc EXCEPT ![p] = "findDay"]
        /\ UNCHANGED <<reservations, nextId, cache, blame, req, pat, todo, batch, reply>>
    BY <1>2 DEF CreateSaveCustomer, Goto, redis, sweep
  <2>2. req[p] \in CreateReqs /\ req[p].name \in Names
    BY <2>1, RequestKinds DEF CallOK
  <2>3. Len(customers) \in Nat /\ customers' \in Seq(Names) /\ Len(customers') = Len(customers) + 1
    BY <2>1, <2>2, LenProperties, AppendProperties DEF TablesOK
  <2>4. TablesOK' /\ CacheOK'
    BY <2>1, <2>3 DEF TablesOK, CacheOK
  <2>5. LocalsOK'
    BY <2>1 DEF LocalsOK, Commands
  <2>6. CallOK(p)'
    BY <2>1, <2>2, <2>3 DEF CallOK, LocalsOK, Updating, ClearCommands
  <2>7. Frame(p)
    BY <2>1, <2>3 DEF Frame, LocalsOK, TablesOK
  <2> QED  BY <2>4, <2>5, <2>6, <2>7, StepOfOne
<1>3. CASE CreateAdmit(p)
  <2>1. /\ TablesOK' /\ CacheOK' /\ Len(customers) <= Len(customers') /\ nextId <= nextId'
        /\ UNCHANGED <<req, held, pat, todo, batch, reply, customers>>
        /\ pc[p] = "findDay" /\ pc' = [pc EXCEPT ![p] = "save"]
    BY <1>3, LocalStep DEF CreateAdmit, db, sweep, Goto
  <2>2. LocalsOK'
    BY <2>1 DEF LocalsOK, Commands
  <2>3. CallOK(p)' /\ Frame(p)
    BY <2>1 DEF CallOK, LocalsOK, Updating, ClearCommands, Frame
  <2> QED  BY <2>1, <2>2, <2>3, StepOfOne
<1>4. CASE CreateRefuse(p)
  BY <1>4, QuietEnd DEF CreateRefuse, Statuses
<1>5. CASE CreateSave(p)
  <2> DEFINE row == [date |-> req[p].date, time |-> req[p].time,
                     guests |-> req[p].guests, customer |-> held[p].customer]
  <2>1. /\ pc[p] = "save" /\ reservations' = Put(reservations, nextId, row)
        /\ nextId' = nextId + 1 /\ Accuse(p)
        /\ pc' = [pc EXCEPT ![p] = "scan"] /\ pat' = [pat EXCEPT ![p] = "reservations"]
        /\ UNCHANGED <<customers, cache, req, held, todo, batch, reply>>
    BY <1>5 DEF CreateSave, StartClear, Goto
  <2>2. req[p] \in CreateReqs /\ held[p].customer \in 1 .. Len(customers)
    BY <2>1 DEF CallOK
  <2>3. Len(customers) \in Nat
    BY LenProperties DEF TablesOK
  <2>4. row \in Row /\ row.customer \in 1 .. Len(customers)
    BY <2>2, <2>3, RequestKinds DEF Row
  <2>5. TablesOK'
    <3> HIDE DEF row
    <3>1. DOMAIN reservations' = DOMAIN reservations \cup {nextId}
      BY <2>1 DEF Put
    <3>2. \A id \in DOMAIN reservations' :
            reservations'[id] = IF id = nextId THEN row ELSE reservations[id]
      BY <2>1 DEF Put
    <3> QED  BY <2>1, <2>3, <2>4, <3>1, <3>2 DEF TablesOK
  <2>6. CacheOK'
    BY <2>1 DEF CacheOK, Accuse
  <2>7. LocalsOK'
    BY <2>1 DEF LocalsOK, Commands, ClearCommands
  <2>8. CallOK(p)'
    BY <2>1, <2>2, RequestKinds DEF CallOK, LocalsOK, Updating, ClearCommands, WriteReqs
  <2>9. Frame(p)
    BY <2>1, <2>3 DEF Frame, LocalsOK, TablesOK
  <2> QED  BY <2>5, <2>6, <2>7, <2>8, <2>9, StepOfOne
<1> QED  BY <1>1, <1>2, <1>3, <1>4, <1>5 DEF Create

\* cancelReservation only takes rows away.
LEMMA CancelOK == ASSUME WellFormed, NEW p \in Proc, Cancel(p) PROVE WellFormed'
<1> USE DEF WellFormed
<1>1. CASE CancelDelete(p)
  <2>1. /\ pc[p] = "delete" /\ reservations' = Drop(reservations, {req[p].id}) /\ Accuse(p)
        /\ pc' = [pc EXCEPT ![p] = "scan"] /\ pat' = [pat EXCEPT ![p] = "reservations"]
        /\ UNCHANGED <<nextId, customers, cache, req, held, todo, batch, reply>>
    BY <1>1 DEF CancelDelete, StartClear, Goto
  <2>2. Len(customers) \in Nat
    BY LenProperties DEF TablesOK
  <2>3. TablesOK' /\ CacheOK'
    BY <2>1 DEF TablesOK, CacheOK, Drop, Accuse
  <2>4. LocalsOK'
    BY <2>1 DEF LocalsOK, Commands, ClearCommands
  <2>5. CallOK(p)'
    BY <2>1, RequestKinds DEF CallOK, LocalsOK, Updating, ClearCommands, WriteReqs
  <2>6. Frame(p)
    BY <2>1, <2>2 DEF Frame, LocalsOK, TablesOK
  <2> QED  BY <2>3, <2>4, <2>5, <2>6, StepOfOne
<1>2. CASE CancelMissing(p)
  BY <1>2, QuietEnd DEF CancelMissing, Statuses
<1> QED  BY <1>1, <1>2 DEF Cancel

\* Object.assign keeps a row a row, and its customer.
LEMMA MergedRow ==
    ASSUME NEW row \in Row, NEW patch \in Patches
    PROVE  Merged(row, patch) \in Row /\ Merged(row, patch).customer = row.customer
BY PatchAssumption DEF Row, Merged

\* updateReservation writes back a row it has read, merged with valid values.
LEMMA UpdateOK == ASSUME WellFormed, NEW p \in Proc, Update(p) PROVE WellFormed'
<1> USE DEF WellFormed
<1>1. CASE UpdateFind(p)
  <2> DEFINE entity == Merged(reservations[req[p].id], req[p].patch)
  <2>1. /\ pc[p] = "findOne" /\ req[p].id \in DOMAIN reservations
        /\ held' = [held EXCEPT ![p] = entity]
        /\ pc' = [pc EXCEPT ![p] = "scan"] /\ pat' = [pat EXCEPT ![p] = "reservations"]
        /\ UNCHANGED <<db, redis, req, todo, batch, reply>>
    BY <1>1 DEF UpdateFind, StartClear, Goto
  <2>2. /\ TablesOK' /\ CacheOK' /\ Len(customers) <= Len(customers') /\ nextId <= nextId'
    BY <2>1, LocalStep
  <2>3. req[p] \in UpdateReqs /\ req[p].patch \in Patches
    BY <2>1, RequestKinds DEF CallOK
  <2>4. entity \in Row /\ entity.customer \in 1 .. Len(customers) /\ req[p].id < nextId
    BY <2>1, <2>3, MergedRow DEF TablesOK
  <2>5. LocalsOK'
    BY <2>1 DEF LocalsOK, Commands, ClearCommands
  <2>6. CallOK(p)'
    <3> HIDE DEF entity
    <3> QED  BY <2>1, <2>3, <2>4 DEF CallOK, LocalsOK, Updating, ClearCommands, WriteReqs, db
  <2>7. Frame(p)
    BY <2>1, <2>2 DEF Frame, LocalsOK
  <2> QED  BY <2>2, <2>5, <2>6, <2>7, StepOfOne
<1>2. CASE UpdateMissing(p)
  BY <1>2, QuietEnd DEF UpdateMissing, Statuses
<1>3. CASE UpdateSave(p)
  <2>1. /\ pc[p] = "saveEntity" /\ reservations' = Put(reservations, req[p].id, held[p])
        /\ Accuse("update") /\ End(p, "ok")
        /\ UNCHANGED <<nextId, customers, cache, pat, todo, batch>>
    BY <1>3 DEF UpdateSave, sweep
  <2>2. /\ req[p].id \in 1 .. nextId - 1
        /\ held[p] \in Row /\ held[p].customer \in 1 .. Len(customers)
    BY <2>1, RequestKinds, ConfigAssumption DEF CallOK, Updating, Ids, TablesOK
  <2>3. TablesOK'
    BY <2>1, <2>2 DEF TablesOK, Put
  <2>4. CacheOK'
    BY <2>1 DEF CacheOK, Accuse
  <2>5. Len(customers) \in Nat
    BY LenProperties DEF TablesOK
  <2>6. LocalsOK' /\ CallOK(p)' /\ Frame(p)
    BY <2>1, <2>5, EndOK DEF LocalsOK, Frame, TablesOK, Statuses
  <2> QED  BY <2>3, <2>4, <2>6, StepOfOne
<1> QED  BY <1>1, <1>2, <1>3 DEF Update

\* A step that only takes p from one command of a read to the next.
LEMMA ReadStep ==
    ASSUME WellFormed, NEW p \in Proc, NEW command, UNCHANGED <<db, redis, req, sweep, reply>>,
           pc' = [pc EXCEPT ![p] = command],
           DOMAIN held' = Proc, \A q \in Proc \ {p} : held'[q] = held[q],
           \/ command = "set" /\ req[p] \in ReadReqs
           \/ command = "find" /\ req[p] \in CheckReqs
           \/ command \in {"getMany", "getCount"} /\ req[p] \in ListReqs
    PROVE  WellFormed'
<1> USE DEF WellFormed
<1>1. TablesOK' /\ CacheOK' /\ Len(customers) <= Len(customers') /\ nextId <= nextId'
  BY LocalStep
<1>2. LocalsOK'
  BY DEF LocalsOK, Commands, sweep
<1>3. CallOK(p)'
  BY DEF CallOK, LocalsOK, Updating, ClearCommands, sweep
<1>4. Frame(p)
  BY <1>1 DEF Frame, LocalsOK, sweep
<1> QED  BY <1>1, <1>2, <1>3, <1>4, StepOfOne

\* Every read has a cache key.
LEMMA KeyOfRead == \A r \in ReadReqs : KeyOf(r) \in Keys
BY DEF Keys

\* The reads change the cache and their own local state.
LEMMA ReadOK == ASSUME WellFormed, NEW p \in Proc, Read(p) PROVE WellFormed'
<1> USE DEF WellFormed
<1>1. CASE CacheHit(p)
  BY <1>1, QuietEnd DEF CacheHit, Statuses
<1>2. CASE CacheMiss(p)
  <2>1. req[p] \in ReadReqs
    BY <1>2 DEF CacheMiss, CallOK
  <2>2. UNCHANGED held
    BY <1>2 DEF CacheMiss
  <2> QED  BY <1>2, <2>1, <2>2, RequestKinds, ReadStep DEF CacheMiss, Goto, ReadReqs, LocalsOK
<1>3. CASE CheckFind(p)
  <2>1. req[p] \in ReadReqs
    BY <1>3 DEF CheckFind, CallOK, ReadReqs
  <2> QED  BY <1>3, <2>1, ReadStep DEF CheckFind, Goto, LocalsOK
<1>4. CASE ListGetMany(p)
  <2>1. req[p] \in ListReqs
    BY <1>4 DEF ListGetMany, CallOK
  <2> QED  BY <1>4, <2>1, ReadStep DEF ListGetMany, Goto, LocalsOK
<1>5. CASE ListGetCount(p)
  <2>1. req[p] \in ReadReqs
    BY <1>5 DEF ListGetCount, CallOK, ReadReqs
  <2> QED  BY <1>5, <2>1, ReadStep DEF ListGetCount, Goto, LocalsOK
<1>6. CASE CacheSet(p)
  <2> DEFINE k == KeyOf(req[p])
  <2>1. /\ pc[p] = "set" /\ cache' = Put(cache, k, held[p])
        /\ \E S \in SUBSET {"fill"} : blame' = [blame EXCEPT ![k] = S]
        /\ End(p, "ok") /\ UNCHANGED <<reservations, nextId, customers, pat, todo, batch>>
    BY <1>6 DEF CacheSet, db, sweep
  <2>2. k \in Keys
    BY <2>1, KeyOfRead DEF CallOK
  <2>3. CacheOK'
    <3> HIDE DEF k
    <3> QED  BY <2>1, <2>2 DEF CacheOK, Put
  <2>4. TablesOK' /\ Len(customers) \in Nat
    BY <2>1, LenProperties DEF TablesOK
  <2>5. LocalsOK' /\ CallOK(p)' /\ Frame(p)
    BY <2>1, <2>4, EndOK DEF LocalsOK, Frame, TablesOK, Statuses
  <2> QED  BY <2>3, <2>4, <2>5, StepOfOne
<1> QED  BY <1>1, <1>2, <1>3, <1>4, <1>5, <1>6 DEF Read

\* After a pattern the call goes on to the next one, to its save, or ends.
LEMMA AfterPatternOK ==
    ASSUME WellFormed, NEW p \in Proc, pc[p] \in ClearCommands, AfterPattern(p),
           UNCHANGED <<customers, nextId>>,
           todo' \in [Proc -> SUBSET Keys], batch' \in [Proc -> SUBSET Keys]
    PROVE  LocalsOK' /\ CallOK(p)' /\ Frame(p)
<1> USE DEF WellFormed
<1>1. Len(customers) \in Nat /\ nextId \in Nat
  BY LenProperties DEF TablesOK
<1>2. CASE UNCHANGED <<req, held, reply>> /\ Goto(p, "scan")
             /\ pat' = [pat EXCEPT ![p] = "availability"]
  <2>1. LocalsOK'
    BY <1>2 DEF LocalsOK, Goto, Commands, ClearCommands
  <2>2. CallOK(p)' /\ Frame(p)
    BY <1>1, <1>2 DEF LocalsOK, CallOK, Frame, Goto, Updating, ClearCommands
  <2> QED  BY <2>1, <2>2
<1>3. CASE UNCHANGED <<req, held, reply>> /\ Goto(p, "saveEntity") /\ req[p].op = "update"
             /\ pat' = [pat EXCEPT ![p] = None]
  <2>1. req[p] \in UpdateReqs
    BY <1>3, RequestKinds DEF CallOK, WriteReqs
  <2>2. LocalsOK'
    BY <1>3 DEF LocalsOK, Goto, Commands
  <2>3. CallOK(p)' /\ Frame(p)
    BY <1>1, <1>3, <2>1 DEF LocalsOK, CallOK, Frame, Goto, Updating, ClearCommands
  <2> QED  BY <2>2, <2>3
<1>4. CASE End(p, "ok") /\ pat' = [pat EXCEPT ![p] = None]
  BY <1>1, <1>4, EndOK DEF LocalsOK, Frame, Statuses
<1> QED  BY <1>2, <1>3, <1>4 DEF AfterPattern

\* clearReservationCache scans and deletes keys of the cache only.
LEMMA ClearOK == ASSUME WellFormed, NEW p \in Proc, Clear(p) PROVE WellFormed'
<1> USE DEF WellFormed
<1>1. ASSUME NEW page \in SUBSET CachedKeys(pat[p]), NEW last \in BOOLEAN, ScanPage(p, page, last)
      PROVE  WellFormed'
  <2>1. /\ pc[p] \in {"scan", "rescan"} /\ batch' = [batch EXCEPT ![p] = page]
        /\ todo' = [todo EXCEPT ![p] = MustReturn(p) \ page]
        /\ pc' = [pc EXCEPT ![p] = IF last THEN "delLast" ELSE "del"]
        /\ UNCHANGED <<db, redis, req, held, pat, reply>>
    BY <1>1 DEF ScanPage, Goto
  <2>2. TablesOK' /\ CacheOK' /\ Len(customers) <= Len(customers') /\ nextId <= nextId'
    BY <2>1, LocalStep
  <2>3. page \in SUBSET Keys /\ MustReturn(p) \in SUBSET Keys
    BY DEF CachedKeys, MustReturn, CacheOK, LocalsOK
  <2>4. LocalsOK'
    BY <2>1, <2>3 DEF LocalsOK, Commands, ClearCommands
  <2>5. CallOK(p)'
    BY <2>1 DEF CallOK, LocalsOK, Updating, ClearCommands, db
  <2>6. Frame(p)
    BY <2>1, <2>2 DEF Frame, LocalsOK
  <2> QED  BY <2>2, <2>4, <2>5, <2>6, StepOfOne
<1>2. CASE ScanNothing(p)
  <2>1. TablesOK' /\ CacheOK'
    BY <1>2, LocalStep DEF ScanNothing
  <2>2. LocalsOK' /\ CallOK(p)' /\ Frame(p)
    BY <1>2, AfterPatternOK DEF ScanNothing, LocalsOK, ClearCommands, db
  <2> QED  BY <2>1, <2>2, StepOfOne
<1>3. CASE Del(p)
  <2>1. /\ cache' = Drop(cache, batch[p]) /\ blame' = Removed(batch[p])
        /\ todo' = [q \in Proc |-> todo[q] \ batch[p]]
        /\ batch' = [batch EXCEPT ![p] = {}]
        /\ UNCHANGED <<reservations, nextId, customers>>
        /\ \/ /\ pc[p] = "del" /\ pc' = [pc EXCEPT ![p] = "rescan"]
              /\ UNCHANGED <<req, held, pat, reply>>
           \/ pc[p] = "delLast" /\ AfterPattern(p)
    BY <1>3 DEF Del, Remove, Goto, db
  <2>2. TablesOK' /\ CacheOK'
    BY <2>1 DEF TablesOK, CacheOK, Drop, Removed
  <2>3. todo' \in [Proc -> SUBSET Keys] /\ batch' \in [Proc -> SUBSET Keys]
    BY <2>1 DEF LocalsOK
  <2>4. Len(customers) \in Nat /\ nextId \in Nat
    BY LenProperties DEF TablesOK
  <2>5. CASE pc[p] = "del" /\ pc' = [pc EXCEPT ![p] = "rescan"] /\ UNCHANGED <<req, held, pat, reply>>
    <3>1. LocalsOK'
      BY <2>3, <2>5 DEF LocalsOK, Commands, ClearCommands
    <3>2. CallOK(p)' /\ Frame(p)
      BY <2>1, <2>4, <2>5 DEF LocalsOK, CallOK, Frame, Updating, ClearCommands
    <3> QED  BY <2>2, <3>1, <3>2, StepOfOne
  <2>6. CASE pc[p] = "delLast" /\ AfterPattern(p)
    BY <2>1, <2>2, <2>3, <2>6, AfterPatternOK, StepOfOne DEF ClearCommands
  <2> QED  BY <2>1, <2>5, <2>6
<1> QED  BY <1>1, <1>2, <1>3 DEF Clear, Scan, ScanEnd

\* An entry that expires leaves everything else in place.
LEMMA ExpireOK == ASSUME WellFormed, NEW k \in Keys, Expire(k) PROVE WellFormed'
<1> USE DEF WellFormed
<1>1. /\ cache' = Drop(cache, {k}) /\ blame' = Removed({k})
      /\ todo' = [q \in Proc |-> todo[q] \ {k}]
      /\ UNCHANGED <<reservations, nextId, customers, pc, req, held, pat, batch, reply>>
  BY DEF Expire, Remove, db
<1>2. TablesOK' /\ CacheOK'
  BY <1>1 DEF TablesOK, CacheOK, Drop, Removed
<1>3. LocalsOK'
  BY <1>1 DEF LocalsOK
<1>4. ASSUME NEW q \in Proc PROVE CallOK(q)'
  BY <1>1 DEF CallOK, Updating
<1> QED  BY <1>2, <1>3, <1>4

\* Forgetting the sweeps of some calls keeps the types of what it changes.
LEMMA ForgetOK ==
    ASSUME WellFormed, NEW S \in SUBSET Proc, Forget(S), UNCHANGED <<db, cache>>
    PROVE  /\ TablesOK' /\ CacheOK'
           /\ pat' \in [Proc -> {"reservations", "availability", None}]
           /\ todo' \in [Proc -> SUBSET Keys] /\ batch' \in [Proc -> SUBSET Keys]
           /\ \A q \in Proc \ S : pat'[q] = pat[q]
BY DEF WellFormed, TablesOK, CacheOK, LocalsOK, Forget, Excused, db

\* A rejected command ends its call and leaves the tables as they are.
LEMMA FailOK == ASSUME WellFormed, NEW p \in Proc, Fail(p) PROVE WellFormed'
<1>1. End(p, "failed") /\ Forget({p}) /\ UNCHANGED <<db, cache>>
  BY DEF Fail
<1>2. Len(customers) \in Nat /\ nextId \in Nat
  BY LenProperties DEF WellFormed, TablesOK
<1>3. LocalsOK' /\ CallOK(p)' /\ Frame(p)
  BY <1>1, <1>2, EndOK, ForgetOK DEF LocalsOK, Frame, Statuses, db
<1> QED  BY <1>1, <1>3, ForgetOK, StepOfOne

\* A crash ends all calls and leaves the tables as they are.
LEMMA CrashOK == ASSUME WellFormed, Crash PROVE WellFormed'
<1>1. /\ pc' = [p \in Proc |-> "idle"] /\ req' = [p \in Proc |-> None]
      /\ held' = [p \in Proc |-> None] /\ reply' = [p \in Proc |-> "none"]
      /\ Forget(Proc) /\ UNCHANGED <<db, cache>>
  BY DEF Crash
<1>2. LocalsOK'
  BY <1>1, ForgetOK DEF LocalsOK, Statuses
<1>3. \A p \in Proc : CallOK(p)'
  BY <1>1 DEF CallOK, Updating, ClearCommands
<1> QED  BY <1>1, <1>2, <1>3, ForgetOK DEF WellFormed

\* Empty tables, an empty cache and no calls.
LEMMA InitOK == Init => WellFormed
<1> SUFFICES ASSUME Init PROVE WellFormed
  OBVIOUS
<1>1. TablesOK
  BY EmptySeq DEF Init, TablesOK
<1>2. CacheOK /\ LocalsOK
  BY DEF Init, CacheOK, LocalsOK, Statuses
<1>3. \A p \in Proc : CallOK(p)
  BY DEF Init, CallOK, Updating, ClearCommands
<1> QED  BY <1>1, <1>2, <1>3 DEF WellFormed

\* Every step keeps the inductive invariant.
LEMMA NextOK == WellFormed /\ [Next]_vars => WellFormed'
<1> SUFFICES ASSUME WellFormed, [Next]_vars PROVE WellFormed'
  OBVIOUS
<1>1. CASE UNCHANGED vars
  BY <1>1 DEF vars, db, redis, sweep, WellFormed, TablesOK, CacheOK, LocalsOK, CallOK, Updating
<1>2. ASSUME NEW p \in Proc, Receive(p) \/ Step(p) \/ Fail(p) PROVE WellFormed'
  BY <1>2, ReceiveOK, CreateOK, CancelOK, UpdateOK, ReadOK, ClearOK, FailOK DEF Step
<1> QED  BY <1>1, <1>2, ExpireOK, CrashOK DEF Next

\* The inductive invariant holds throughout.
LEMMA AlwaysWellFormed == Spec => []WellFormed
BY InitOK, NextOK, PTL DEF Spec

\* Every variable keeps its type in every execution: whatever calls overlap,
\* fail or are cut off by a crash.
THEOREM TypeCorrect == Spec => []TypeOK
<1>1. WellFormed => TypeOK
  <2> SUFFICES ASSUME WellFormed PROVE TypeOK
    OBVIOUS
  <2>1. ASSUME NEW p \in Proc
        PROVE  IF pc[p] = "idle" THEN req[p] = None ELSE req[p] \in Requests
    BY DEF WellFormed, LocalsOK, CallOK, Commands, Requests, ReadReqs, WriteReqs
  <2> QED  BY <2>1 DEF WellFormed, TablesOK, CacheOK, LocalsOK, TypeOK
<1> QED  BY <1>1, AlwaysWellFormed, PTL

\* No row refers to a customer that is not in the table or carries an id that
\* was not drawn, although the customer, the row and a rewritten row are saved
\* by separate commands.
THEOREM References == Spec => []ReferencesResolve
<1>1. WellFormed => ReferencesResolve
  <2> SUFFICES ASSUME WellFormed PROVE ReferencesResolve
    OBVIOUS
  <2>1. DOMAIN customers = 1 .. Len(customers)
    BY LenProperties DEF WellFormed, TablesOK
  <2> QED  BY <2>1 DEF WellFormed, TablesOK, ReferencesResolve
<1> QED  BY <1>1, AlwaysWellFormed, PTL

-----------------------------------------------------------------------------
(* Who changes the tables.                                                 *)

\* The reservation table is written by three commands.
LEMMA TableWriters ==
    ASSUME Next
    PROVE  \/ UNCHANGED reservations
           \/ \E p \in Proc : CreateSave(p) \/ CancelDelete(p) \/ UpdateSave(p)
<1>1. ASSUME NEW p \in Proc, Receive(p) \/ Step(p) \/ Fail(p)
      PROVE  UNCHANGED reservations \/ CreateSave(p) \/ CancelDelete(p) \/ UpdateSave(p)
  <2>1. CASE Receive(p) \/ Fail(p)
    BY <2>1 DEF Receive, Fail, db
  <2>2. CASE Create(p) \/ Cancel(p) \/ Update(p)
    BY <2>2 DEF Create, CreateFindCustomer, CreateSaveCustomer, CreateAdmit, CreateRefuse,
                Cancel, CancelMissing, Update, UpdateFind, UpdateMissing, db
  <2>3. CASE Read(p)
    BY <2>3 DEF Read, CacheHit, CacheMiss, CheckFind, ListGetMany, ListGetCount, CacheSet, db
  <2>4. CASE Clear(p)
    BY <2>4 DEF Clear, Scan, ScanEnd, ScanPage, ScanNothing, Del, db
  <2> QED  BY <1>1, <2>1, <2>2, <2>3, <2>4 DEF Step
<1>2. ASSUME NEW k \in Keys, Expire(k) PROVE UNCHANGED reservations
  BY <1>2 DEF Expire, db
<1>3. CASE Crash
  BY <1>3 DEF Crash, db
<1> QED  BY <1>1, <1>2, <1>3 DEF Next

\* Calls in flight run operations that callers use.
OnlyOps == \A p \in Proc : pc[p] # "idle" => req[p].op \in Ops

\* A call keeps its request until it ends.
LEMMA OnlyOpsStep == WellFormed /\ OnlyOps /\ [Next]_vars => OnlyOps'
<1> SUFFICES ASSUME WellFormed, OnlyOps, [Next]_vars, NEW q \in Proc
             PROVE  pc'[q] # "idle" => req'[q].op \in Ops
  BY DEF OnlyOps
<1> USE DEF OnlyOps
<1>0. pc \in [Proc -> Commands \cup {"idle"}] /\ DOMAIN req = Proc
  BY DEF WellFormed, LocalsOK
<1>1. CASE UNCHANGED vars
  BY <1>1 DEF vars
<1>2. ASSUME NEW p \in Proc, Receive(p) PROVE pc'[q] # "idle" => req'[q].op \in Ops
  BY <1>0, <1>2 DEF Receive, Goto
<1>3. ASSUME NEW p \in Proc,
             pc[p] # "idle", \E command : Goto(p, command), UNCHANGED req
      PROVE  pc'[q] # "idle" => req'[q].op \in Ops
  BY <1>0, <1>3 DEF Goto
<1>4. ASSUME NEW p \in Proc, \E status : End(p, status)
      PROVE  pc'[q] # "idle" => req'[q].op \in Ops
  BY <1>0, <1>4 DEF End, Goto
<1>5. ASSUME NEW p \in Proc, Create(p) \/ Cancel(p) \/ Update(p) \/ Read(p)
      PROVE  \/ pc[p] # "idle" /\ (\E command : Goto(p, command)) /\ UNCHANGED req
             \/ \E status : End(p, status)
  <2>1. CASE Create(p)
    BY <2>1 DEF Create, CreateFindCustomer, CreateSaveCustomer, CreateAdmit, CreateRefuse,
                CreateSave, StartClear
  <2>2. CASE Cancel(p) \/ Update(p)
    BY <2>2 DEF Cancel, CancelDelete, CancelMissing, Update, UpdateFind, UpdateMissing,
                UpdateSave, StartClear
  <2>3. CASE Read(p)
    BY <2>3 DEF Read, CacheHit, CacheMiss, CheckFind, ListGetMany, ListGetCount, CacheSet
  <2> QED  BY <1>5, <2>1, <2>2, <2>3
<1>6. ASSUME NEW p \in Proc, Clear(p)
      PROVE  \/ pc[p] # "idle" /\ (\E command : Goto(p, command)) /\ UNCHANGED req
             \/ \E status : End(p, status)
  <2>1. CASE Scan(p)
    BY <2>1 DEF Scan, ScanEnd, ScanPage, ScanNothing, AfterPattern
  <2>2. CASE Del(p)
    BY <2>2 DEF Del, AfterPattern
  <2> QED  BY <1>6, <2>1, <2>2 DEF Clear
<1>7. ASSUME NEW p \in Proc, Fail(p) PROVE \E status : End(p, status)
  BY <1>7 DEF Fail
<1>8. ASSUME NEW k \in Keys, Expire(k) PROVE pc'[q] # "idle" => req'[q].op \in Ops
  BY <1>8 DEF Expire
<1>9. CASE Crash
  BY <1>9 DEF Crash
<1> QED  BY <1>1, <1>2, <1>3, <1>4, <1>5, <1>6, <1>7, <1>8, <1>9 DEF Next, Step

\* Nobody runs an operation outside Ops.
LEMMA AlwaysOnlyOps == Spec => []OnlyOps
<1>1. Init => OnlyOps
  BY DEF Init, OnlyOps
<1> QED  BY <1>1, OnlyOpsStep, AlwaysWellFormed, PTL DEF Spec

\* A call comes to hold a copy of a row only by reading it.
LEMMA HoldsByReading ==
    ASSUME WellFormed, Next, NEW q \in Proc, Updating(q)'
    PROVE  /\ req'[q] = req[q]
           /\ Updating(q) \/ req[q].id \in DOMAIN reservations
<1>0. /\ pc \in [Proc -> Commands \cup {"idle"}] /\ DOMAIN req = Proc /\ CallOK(q)
  BY DEF WellFormed, LocalsOK
<1>1. CASE pc'[q] = pc[q] /\ req'[q] = req[q]
  BY <1>1 DEF Updating
<1>2. ASSUME NEW p \in Proc, Receive(p) \/ Step(p) \/ Fail(p), p # q
      PROVE  pc'[q] = pc[q] /\ req'[q] = req[q]
  <2>1. CASE Receive(p) \/ Fail(p)
    BY <1>0, <1>2, <2>1 DEF Receive, Fail, End, Goto
  <2>2. CASE Create(p)
    BY <1>0, <1>2, <2>2 DEF Create, CreateFindCustomer, CreateSaveCustomer, CreateAdmit,
                CreateRefuse, CreateSave, StartClear, End, Goto
  <2>3. CASE Cancel(p) \/ Update(p)
    BY <1>0, <1>2, <2>3 DEF Cancel, CancelDelete, CancelMissing, Update, UpdateFind,
                UpdateMissing, UpdateSave, StartClear, End, Goto
  <2>4. CASE Read(p)
    BY <1>0, <1>2, <2>4 DEF Read, CacheHit, CacheMiss, CheckFind, ListGetMany, ListGetCount,
                CacheSet, End, Goto
  <2>5. CASE Clear(p)
    BY <1>0, <1>2, <2>5 DEF Clear, Scan, ScanEnd, ScanPage, ScanNothing, Del, AfterPattern, End, Goto
  <2> QED  BY <1>2, <2>1, <2>2, <2>3, <2>4, <2>5 DEF Step
<1>3. ASSUME \E status : End(q, status) PROVE FALSE
  <2>1. pc'[q] = "idle"
    BY <1>0, <1>3 DEF End, Goto
  <2> QED  BY <2>1 DEF Updating, ClearCommands
<1>4. CASE Receive(q) \/ Fail(q)
  <2>1. CASE Receive(q)
    <3>1. PICK r \in Requests : Goto(q, FirstCommand[r.op])
      BY <2>1 DEF Receive
    <3>2. r.op \in AllOps
      BY RequestKinds DEF Requests, ReadReqs, AllOps
    <3>3. pc'[q] \in {"findCustomer", "delete", "findOne", "get"}
      BY <1>0, <3>1, <3>2 DEF Goto, FirstCommand, AllOps
    <3> QED  BY <3>3 DEF Updating, ClearCommands
  <2> QED  BY <1>3, <1>4, <2>1 DEF Fail
<1>5. CASE Create(q) \/ Cancel(q)
  <2>1. pc[q] # "idle" /\ req[q].op \in {"create", "cancel"} /\ pc[q] \notin {"set", "findOne", "saveEntity"}
    BY <1>0, <1>5, RequestKinds DEF CallOK, Create, CreateFindCustomer, CreateSaveCustomer, CreateAdmit,
                CreateRefuse, CreateSave, Cancel, CancelDelete, CancelMissing
  <2>2. \/ \E status : End(q, status)
        \/ req'[q] = req[q] /\ pc'[q] \in {"saveCustomer", "findDay", "save", "scan"}
    BY <1>0, <1>5 DEF Create, CreateFindCustomer, CreateSaveCustomer, CreateAdmit, CreateRefuse,
                CreateSave, Cancel, CancelDelete, CancelMissing, StartClear, Goto
  <2>3. req'[q] = req[q] /\ pc'[q] # "saveEntity"
    BY <1>3, <2>2
  <2> QED  BY <2>1, <2>3 DEF Updating
<1>6. CASE Update(q)
  <2>1. CASE UpdateFind(q)
    BY <2>1 DEF UpdateFind
  <2> QED  BY <1>3, <1>6, <2>1 DEF Update, UpdateMissing, UpdateSave
<1>7. CASE Read(q)
  <2>1. \/ \E status : End(q, status)
        \/ pc'[q] \in {"find", "getMany", "getCount", "set"}
    BY <1>0, <1>7 DEF Read, CacheHit, CacheMiss, CheckFind, ListGetMany, ListGetCount, CacheSet, Goto
  <2> QED  BY <1>3, <2>1 DEF Updating, ClearCommands
<1>8. CASE Clear(q)
  <2>1. pc[q] \in ClearCommands
    BY <1>8 DEF Clear, Scan, ScanEnd, ScanPage, ScanNothing, Del, ClearCommands
  <2>2. \/ \E status : End(q, status)
        \/ /\ req'[q] = req[q]
           /\ pc'[q] \in ClearCommands \/ req[q].op = "update"
    <3>1. CASE Scan(q)
      BY <1>0, <3>1 DEF Scan, ScanEnd, ScanPage, ScanNothing, AfterPattern, Goto, ClearCommands
    <3>2. CASE Del(q)
      BY <1>0, <3>2 DEF Del, AfterPattern, Goto, ClearCommands
    <3> QED  BY <1>8, <3>1, <3>2 DEF Clear
  <2>3. req'[q] = req[q] /\ req[q].op = "update"
    BY <1>3, <2>2 DEF Updating, ClearCommands
  <2> QED  BY <2>1, <2>3 DEF Updating
<1>9. ASSUME NEW k \in Keys, Expire(k) PROVE pc'[q] = pc[q] /\ req'[q] = req[q]
  BY <1>9 DEF Expire
<1>10. CASE Crash
  BY <1>10 DEF Crash, Updating, ClearCommands
<1> QED  BY <1>1, <1>2, <1>4, <1>5, <1>6, <1>7, <1>8, <1>9, <1>10 DEF Next, Step

\* A cancelled reservation that no update holds a copy of is cancelled for good
\* (CancelIsFinal): creations draw fresh ids, an update must read a row before it
\* can save one, and only a copy read before the cancellation comes back.
THEOREM CancelledForGood == Spec => CancelIsFinal
<1>1. ASSUME WellFormed, Next, NEW id \in 1 .. nextId - 1, Gone(id) PROVE Gone(id)'
  <2>1. id \notin DOMAIN reservations'
    <3>1. CASE UNCHANGED reservations
      BY <1>1, <3>1 DEF Gone
    <3>2. ASSUME NEW p \in Proc, CreateSave(p) PROVE id \notin DOMAIN reservations'
      <4>1. nextId \in Nat /\ DOMAIN reservations' = DOMAIN reservations \cup {nextId}
        BY <1>1, <3>2 DEF CreateSave, Put, WellFormed, TablesOK
      <4> QED  BY <1>1, <4>1 DEF Gone
    <3>3. ASSUME NEW p \in Proc, CancelDelete(p) PROVE id \notin DOMAIN reservations'
      BY <1>1, <3>3 DEF CancelDelete, Drop, Gone
    <3>4. ASSUME NEW p \in Proc, UpdateSave(p) PROVE id \notin DOMAIN reservations'
      <4>1. DOMAIN reservations' = DOMAIN reservations \cup {req[p].id}
        BY <3>4 DEF UpdateSave, Put
      <4>2. req[p].id # id
        BY <1>1, <3>4 DEF UpdateSave, Updating, Gone
      <4> QED  BY <1>1, <4>1, <4>2 DEF Gone
    <3> QED  BY <1>1, <3>1, <3>2, <3>3, <3>4, TableWriters
  <2>2. ASSUME NEW q \in Proc, Updating(q)' PROVE req'[q].id # id
    <3>1. req'[q] = req[q] /\ (Updating(q) \/ req[q].id \in DOMAIN reservations)
      BY <1>1, <2>2, HoldsByReading
    <3> QED  BY <1>1, <3>1 DEF Gone
  <2> QED  BY <2>1, <2>2 DEF Gone
<1>2. ASSUME WellFormed, [Next]_vars
      PROVE  [\A id \in 1 .. nextId - 1 : Gone(id) => Gone(id)']_vars
  BY <1>1, <1>2
<1> QED  BY <1>2, AlwaysWellFormed, PTL DEF Spec, CancelIsFinal

-----------------------------------------------------------------------------
(* Stale cache entries.                                                    *)

\* p still has to remove the entry of k: it has not scanned for k's pattern
\* yet, or its SCAN has yet to return k, or k is in the page it is deleting.
Owes(p, k) ==
    \/ pc[p] \in ClearCommands /\ pat[p] = "reservations" /\ k.pattern = "availability"
    \/ /\ k.pattern = pat[p]
       /\ \/ pc[p] = "scan"
          \/ pc[p] \in {"rescan", "del"} /\ k \in todo[p]
          \/ pc[p] \in {"del", "delLast"} /\ k \in batch[p]

\* The inductive invariant behind StaleExplained: only stored entries are
\* blamed, a call that is blamed owes the removal, and what is blamed on nobody
\* is fresh.
Accounted ==
    /\ \A k \in Keys : blame[k] # {} => k \in DOMAIN cache
    /\ \A k \in Keys, p \in Proc : p \in blame[k] => Owes(p, k)
    /\ \A k \in DOMAIN cache : blame[k] # {} \/ Fresh(k)

\* Every key matches one of the two patterns that are cleared.
LEMMA Patterns == \A k \in Keys : k.pattern \in {"reservations", "availability"}
BY DEF Keys, KeyOf, AvailabilityKey, ListKey

\* An answer depends on the rows, and on the names of the customers that they
\* refer to.
LEMMA AnswerStable ==
    ASSUME WellFormed, UNCHANGED reservations,
           \A c \in 1 .. Len(customers) : customers'[c] = customers[c],
           NEW r
    PROVE  Answer(r)' = Answer(r)
<1>1. \A q : Matching(q)' = Matching(q)
  BY DEF Matching, WellFormed, TablesOK
<1>2. \A q, i, j : SortsBefore(q, i, j)' = SortsBefore(q, i, j)
  BY DEF SortsBefore
<1>3. \A q, i : Position(q, i)' = Position(q, i)
  BY <1>1, <1>2 DEF Position
<1>4. \A q : Items(q)' = Items(q)
  BY <1>1, <1>3 DEF Items, OnPage
<1>5. \A q : Availability(q)' = Availability(q)
  BY DEF Availability, OnDate
<1> QED  BY <1>1, <1>4, <1>5 DEF Answer, TotalItems

\* An entry stays fresh while it and the answers of the tables do.
LEMMA FreshStable ==
    ASSUME NEW k, Fresh(k), cache'[k] = cache[k], \A r : Answer(r)' = Answer(r)
    PROVE  Fresh(k)'
BY DEF Fresh

\* A step that changes neither the cache nor the tables keeps every account.
LEMMA QuietAccounts ==
    ASSUME WellFormed, Accounted, UNCHANGED <<reservations, redis>>,
           \A c \in 1 .. Len(customers) : customers'[c] = customers[c],
           \A k \in Keys, p \in Proc : p \in blame[k] => Owes(p, k)'
    PROVE  Accounted'
<1>1. \A r : Answer(r)' = Answer(r)
  BY AnswerStable
<1>2. ASSUME NEW k \in DOMAIN cache PROVE blame[k] # {} \/ Fresh(k)'
  BY <1>1, <1>2, FreshStable DEF Accounted, redis
<1> QED  BY <1>2 DEF Accounted, redis

\* Only the call itself can settle what it owes.
LEMMA OthersOwe ==
    ASSUME NEW p \in Proc, NEW k \in Keys, Owes(p, k),
           pc'[p] = pc[p], pat'[p] = pat[p], batch'[p] = batch[p],
           k \in todo[p] => k \in todo'[p]
    PROVE  Owes(p, k)'
BY DEF Owes

\* A call that is not clearing is blamed for nothing.
LEMMA NothingOwed ==
    ASSUME Accounted, NEW p \in Proc, pc[p] \notin ClearCommands
    PROVE  \A k \in Keys : p \notin blame[k]
BY DEF Accounted, Owes, ClearCommands

\* A step of a call outside clearReservationCache that leaves rows and cache
\* alone.
LEMMA OutsideClear ==
    ASSUME WellFormed, Accounted, NEW p \in Proc, pc[p] \notin ClearCommands,
           UNCHANGED <<reservations, redis, todo, batch>>,
           \A c \in 1 .. Len(customers) : customers'[c] = customers[c],
           \A q \in Proc \ {p} : pc'[q] = pc[q] /\ pat'[q] = pat[q]
    PROVE  Accounted'
<1>1. ASSUME NEW k \in Keys, NEW q \in Proc, q \in blame[k] PROVE Owes(q, k)'
  <2>1. q # p /\ Owes(q, k)
    BY <1>1, NothingOwed DEF Accounted
  <2> QED  BY <2>1, OthersOwe
<1> QED  BY <1>1, QuietAccounts

\* A committed write is put on the account of every entry that is stored.
LEMMA AccuseAccounts ==
    ASSUME WellFormed, Accounted, NEW p \in Proc, pc[p] \notin ClearCommands,
           UNCHANGED <<cache, todo, batch>>,
           \A q \in Proc \ {p} : pc'[q] = pc[q] /\ pat'[q] = pat[q],
           \/ Accuse("update")
           \/ Accuse(p) /\ pc'[p] = "scan" /\ pat'[p] = "reservations"
    PROVE  Accounted'
<1>1. ASSUME NEW k \in Keys, NEW q \in Proc, q \in blame'[k] PROVE Owes(q, k)'
  <2>1. q \in blame[k] \/ (q = p /\ Accuse(p))
    BY <1>1, ProcAssumption DEF Accuse
  <2>2. CASE q \in blame[k]
    <3>1. q # p /\ Owes(q, k)
      BY <2>2, NothingOwed DEF Accounted
    <3> QED  BY <3>1, OthersOwe
  <2>3. CASE q = p /\ q \notin blame[k]
    <3>1. pc'[p] = "scan" /\ pat'[p] = "reservations"
      BY <1>1, <2>1, <2>3, ProcAssumption DEF Accuse
    <3> QED  BY <2>3, <3>1, Patterns DEF Owes, ClearCommands
  <2> QED  BY <2>1, <2>2, <2>3
<1>2. \A k \in DOMAIN cache : blame'[k] # {}
  BY DEF Accuse, WellFormed, CacheOK
<1>3. \A k \in Keys : blame'[k] # {} => k \in DOMAIN cache'
  BY DEF Accuse
<1> QED  BY <1>1, <1>2, <1>3 DEF Accounted

\* Entries that leave the cache take their accounts with them.
LEMMA RemoveAccounts ==
    ASSUME WellFormed, Accounted, NEW K, Remove(K), UNCHANGED <<reservations, customers>>,
           \A k \in Keys \ K, p \in Proc : p \in blame[k] => Owes(p, k)'
    PROVE  Accounted'
<1>1. /\ DOMAIN cache' = DOMAIN cache \ K
      /\ \A k \in DOMAIN cache' : cache'[k] = cache[k]
      /\ \A k \in Keys : blame'[k] = IF k \in K THEN {} ELSE blame[k]
  BY DEF Remove, Drop, Removed
<1>2. \A r : Answer(r)' = Answer(r)
  BY AnswerStable
<1>3. ASSUME NEW k \in DOMAIN cache' PROVE blame'[k] # {} \/ Fresh(k)'
  <2>1. k \in Keys /\ k \in DOMAIN cache /\ k \notin K
    BY <1>1, <1>3 DEF WellFormed, CacheOK
  <2> QED  BY <1>1, <1>2, <2>1, FreshStable DEF Accounted
<1>4. ASSUME NEW k \in Keys, NEW p \in Proc, p \in blame'[k] PROVE Owes(p, k)'
  BY <1>1, <1>4
<1>5. ASSUME NEW k \in Keys, blame'[k] # {} PROVE k \in DOMAIN cache'
  BY <1>1, <1>5 DEF Accounted
<1> QED  BY <1>3, <1>4, <1>5 DEF Accounted

\* When a pattern is done, p owes at most the keys of the next one.
LEMMA NextPatternOwed ==
    ASSUME WellFormed, NEW p \in Proc, AfterPattern(p), NEW k \in Keys,
           pc[p] \in ClearCommands, pat[p] = "reservations", k.pattern = "availability"
    PROVE  Owes(p, k)'
BY DEF AfterPattern, Goto, Owes, ClearCommands, WellFormed, LocalsOK

\* Going on after a pattern moves nobody else.
LEMMA AfterPatternFrame ==
    ASSUME WellFormed, NEW p \in Proc, AfterPattern(p)
    PROVE  \A q \in Proc \ {p} : pc'[q] = pc[q] /\ pat'[q] = pat[q]
BY DEF AfterPattern, End, Goto, WellFormed, LocalsOK

\* What a call that clears the cache passes over, it does not owe.
LEMMA ClearAccounts ==
    ASSUME WellFormed, Accounted, NEW p \in Proc, Clear(p)
    PROVE  Accounted'
<1>0. /\ pc \in [Proc -> Commands \cup {"idle"}] /\ DOMAIN pat = Proc
      /\ todo \in [Proc -> SUBSET Keys] /\ batch \in [Proc -> SUBSET Keys]
  BY DEF WellFormed, LocalsOK
<1>1. ASSUME NEW page \in SUBSET CachedKeys(pat[p]), NEW last \in BOOLEAN, ScanPage(p, page, last)
      PROVE  Accounted'
  <2>1. /\ pc[p] \in {"scan", "rescan"} /\ batch' = [batch EXCEPT ![p] = page]
        /\ last => MustReturn(p) \subseteq page
        /\ todo' = [todo EXCEPT ![p] = MustReturn(p) \ page]
        /\ pc' = [pc EXCEPT ![p] = IF last THEN "delLast" ELSE "del"]
        /\ UNCHANGED <<reservations, customers, redis, pat>>
    BY <1>1 DEF ScanPage, Goto, db
  <2>2. ASSUME NEW k \in Keys, NEW q \in Proc, q \in blame[k] PROVE Owes(q, k)'
    <3>1. Owes(q, k) /\ k \in DOMAIN cache
      BY <2>2 DEF Accounted
    <3>2. CASE q # p
      BY <1>0, <2>1, <3>1, <3>2, OthersOwe
    <3>3. CASE q = p /\ k.pattern = pat[p]
      <4>1. k \in MustReturn(p)
        BY <2>1, <3>1, <3>3 DEF Owes, MustReturn, CachedKeys
      <4> QED  BY <1>0, <2>1, <3>3, <4>1 DEF Owes
    <3>4. CASE q = p /\ k.pattern # pat[p]
      BY <1>0, <2>1, <3>1, <3>4 DEF Owes, ClearCommands
    <3> QED  BY <3>2, <3>3, <3>4
  <2> QED  BY <2>1, <2>2, QuietAccounts
<1>2. CASE ScanNothing(p)
  <2>1. /\ pc[p] \in {"scan", "rescan"} /\ MustReturn(p) = {} /\ AfterPattern(p)
        /\ UNCHANGED <<reservations, customers, redis, todo, batch>>
    BY <1>2 DEF ScanNothing, db
  <2>2. ASSUME NEW k \in Keys, NEW q \in Proc, q \in blame[k] PROVE Owes(q, k)'
    <3>1. Owes(q, k) /\ k \in DOMAIN cache
      BY <2>2 DEF Accounted
    <3>2. CASE q # p
      BY <2>1, <3>1, <3>2, AfterPatternFrame, OthersOwe
    <3>3. CASE q = p
      <4>1. pat[p] = "reservations" /\ k.pattern = "availability"
        BY <2>1, <3>1, <3>3 DEF Owes, MustReturn, CachedKeys
      <4> QED  BY <2>1, <3>3, <4>1, NextPatternOwed DEF ClearCommands
    <3> QED  BY <3>2, <3>3
  <2> QED  BY <2>1, <2>2, QuietAccounts
<1>3. CASE Del(p)
  <2>1. /\ Remove(batch[p]) /\ UNCHANGED <<reservations, customers>>
        /\ todo' = [q \in Proc |-> todo[q] \ batch[p]]
        /\ batch' = [batch EXCEPT ![p] = {}]
        /\ \/ pc[p] = "del" /\ pc' = [pc EXCEPT ![p] = "rescan"] /\ UNCHANGED pat
           \/ pc[p] = "delLast" /\ AfterPattern(p)
    BY <1>3 DEF Del, Remove, Goto, db
  <2>2. ASSUME NEW k \in Keys \ batch[p], NEW q \in Proc, q \in blame[k] PROVE Owes(q, k)'
    <3>1. Owes(q, k) /\ (k \in todo[q] => k \in todo'[q])
      BY <2>1, <2>2 DEF Accounted
    <3>2. CASE q # p
      <4>1. pc'[q] = pc[q] /\ pat'[q] = pat[q] /\ batch'[q] = batch[q]
        BY <1>0, <2>1, <3>2, AfterPatternFrame
      <4> QED  BY <3>1, <4>1, OthersOwe
    <3>3. CASE q = p /\ pc[p] = "del"
      BY <1>0, <2>1, <2>2, <3>1, <3>3 DEF Owes, ClearCommands
    <3>4. CASE q = p /\ pc[p] = "delLast"
      <4>1. pat[p] = "reservations" /\ k.pattern = "availability"
        BY <2>2, <3>1, <3>4 DEF Owes
      <4> QED  BY <2>1, <3>4, <4>1, NextPatternOwed DEF ClearCommands
    <3> QED  BY <2>1, <3>2, <3>3, <3>4
  <2> QED  BY <2>1, <2>2, RemoveAccounts
<1> QED  BY <1>1, <1>2, <1>3 DEF Clear, Scan, ScanEnd

\* A reader stores the current answer, or is blamed for storing an old one.
LEMMA SetAccounts ==
    ASSUME WellFormed, Accounted, NEW p \in Proc, CacheSet(p)
    PROVE  Accounted'
<1> DEFINE k == KeyOf(req[p])
<1>1. /\ pc[p] = "set" /\ cache' = Put(cache, k, held[p])
      /\ blame' = [blame EXCEPT ![k] = IF held[p] = Answer(req[p]) THEN {} ELSE {"fill"}]
      /\ End(p, "ok") /\ UNCHANGED <<reservations, customers, pat, todo, batch>>
  BY DEF CacheSet, db, sweep
<1>2. req[p] \in ReadReqs /\ k \in Keys
  BY <1>1, KeyOfRead DEF WellFormed, CallOK
<1>3. \A r : Answer(r)' = Answer(r)
  BY <1>1, AnswerStable
<1>4. /\ DOMAIN cache' = DOMAIN cache \cup {k}
      /\ \A x \in DOMAIN cache' : cache'[x] = IF x = k THEN held[p] ELSE cache[x]
  BY <1>1 DEF Put
<1>5. \A x \in Keys : blame'[x] = IF x # k THEN blame[x]
                                  ELSE IF held[p] = Answer(req[p]) THEN {} ELSE {"fill"}
  BY <1>1, <1>2 DEF WellFormed, CacheOK
<1>6. ASSUME NEW x \in DOMAIN cache' PROVE blame'[x] # {} \/ Fresh(x)'
  <2>1. CASE x = k
    <3>1. CASE held[p] = Answer(req[p])
      BY <1>2, <1>3, <1>4, <2>1, <3>1 DEF Fresh
    <3>2. CASE held[p] # Answer(req[p])
      BY <1>2, <1>5, <2>1, <3>2
    <3> QED  BY <3>1, <3>2
  <2>2. CASE x # k
    <3>1. x \in DOMAIN cache /\ x \in Keys /\ cache'[x] = cache[x] /\ blame'[x] = blame[x]
      BY <1>4, <1>5, <1>6, <2>2 DEF WellFormed, CacheOK
    <3> QED  BY <1>3, <3>1, FreshStable DEF Accounted
  <2> QED  BY <2>1, <2>2
<1>7. ASSUME NEW x \in Keys, NEW q \in Proc, q \in blame'[x] PROVE Owes(q, x)'
  <2>1. q \in blame[x]
    BY <1>5, <1>7, ProcAssumption
  <2>2. q # p /\ Owes(q, x)
    BY <1>1, <2>1, NothingOwed DEF Accounted, ClearCommands
  <2>3. pc'[q] = pc[q]
    BY <1>1, <2>2 DEF End, Goto, WellFormed, LocalsOK
  <2> QED  BY <1>1, <2>2, <2>3, OthersOwe
<1>8. ASSUME NEW x \in Keys, blame'[x] # {} PROVE x \in DOMAIN cache'
  BY <1>4, <1>5, <1>8 DEF Accounted
<1> QED  BY <1>6, <1>7, <1>8 DEF Accounted

\* What a call that is cut off owed is nobody's any more.
LEMMA ForgetAccounts ==
    ASSUME WellFormed, Accounted, NEW S \in SUBSET Proc, Forget(S), UNCHANGED <<db, cache>>,
           \A q \in Proc \ S : pc'[q] = pc[q]
    PROVE  Accounted'
<1>1. \A r : Answer(r)' = Answer(r)
  BY AnswerStable DEF db
<1>2. \A x \in Keys : /\ blame'[x] # {} <=> blame[x] # {}
                      /\ \A q \in Proc : q \in blame'[x] => q \in blame[x] /\ q \notin S
  BY ProcAssumption DEF Forget, Excused
<1>3. ASSUME NEW x \in DOMAIN cache PROVE blame'[x] # {} \/ Fresh(x)'
  <2>1. x \in Keys /\ cache'[x] = cache[x]
    BY DEF WellFormed, CacheOK
  <2> QED  BY <1>1, <1>2, <2>1, FreshStable DEF Accounted
<1>4. ASSUME NEW x \in Keys, NEW q \in Proc, q \in blame'[x] PROVE Owes(q, x)'
  <2>1. q \in Proc \ S /\ Owes(q, x)
    BY <1>2, <1>4 DEF Accounted
  <2>2. pat'[q] = pat[q] /\ todo'[q] = todo[q] /\ batch'[q] = batch[q]
    BY <2>1 DEF Forget
  <2> QED  BY <2>1, <2>2, OthersOwe
<1> QED  BY <1>2, <1>3, <1>4 DEF Accounted

\* Every step keeps the account of stale entries.
LEMMA AccountedStep == WellFormed /\ Accounted /\ [Next]_vars => Accounted'
<1> SUFFICES ASSUME WellFormed, Accounted, [Next]_vars PROVE Accounted'
  OBVIOUS
<1>0. /\ pc \in [Proc -> Commands \cup {"idle"}] /\ DOMAIN pat = Proc
      /\ customers \in Seq(Names)
  BY DEF WellFormed, LocalsOK, TablesOK
<1>1. CASE UNCHANGED vars
  <2>1. UNCHANGED <<reservations, customers, redis, pc, pat, todo, batch>>
    BY <1>1 DEF vars, db, sweep
  <2>2. \A k \in Keys, p \in Proc : p \in blame[k] => Owes(p, k)'
    BY <2>1 DEF Accounted, Owes
  <2> QED  BY <2>1, <2>2, QuietAccounts
<1>2. ASSUME NEW p \in Proc, Receive(p) PROVE Accounted'
  BY <1>0, <1>2, OutsideClear DEF Receive, Goto, ClearCommands, db, sweep
<1>3. ASSUME NEW p \in Proc, Create(p) PROVE Accounted'
  <2>1. CASE CreateFindCustomer(p)
    BY <1>0, <2>1, OutsideClear DEF CreateFindCustomer, Goto, ClearCommands, db, sweep
  <2>2. CASE CreateSaveCustomer(p)
    <3>1. req[p].name \in Names
      BY <2>2, RequestKinds DEF CreateSaveCustomer, WellFormed, CallOK
    <3>2. \A c \in 1 .. Len(customers) : customers'[c] = customers[c]
      BY <1>0, <2>2, <3>1, AppendProperties DEF CreateSaveCustomer
    <3> QED  BY <1>0, <2>2, <3>2, OutsideClear DEF CreateSaveCustomer, Goto, ClearCommands, sweep
  <2>3. CASE CreateAdmit(p)
    BY <1>0, <2>3, OutsideClear DEF CreateAdmit, Goto, ClearCommands, db, sweep
  <2>4. CASE CreateRefuse(p)
    BY <1>0, <2>4, OutsideClear DEF CreateRefuse, End, Goto, ClearCommands, db, sweep
  <2>5. CASE CreateSave(p)
    BY <1>0, <2>5, AccuseAccounts DEF CreateSave, StartClear, Goto, ClearCommands
  <2> QED  BY <1>3, <2>1, <2>2, <2>3, <2>4, <2>5 DEF Create
<1>4. ASSUME NEW p \in Proc, Cancel(p) PROVE Accounted'
  <2>1. CASE CancelDelete(p)
    BY <1>0, <2>1, AccuseAccounts DEF CancelDelete, StartClear, Goto, ClearCommands
  <2>2. CASE CancelMissing(p)
    BY <1>0, <2>2, OutsideClear DEF CancelMissing, End, Goto, ClearCommands, db, sweep
  <2> QED  BY <1>4, <2>1, <2>2 DEF Cancel
<1>5. ASSUME NEW p \in Proc, Update(p) PROVE Accounted'
  <2>1. CASE UpdateFind(p)
    BY <1>0, <2>1, OutsideClear DEF UpdateFind, StartClear, Goto, ClearCommands, db
  <2>2. CASE UpdateMissing(p)
    BY <1>0, <2>2, OutsideClear DEF UpdateMissing, End, Goto, ClearCommands, db, sweep
  <2>3. CASE UpdateSave(p)
    BY <1>0, <2>3, AccuseAccounts DEF UpdateSave, End, Goto, ClearCommands, sweep
  <2> QED  BY <1>5, <2>1, <2>2, <2>3 DEF Update
<1>6. ASSUME NEW p \in Proc, Read(p) PROVE Accounted'
  <2>1. CASE CacheHit(p)
    BY <1>0, <2>1, OutsideClear DEF CacheHit, End, Goto, ClearCommands, db, sweep
  <2>2. CASE CacheMiss(p) \/ CheckFind(p) \/ ListGetMany(p) \/ ListGetCount(p)
    BY <1>0, <2>2, OutsideClear
       DEF CacheMiss, CheckFind, ListGetMany, ListGetCount, Goto, ClearCommands, db, sweep
  <2> QED  BY <1>6, <2>1, <2>2, SetAccounts DEF Read
<1>7. ASSUME NEW p \in Proc, Fail(p) PROVE Accounted'
  <2>1. \A q \in Proc \ {p} : pc'[q] = pc[q]
    BY <1>0, <1>7 DEF Fail, End, Goto
  <2> QED  BY <1>7, <2>1, ForgetAccounts DEF Fail
<1>8. ASSUME NEW k \in Keys, Expire(k) PROVE Accounted'
  <2>1. /\ Remove({k}) /\ UNCHANGED <<reservations, customers, pc, pat, batch>>
        /\ \A q \in Proc : todo'[q] = todo[q] \ {k}
    BY <1>8 DEF Expire, Remove, db
  <2>2. ASSUME NEW x \in Keys \ {k}, NEW q \in Proc, q \in blame[x] PROVE Owes(q, x)'
    BY <2>1, <2>2, OthersOwe DEF Accounted
  <2> QED  BY <2>1, <2>2, RemoveAccounts
<1>9. CASE Crash
  BY <1>9, ForgetAccounts DEF Crash
<1> QED  BY <1>1, <1>2, <1>3, <1>4, <1>5, <1>6, <1>7, <1>8, <1>9, ClearAccounts DEF Next, Step

\* Every stale cache entry is explained, for any number of overlapping calls,
\* keys and pages of SCAN: in particular a creation or cancellation that has
\* replied with success has left no entry that its own write made stale.
THEOREM StalenessAccounted == Spec => []StaleExplained
<1>1. Init => Accounted
  BY DEF Init, Accounted
<1>2. WellFormed /\ Accounted => StaleExplained
  <2> SUFFICES ASSUME WellFormed, Accounted, NEW k \in DOMAIN cache, ~Fresh(k)
               PROVE  \/ blame[k] \cap {"fill", "update", "fault"} # {}
                      \/ \E p \in Proc : p \in blame[k] /\ pc[p] \in ClearCommands
    BY DEF StaleExplained
  <2>1. k \in Keys /\ blame[k] # {} /\ blame[k] \subseteq Proc \cup {"fill", "update", "fault"}
    BY DEF WellFormed, CacheOK, Accounted
  <2>2. \A p \in Proc : p \in blame[k] => pc[p] \in ClearCommands
    BY <2>1 DEF Accounted, Owes, ClearCommands
  <2> QED  BY <2>1, <2>2
<1> QED  BY <1>1, <1>2, AccountedStep, AlwaysWellFormed, PTL DEF Spec

-----------------------------------------------------------------------------
(* How far overlapping creations can overbook a start time, where nobody   *)
(* updates.                                                                *)

RowsAt(d, t) ==
    {id \in DOMAIN reservations : reservations[id].date = d /\ reservations[id].time = t}

\* The calls whose capacity test has passed and whose save is still to come,
\* and the seats they will take.
AdmittedTo(d, t) == {p \in Proc : pc[p] = "save" /\ req[p].date = d /\ req[p].time = t}
Admitted(d, t)   == SeatsOf(req, AdmittedTo(d, t))

\* No party is larger than the restaurant.
Small ==
    /\ \A id \in DOMAIN reservations : reservations[id].guests <= TotalSeats
    /\ \A p \in Proc : pc[p] = "save" => req[p].guests <= TotalSeats

Sum(d, t) == Cardinality(Booked(d, t)) + Cardinality(Admitted(d, t))

\* The inductive invariant behind OverbookingBound: what is booked and what is
\* admitted stay within the bound together.
Capacity ==
    Small /\ \A d \in Dates, t \in Times : Sum(d, t) <= Cardinality(Proc) * TotalSeats

\* The rows of one start time are finitely many, and so are their seats.
LEMMA BookedFinite ==
    ASSUME WellFormed, Small, NEW S \in SUBSET DOMAIN reservations
    PROVE  /\ IsFiniteSet(SeatsOf(reservations, S))
           /\ Cardinality(SeatsOf(reservations, S)) \in Nat
<1>1. IsFiniteSet(1 .. nextId - 1)
  BY FS_Interval DEF WellFormed, TablesOK
<1>2. S \in SUBSET (1 .. nextId - 1)
  BY DEF WellFormed, TablesOK
<1>3. IsFiniteSet(S)
  BY <1>1, <1>2, FS_Subset
<1>4. \A id \in S : reservations[id].guests \in Nat /\ reservations[id].guests <= TotalSeats
  BY InputAssumption DEF WellFormed, TablesOK, Row, Small
<1> QED  BY <1>3, <1>4, SeatsBound, ConfigAssumption

\* The calls of S that wait for save take at most TotalSeats each.
LEMMA AdmittedBound ==
    ASSUME WellFormed, Small, NEW S \in SUBSET Proc, \A q \in S : pc[q] = "save"
    PROVE  /\ IsFiniteSet(SeatsOf(req, S))
           /\ Cardinality(SeatsOf(req, S)) \in Nat
           /\ Cardinality(SeatsOf(req, S)) <= Cardinality(S) * TotalSeats
<1>1. IsFiniteSet(S)
  BY FS_Subset, ProcAssumption
<1>2. \A q \in S : req[q].guests \in Nat /\ req[q].guests <= TotalSeats
  BY RequestKinds, InputAssumption DEF WellFormed, CallOK, Small
<1> QED  BY <1>1, <1>2, SeatsBound, ConfigAssumption

\* What the sum is made of.
LEMMA Sums ==
    ASSUME WellFormed, Small, NEW d, NEW t
    PROVE  /\ IsFiniteSet(SeatsOf(reservations, RowsAt(d, t)))
           /\ Cardinality(SeatsOf(reservations, RowsAt(d, t))) \in Nat
           /\ IsFiniteSet(SeatsOf(req, AdmittedTo(d, t)))
           /\ Cardinality(SeatsOf(req, AdmittedTo(d, t))) \in Nat
           /\ Sum(d, t) = Cardinality(SeatsOf(reservations, RowsAt(d, t)))
                          + Cardinality(SeatsOf(req, AdmittedTo(d, t)))
           /\ Cardinality(Proc) * TotalSeats \in Nat
<1>1. RowsAt(d, t) \in SUBSET DOMAIN reservations
  BY DEF RowsAt
<1>2. AdmittedTo(d, t) \in SUBSET Proc /\ \A q \in AdmittedTo(d, t) : pc[q] = "save"
  BY DEF AdmittedTo
<1>3. Cardinality(Proc) * TotalSeats \in Nat
  BY FS_CardinalityType, ProcAssumption, ConfigAssumption
<1>4. Sum(d, t) = Cardinality(SeatsOf(reservations, RowsAt(d, t)))
                  + Cardinality(SeatsOf(req, AdmittedTo(d, t)))
  BY DEF Sum, Booked, Admitted, RowsAt
<1> QED  BY <1>1, <1>2, <1>3, <1>4, BookedFinite, AdmittedBound

\* A step that adds no row and admits nobody keeps the bound.
LEMMA Shrink ==
    ASSUME WellFormed, Capacity,
           DOMAIN reservations' \subseteq DOMAIN reservations,
           \A id \in DOMAIN reservations' : reservations'[id] = reservations[id],
           \A q \in Proc : pc'[q] = "save" => pc[q] = "save" /\ req'[q] = req[q]
    PROVE  Capacity'
<1>1. Small'
  BY DEF Capacity, Small
<1>2. ASSUME NEW d \in Dates, NEW t \in Times
      PROVE  Sum(d, t)' <= Cardinality(Proc) * TotalSeats
  <2> DEFINE now == RowsAt(d, t)'
             adm == AdmittedTo(d, t)'
  <2>1. now \subseteq RowsAt(d, t) /\ \A id \in now : reservations'[id].guests = reservations[id].guests
    BY DEF RowsAt
  <2>2. adm \subseteq AdmittedTo(d, t) /\ \A q \in adm : req'[q].guests = req[q].guests
    BY DEF AdmittedTo
  <2> HIDE DEF now, adm
  <2>3. SeatsOf(reservations', now) = SeatsOf(reservations, now)
    BY <2>1, SeatsSame
  <2>4. SeatsOf(req', adm) = SeatsOf(req, adm)
    BY <2>2, SeatsSame
  <2>5. /\ IsFiniteSet(SeatsOf(reservations, RowsAt(d, t)))
        /\ Cardinality(SeatsOf(reservations, RowsAt(d, t))) \in Nat
        /\ IsFiniteSet(SeatsOf(req, AdmittedTo(d, t)))
        /\ Cardinality(SeatsOf(req, AdmittedTo(d, t))) \in Nat
        /\ Sum(d, t) = Cardinality(SeatsOf(reservations, RowsAt(d, t)))
                       + Cardinality(SeatsOf(req, AdmittedTo(d, t)))
        /\ Cardinality(Proc) * TotalSeats \in Nat
    BY Sums DEF Capacity
  <2>6. /\ Cardinality(SeatsOf(reservations, now)) <= Cardinality(SeatsOf(reservations, RowsAt(d, t)))
        /\ Cardinality(SeatsOf(reservations, now)) \in Nat
    BY <2>1, <2>5, SeatsMonotone, FS_CardinalityType
  <2>7. /\ Cardinality(SeatsOf(req, adm)) <= Cardinality(SeatsOf(req, AdmittedTo(d, t)))
        /\ Cardinality(SeatsOf(req, adm)) \in Nat
    BY <2>2, <2>5, SeatsMonotone, FS_CardinalityType
  <2>8. Sum(d, t)' = Cardinality(SeatsOf(reservations, now)) + Cardinality(SeatsOf(req, adm))
    <3>1. Sum(d, t)' = Cardinality(SeatsOf(reservations', now)) + Cardinality(SeatsOf(req', adm))
      BY DEF Sum, Booked, Admitted, RowsAt, now, adm
    <3> QED  BY <2>3, <2>4, <3>1, Zenon
  <2>9. Sum(d, t) <= Cardinality(Proc) * TotalSeats
    BY DEF Capacity
  <2> QED  BY <2>5, <2>6, <2>7, <2>8, <2>9
<1> QED  BY <1>1, <1>2 DEF Capacity

\* The test counts the rows of the requested start time, among others.
LEMMA FitsCounts ==
    ASSUME WellFormed, Small, NEW r \in CreateReqs, Fits(r)
    PROVE  Cardinality(SeatsOf(reservations, RowsAt(r.date, r.time))) + r.guests <= TotalSeats
<1> DEFINE day    == OnDate(r.date)
           start  == convertToMinutes(r.time)
           window == StartingIn(day, start, start + ReservationDuration)
           here   == RowsAt(r.date, r.time)
<1>1. r.date \in Dates /\ r.time \in Times /\ r.guests \in Nat
  BY RequestKinds, InputAssumption
<1>2. /\ DOMAIN day = {id \in DOMAIN reservations : reservations[id].date = r.date}
      /\ \A id \in DOMAIN day : day[id] = reservations[id]
  BY DEF OnDate
<1>3. start \in Nat /\ start < start + ReservationDuration
  BY <1>1, InputAssumption, ConfigAssumption DEF convertToMinutes
<1> HIDE DEF day
<1>4. window \in SUBSET DOMAIN reservations
  BY <1>2 DEF StartingIn
<1>5. here \subseteq window
  <2> HIDE DEF start
  <2>1. ASSUME NEW id \in here PROVE id \in DOMAIN day /\ day[id].time = r.time
    BY <1>2, <2>1 DEF RowsAt
  <2>2. ASSUME NEW id \in here PROVE id \in window
    <3>1. convertToMinutes(day[id].time) = start
      BY <2>1, <2>2 DEF start
    <3> QED  BY <1>3, <2>1, <2>2, <3>1 DEF StartingIn
  <2> QED  BY <2>2
<1>6. \A id \in window : day[id].guests = reservations[id].guests
  BY <1>2 DEF StartingIn
<1>7. Cardinality(SeatsOf(day, window)) + r.guests <= TotalSeats
  BY DEF Fits, isSlotAvailable, occupiedSeats, day
<1> HIDE DEF window, here
<1>8. SeatsOf(day, window) = SeatsOf(reservations, window)
  BY <1>6, SeatsSame
<1>9. /\ IsFiniteSet(SeatsOf(reservations, window))
      /\ Cardinality(SeatsOf(reservations, window)) \in Nat
  BY <1>4, BookedFinite
<1>10. /\ Cardinality(SeatsOf(reservations, here)) <= Cardinality(SeatsOf(reservations, window))
       /\ Cardinality(SeatsOf(reservations, here)) \in Nat
  BY <1>5, <1>9, SeatsMonotone, FS_CardinalityType
<1>11. Cardinality(SeatsOf(reservations, window)) + r.guests <= TotalSeats
  BY <1>7, <1>8, Zenon
<1>12. Cardinality(SeatsOf(reservations, here)) + r.guests <= TotalSeats
  BY <1>1, <1>9, <1>10, <1>11, ConfigAssumption
<1> QED  BY <1>12 DEF here

\* A call is admitted: whatever the others have been granted, they are one
\* fewer than all of them.
LEMMA AdmitCapacity ==
    ASSUME WellFormed, Capacity, NEW p \in Proc, CreateAdmit(p)
    PROVE  Capacity'
<1>1. /\ pc[p] = "findDay" /\ Fits(req[p]) /\ pc' = [pc EXCEPT ![p] = "save"]
      /\ UNCHANGED <<reservations, req>>
  BY DEF CreateAdmit, Goto, db
<1>2. req[p] \in CreateReqs /\ req[p].guests \in Nat
  BY <1>1, RequestKinds, InputAssumption DEF WellFormed, CallOK
<1> DEFINE d0 == req[p].date
           t0 == req[p].time
           n  == req[p].guests
<1>3. Cardinality(SeatsOf(reservations, RowsAt(d0, t0))) + n <= TotalSeats
  BY <1>1, <1>2, FitsCounts DEF Capacity
<1>4. /\ Cardinality(SeatsOf(reservations, RowsAt(d0, t0))) \in Nat
      /\ IsFiniteSet(SeatsOf(req, AdmittedTo(d0, t0)))
  BY Sums DEF Capacity
<1>5. n <= TotalSeats
  BY <1>2, <1>3, <1>4, ConfigAssumption
<1>6. Small'
  BY <1>1, <1>5 DEF Capacity, Small, WellFormed, LocalsOK
<1>7. ASSUME NEW d \in Dates, NEW t \in Times
      PROVE  Sum(d, t)' <= Cardinality(Proc) * TotalSeats
  <2>1. CASE d = d0 /\ t = t0
    <3> DEFINE before == AdmittedTo(d, t)
    <3>1. AdmittedTo(d, t)' = before \cup {p} /\ p \notin before
      BY <1>1, <2>1 DEF AdmittedTo, WellFormed, LocalsOK
    <3>2. before \in SUBSET (Proc \ {p}) /\ \A q \in before : pc[q] = "save"
      BY <3>1 DEF AdmittedTo
    <3> HIDE DEF before
    <3>3. IsFiniteSet(Proc \ {p}) /\ Cardinality(Proc \ {p}) = Cardinality(Proc) - 1
      BY ProcAssumption, FS_RemoveElement
    <3>4. /\ Cardinality(before) <= Cardinality(Proc) - 1
          /\ Cardinality(before) \in Nat /\ Cardinality(Proc) \in Nat
      BY <3>2, <3>3, ProcAssumption, FS_Subset, FS_CardinalityType
    <3>5. /\ Cardinality(SeatsOf(req, before)) <= Cardinality(before) * TotalSeats
          /\ Cardinality(SeatsOf(req, before)) \in Nat
          /\ IsFiniteSet(SeatsOf(req, before))
      BY <3>2, AdmittedBound DEF Capacity
    <3>6. Cardinality(before) * TotalSeats <= (Cardinality(Proc) - 1) * TotalSeats
      BY <3>4, ConfigAssumption
    <3>7. Cardinality(SeatsOf(req, before \cup {p})) = Cardinality(SeatsOf(req, before)) + n
      BY <1>2, <3>1, <3>5, SeatsAdd
    <3>8. Sum(d, t)' = Cardinality(SeatsOf(reservations, RowsAt(d, t)))
                         + Cardinality(SeatsOf(req, before \cup {p}))
      <4>1. Booked(d, t)' = SeatsOf(reservations, RowsAt(d, t))
        BY <1>1 DEF Booked, RowsAt
      <4>2. Admitted(d, t)' = SeatsOf(req, before \cup {p})
        BY <1>1, <3>1, Zenon DEF Admitted
      <4> QED  BY <4>1, <4>2, Zenon DEF Sum
    <3>9. n \in Nat
      BY <1>2
    <3> DEFINE booked == Cardinality(SeatsOf(reservations, RowsAt(d, t)))
               others == Cardinality(SeatsOf(req, before))
               most   == (Cardinality(Proc) - 1) * TotalSeats
    <3>10. most \in Int /\ most + TotalSeats = Cardinality(Proc) * TotalSeats
      BY <3>4, ConfigAssumption
    <3>11. others <= most
      BY <3>4, <3>5, <3>6, ConfigAssumption
    <3>12. Sum(d, t)' = booked + (others + n)
      BY <3>7, <3>8, Zenon
    <3>13. booked \in Nat /\ others \in Nat /\ booked + n <= TotalSeats
      BY <1>3, <1>4, <2>1, <3>5, Zenon
    <3> HIDE DEF n, booked, others, most
    <3>14. booked + (others + n) <= most + TotalSeats
      BY <3>9, <3>10, <3>11, <3>13, ConfigAssumption
    <3> QED  BY <3>10, <3>12, <3>14
  <2>2. CASE ~(d = d0 /\ t = t0)
    <3>1. AdmittedTo(d, t)' = AdmittedTo(d, t)
      BY <1>1, <2>2 DEF AdmittedTo, WellFormed, LocalsOK
    <3>2. Booked(d, t)' = Booked(d, t)
      BY <1>1 DEF Booked
    <3>3. Admitted(d, t)' = Admitted(d, t)
      BY <1>1, <3>1, Zenon DEF Admitted
    <3>4. Sum(d, t)' = Sum(d, t)
      BY <3>2, <3>3, Zenon DEF Sum
    <3> QED  BY <3>4 DEF Capacity
  <2> QED  BY <2>1, <2>2
<1> QED  BY <1>6, <1>7 DEF Capacity

\* An admitted call saves its row: the seats move from one side of the sum to
\* the other.
LEMMA SaveCapacity ==
    ASSUME WellFormed, Capacity, NEW p \in Proc, CreateSave(p)
    PROVE  Capacity'
<1> DEFINE row == [date |-> req[p].date, time |-> req[p].time,
                   guests |-> req[p].guests, customer |-> held[p].customer]
           n == req[p].guests
<1>1. /\ pc[p] = "save" /\ reservations' = Put(reservations, nextId, row)
      /\ pc' = [pc EXCEPT ![p] = "scan"] /\ UNCHANGED req
  BY DEF CreateSave, StartClear, Goto
<1>2. n \in Nat /\ n <= TotalSeats
  BY <1>1, RequestKinds, InputAssumption DEF WellFormed, CallOK, Capacity, Small
<1>3. row.date = req[p].date /\ row.time = req[p].time /\ row.guests = n
  OBVIOUS
<1> HIDE DEF row, n
<1>4. /\ DOMAIN reservations' = DOMAIN reservations \cup {nextId}
      /\ \A id \in DOMAIN reservations' :
           reservations'[id] = IF id = nextId THEN row ELSE reservations[id]
      /\ nextId \notin DOMAIN reservations
  BY <1>1 DEF Put, WellFormed, TablesOK
<1>5. Small'
  <2>1. \A q \in Proc : pc'[q] = "save" => req'[q].guests <= TotalSeats
    BY <1>1 DEF Capacity, Small, WellFormed, LocalsOK
  <2>2. \A id \in DOMAIN reservations' : reservations'[id].guests <= TotalSeats
    BY <1>2, <1>3, <1>4 DEF Capacity, Small
  <2> QED  BY <2>1, <2>2 DEF Small
<1>6. ASSUME NEW d \in Dates, NEW t \in Times
      PROVE  Sum(d, t)' <= Cardinality(Proc) * TotalSeats
  <2> DEFINE here    == RowsAt(d, t)
             waiting == AdmittedTo(d, t)'
  <2>1. \A id \in here : reservations'[id].guests = reservations[id].guests
    BY <1>4 DEF RowsAt
  <2>2. SeatsOf(reservations', here) = SeatsOf(reservations, here)
    BY <2>1, SeatsSame
  <2>3. /\ IsFiniteSet(SeatsOf(reservations, here))
        /\ Cardinality(SeatsOf(reservations, here)) \in Nat
        /\ IsFiniteSet(SeatsOf(req, AdmittedTo(d, t)))
        /\ Cardinality(SeatsOf(req, AdmittedTo(d, t))) \in Nat
        /\ Sum(d, t) = Cardinality(SeatsOf(reservations, here))
                       + Cardinality(SeatsOf(req, AdmittedTo(d, t)))
    BY Sums DEF Capacity
  <2>4. Sum(d, t)' = Cardinality(SeatsOf(reservations', RowsAt(d, t)'))
                     + Cardinality(SeatsOf(req, waiting))
    BY <1>1 DEF Sum, Booked, Admitted, RowsAt
  <2>5. Sum(d, t)' = Sum(d, t)
    <3>1. CASE d = req[p].date /\ t = req[p].time
      <4>1. RowsAt(d, t)' = here \cup {nextId} /\ nextId \notin here
        BY <1>3, <1>4, <3>1 DEF RowsAt
      <4>2. AdmittedTo(d, t) = waiting \cup {p} /\ p \notin waiting
        BY <1>1, <3>1 DEF AdmittedTo, WellFormed, LocalsOK
      <4>3. reservations'[nextId].guests = n
        BY <1>3, <1>4
      <4>4. req[p].guests = n
        BY DEF n
      <4> HIDE DEF here, waiting
      <4>5. IsFiniteSet(SeatsOf(req, waiting)) /\ Cardinality(SeatsOf(req, waiting)) \in Nat
        BY <2>3, <4>2, SeatsMonotone, FS_CardinalityType
      <4>6. Cardinality(SeatsOf(req, waiting \cup {p})) = Cardinality(SeatsOf(req, waiting)) + n
        BY <1>2, <4>2, <4>4, <4>5, SeatsAdd
      <4>7. IsFiniteSet(SeatsOf(reservations', here))
        BY <2>2, <2>3, Zenon
      <4>8. Cardinality(SeatsOf(reservations', here \cup {nextId}))
            = Cardinality(SeatsOf(reservations', here)) + n
        BY <1>2, <4>1, <4>3, <4>7, SeatsAdd
      <4>9. Sum(d, t)' = (Cardinality(SeatsOf(reservations, here)) + n)
                         + Cardinality(SeatsOf(req, waiting))
        BY <2>2, <2>4, <4>1, <4>8, Zenon
      <4>10. Sum(d, t) = Cardinality(SeatsOf(reservations, here))
                         + (Cardinality(SeatsOf(req, waiting)) + n)
        BY <2>3, <4>2, <4>6, Zenon
      <4> QED  BY <1>2, <2>3, <4>5, <4>9, <4>10
    <3>2. CASE ~(d = req[p].date /\ t = req[p].time)
      <4>1. RowsAt(d, t)' = here
        BY <1>3, <1>4, <3>2 DEF RowsAt
      <4>2. AdmittedTo(d, t) = waiting
        BY <1>1, <3>2 DEF AdmittedTo, WellFormed, LocalsOK
      <4> HIDE DEF here, waiting
      <4> QED  BY <2>2, <2>3, <2>4, <4>1, <4>2, Zenon
    <3> QED  BY <3>1, <3>2
  <2> QED  BY <2>5 DEF Capacity
<1> QED  BY <1>5, <1>6 DEF Capacity

\* Only CreateAdmit takes a call to save, and only from a request it keeps.
LEMMA SaveEntered ==
    ASSUME WellFormed, Next, NEW q \in Proc, pc'[q] = "save"
    PROVE  CreateAdmit(q) \/ (pc[q] = "save" /\ req'[q] = req[q])
<1>0. pc \in [Proc -> Commands \cup {"idle"}] /\ DOMAIN req = Proc
  BY DEF WellFormed, LocalsOK
<1> DEFINE Kept == CreateAdmit(q) \/ (pc[q] = "save" /\ req'[q] = req[q])
<1>1. ASSUME NEW p \in Proc, NEW c, pc' = [pc EXCEPT ![p] = c], c # "save",
             req' = req \/ \E r : req' = [req EXCEPT ![p] = r]
      PROVE  Kept
  BY <1>0, <1>1
<1>2. ASSUME NEW p \in Proc, NEW status, End(p, status) PROVE Kept
  BY <1>1, <1>2 DEF End, Goto
<1> HIDE DEF Kept
<1>3. ASSUME NEW p \in Proc, Receive(p) PROVE Kept
  <2>1. PICK r \in Requests : Goto(p, FirstCommand[r.op]) /\ req' = [req EXCEPT ![p] = r]
    BY <1>3 DEF Receive
  <2>2. FirstCommand[r.op] # "save"
    BY RequestKinds DEF Requests, ReadReqs, FirstCommand
  <2> QED  BY <1>1, <2>1, <2>2 DEF Goto
<1>4. ASSUME NEW p \in Proc, Create(p) PROVE Kept
  <2>1. CASE CreateAdmit(p)
    BY <1>0, <2>1 DEF CreateAdmit, Goto, Kept
  <2>2. CASE CreateFindCustomer(p) \/ CreateSaveCustomer(p) \/ CreateRefuse(p) \/ CreateSave(p)
    BY <1>1, <1>2, <2>2 DEF CreateFindCustomer, CreateSaveCustomer, CreateRefuse, CreateSave,
                            StartClear, Goto
  <2> QED  BY <1>4, <2>1, <2>2 DEF Create
<1>5. ASSUME NEW p \in Proc, Cancel(p) \/ Update(p) PROVE Kept
  BY <1>1, <1>2, <1>5 DEF Cancel, CancelDelete, CancelMissing, Update, UpdateFind,
                          UpdateMissing, UpdateSave, StartClear, Goto
<1>6. ASSUME NEW p \in Proc, Read(p) PROVE Kept
  BY <1>1, <1>2, <1>6 DEF Read, CacheHit, CacheMiss, CheckFind, ListGetMany, ListGetCount,
                          CacheSet, Goto
<1>7. ASSUME NEW p \in Proc, AfterPattern(p) PROVE Kept
  BY <1>1, <1>2, <1>7 DEF AfterPattern, Goto
<1>8. ASSUME NEW p \in Proc, Clear(p) PROVE Kept
  BY <1>1, <1>7, <1>8 DEF Clear, Scan, ScanEnd, ScanPage, ScanNothing, Del, Goto
<1>9. ASSUME NEW p \in Proc, Fail(p) PROVE Kept
  BY <1>2, <1>9 DEF Fail
<1>10. ASSUME NEW k \in Keys, Expire(k) PROVE Kept
  BY <1>10 DEF Expire, Kept
<1>11. CASE Crash
  BY <1>11 DEF Crash
<1> QED  BY <1>3, <1>4, <1>5, <1>6, <1>8, <1>9, <1>10, <1>11 DEF Next, Step, Kept

\* Every step keeps the bound where nobody updates.
LEMMA CapacityStep ==
    ASSUME "update" \notin Ops, WellFormed, OnlyOps, Capacity, [Next]_vars
    PROVE  Capacity'
<1>1. CASE UNCHANGED vars
  BY <1>1, Shrink DEF vars, db
<1>2. CASE Next
  <2>1. CASE \E p \in Proc : CreateAdmit(p)
    BY <2>1, AdmitCapacity
  <2>2. CASE \E p \in Proc : CreateSave(p)
    BY <2>2, SaveCapacity
  <2>3. CASE ~(\E p \in Proc : CreateAdmit(p)) /\ ~(\E p \in Proc : CreateSave(p))
    <3>1. \A q \in Proc : pc'[q] = "save" => pc[q] = "save" /\ req'[q] = req[q]
      BY <1>2, <2>3, SaveEntered
    <3>2. ASSUME NEW p \in Proc, UpdateSave(p) PROVE FALSE
      BY <3>2, RequestKinds DEF UpdateSave, WellFormed, CallOK, OnlyOps
    <3>3. UNCHANGED reservations \/ \E p \in Proc : CancelDelete(p)
      BY <1>2, <2>3, <3>2, TableWriters
    <3>4. /\ DOMAIN reservations' \subseteq DOMAIN reservations
          /\ \A id \in DOMAIN reservations' : reservations'[id] = reservations[id]
      BY <3>3 DEF CancelDelete, Drop
    <3> QED  BY <3>1, <3>4, Shrink
  <2> QED  BY <2>1, <2>2, <2>3
<1> QED  BY <1>1, <1>2

\* An empty table is within it.
LEMMA CapacityInit == Init => Capacity
<1> SUFFICES ASSUME Init PROVE Capacity
  OBVIOUS
<1>1. DOMAIN reservations = {} /\ \A p \in Proc : pc[p] = "idle"
  BY DEF Init
<1>2. Small
  BY <1>1 DEF Small
<1>3. ASSUME NEW d \in Dates, NEW t \in Times
      PROVE  Sum(d, t) <= Cardinality(Proc) * TotalSeats
  <2>1. Booked(d, t) = {} /\ Admitted(d, t) = {}
    <3>1. RowsAt(d, t) = {} /\ AdmittedTo(d, t) = {}
      BY <1>1 DEF RowsAt, AdmittedTo
    <3>2. \A f : SeatsOf(f, {}) = {}
      BY SeatsMember
    <3> QED  BY <3>1, <3>2 DEF Booked, Admitted, RowsAt
  <2>2. Sum(d, t) = 0
    BY <2>1, FS_EmptySet DEF Sum
  <2>3. Cardinality(Proc) * TotalSeats \in Nat
    BY FS_CardinalityType, ProcAssumption, ConfigAssumption
  <2> QED  BY <2>2, <2>3
<1> QED  BY <1>2, <1>3 DEF Capacity

\* However many creations overlap, and whatever cancellations, failures and
\* crashes come in between, a start time is never booked for more than
\* TotalSeats per call that can be in flight; with one call at a time, never
\* beyond TotalSeats.
THEOREM OverbookingBounded ==
    ASSUME "update" \notin Ops
    PROVE  Spec => []OverbookingBound
<1>1. WellFormed /\ Capacity => OverbookingBound
  <2> SUFFICES ASSUME WellFormed, Capacity, NEW d \in Dates, NEW t \in Times
               PROVE  Cardinality(Booked(d, t)) <= Cardinality(Proc) * TotalSeats
    BY DEF OverbookingBound
  <2>1. Booked(d, t) = SeatsOf(reservations, RowsAt(d, t))
    BY DEF Booked, RowsAt
  <2>2. /\ Cardinality(Booked(d, t)) \in Nat
        /\ Cardinality(SeatsOf(req, AdmittedTo(d, t))) \in Nat
        /\ Sum(d, t) = Cardinality(Booked(d, t)) + Cardinality(SeatsOf(req, AdmittedTo(d, t)))
        /\ Cardinality(Proc) * TotalSeats \in Nat
    BY <2>1, Sums DEF Capacity
  <2>3. Sum(d, t) <= Cardinality(Proc) * TotalSeats
    BY DEF Capacity
  <2> QED  BY <2>2, <2>3
<1>2. WellFormed /\ OnlyOps /\ Capacity /\ [Next]_vars => Capacity'
  BY CapacityStep
<1> QED  BY <1>1, <1>2, CapacityInit, AlwaysWellFormed, AlwaysOnlyOps, PTL DEF Spec
=============================================================================
