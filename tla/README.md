# A TLA+ model of the restaurant assistant

The repository has two parts. `src/backend` is a NestJS/GraphQL backend for table
reservations, with PostgreSQL (through TypeORM) for its tables and Redis as a cache.
`src/llm` is a vendored copy of llama.cpp, the language model server that the assistant is
to talk to; no code of the backend calls it at this commit. The models follow the state that is
shared between things that overlap:

* in the backend every handler is a chain of awaited commands with no lock and no
  transaction around it, so what goes wrong goes wrong between two awaits;
* in the language model server, HTTP threads and one main thread share two queues, a handful of
  slots and one KV cache, and what goes wrong is a task nobody takes up, a result
  nobody reads, or a context that is not what the client sent.

## 1. Inventory

| component | state | operations | hard behaviour | what makes it correct |
|---|---|---|---|---|
| reservation service (`reservations/reservation.service.ts`) | none of its own; reads and writes both tables and the cache | `createReservation`, `cancelReservation`, `updateReservation`, `checkAvailability`, `getReservations` | check-then-act on capacity and on the customer's name; cached answers against commits; update clears before it saves; errors half way | each call takes effect at most once and as asked; bounded overbooking; references that resolve; stale answers that are accounted for and end |
| redis service (`redis/redis.service.ts`) | the cache | `get`, `set` (with expiry), `scanAndDelete`, `clearReservationCache` | SCAN returns keys page by page while others add and delete | no key that is there throughout is missed; the loop ends |
| slot arithmetic (`utils/reservation.utils.ts`) | none | `isSlotAvailable`, `findNearestAvailableSlots`, `findAvailableSlots` | two kinds of window (exact, whole slots), loop bounds at both ends of the day, slots that are rounded quotients | the three agree about one table |
| time helpers (`utils/time.utils.ts`) | none | conversions, validation, parsing, rounding | carries across hours and midnight | round trips; nearest half hour |
| resolver and validation (`reservation.resolver.ts`, `dto/`, `validators/`) | none | one method per operation, behind a validation pipe | conditional validators | only meaningful requests reach the service |
| entities | tables `reservation`, `customer` | | generated ids; no unique name | |
| users and authentication (`user/`, `auth/`) | table `user`, signed tokens held by clients | `createUser`, `updateUser`, `login`, `logout` | check-then-insert, write-back of a whole row around a slow hash, tokens that outlive changes | unique names and emails, updates that last, tokens that name their user, logins with the right password only |
| task queues of the server (`server.cpp`: `server_queue`, `server_response`, handlers, `process_single_task`) | pending, deferred and waiting tasks; results; slot states | post, defer, pop, cancel, receive, terminate, the main loop | clients that hang up at any moment, cancels that overtake, failing launches and decodes, one main thread that sleeps | no task lost, doubled or stranded; every request answered; nothing left behind |
| context of a slot (`server.cpp`: `update_slots`) | `cache_tokens`, `n_past`, the slot's sequence in the KV cache | truncation, prefix and chunk reuse, batching, generation, context shift, drafts, save, restore, erase | a second account of the KV cache's content that must never disagree with it | the model sees the tokens it should, within the context |
| KV cache (`llama-kv-cache.cpp`, `llama_decode`) | cells with position, pending rotation and sequences; head, used | six sequence operations, search, store, rollback, rotation, defragmentation, loading | ring search, delayed rotation, moves with several holes open, partly failed batches | callers see a memory of sequences |
| configuration, wiring, migrations; the rest of llama.cpp | | | | not modelled (section 7) |

The resolver calls the service; the service calls the two repositories and the redis service and
computes with the two utility modules. Handlers interact only through the tables, the cache and the
tokens. In the server, handlers reach the main thread only through the two queues, the main thread
decides for each slot what to evaluate, and the slots share one KV cache, each as one sequence of it.
`PROJECT.json` lists the hazards by line.

## 2. Modules

| module | models |
|---|---|
| `TimeUtils` | `time.utils.ts`. A time string is the pair of numbers it spells; a date is a day and a minute |
| `Doubles` | JavaScript's numbers: binary floating point of `Precision` bits |
| `ReservationUtils` | `reservation.utils.ts`. A list of rows is a function from ids to rows; a slot is the double that a start minute divided by `slotDuration` is rounded to |
| `SlotSearch`, `MCSlotSearch` | one day's table and the three ways to ask it for room |
| `ReservationService` | the service, the tables, the redis service and the cache |
| `ReservationBook` | abstract: what the service promises about writes |
| `ReservationRefinement`, `MCReservationService` | the mapping of the service to the book; input sets of the runs |
| `UserAuth`, `MCUserAuth` | users, logins and tokens |
| `ServerTasks`, `MCServerTasks` | the task and response queues, the handlers, the main loop and the slot states |
| `SlotCache`, `MCSlotCache` | what one slot does with its tokens and its sequence in the KV cache |
| `KvCache`, `MCKvCache` | the KV cache and the steps of `llama_decode` on it |
| `SequenceMemory` | abstract: what the KV cache promises (`llama.h`) |
| `ReservationUtilsProofs` | proofs about `TimeUtils` and `ReservationUtils`, with counting lemmas |
| `SlotSearchProofs` | proofs about the searches over one day |
| `ReservationServiceProofs` | proofs about `ReservationService`: types, references, cancellation, staleness, capacity |
| `RefinementProofs` | proofs that the service implements the book, and that one client reads current data |
| `UserAuthProofs` | proofs about `UserAuth` |
| `ServerTasksProofs` | proofs about `ServerTasks`: lemmas on queues, types, the safety properties |
| `SlotCacheProofs` | proofs about `SlotCache`: types, the bounds of the context, logits, and what the cells hold |
| `KvCacheProofs` | proofs about `KvCache`: its count, its rotations, its search, and that it implements `SequenceMemory` |

The three server modules are layers: `ServerTasks` knows of a slot only whether it works and for
which task; `SlotCache` takes one slot and treats the others as room they leave in a batch; it uses the
KV cache as a sequence of tokens at positions, which is what `SequenceMemory` offers and
`KvCache` is shown to implement.

### ReservationService

`Proc` is the set of GraphQL calls that can be in flight at once. Each has a program
counter `pc[p]` that names the command it waits for; an action is the answer to that
command together with the code up to the next `await`. The tables are `reservations`
(id to row), `nextId` (its sequence) and `customers` (names in id order); `cache` maps
keys to the answers stored under them.

| code | actions |
|---|---|
| resolver method and validation pipe | `Receive` (the request sets are what validation lets through) |
| `createReservation` | `CreateFindCustomer`, `CreateSaveCustomer`, `CreateAdmit` or `CreateRefuse` (one `find`, then test and suggestions), `CreateSave`, then the clear |
| `cancelReservation` | `CancelDelete` and the clear, or `CancelMissing` |
| `updateReservation` | `UpdateFind` (with `Object.assign`), the clear, `UpdateSave`; or `UpdateMissing` |
| `checkAvailability`, `getReservations` | `CacheHit`, or `CacheMiss`, then `CheckFind`, or `ListGetMany` and `ListGetCount`, then `CacheSet` |
| `clearReservationCache`, `scanAndDelete` | `Scan` and `Del` per page, `AfterPattern` between the patterns and back to the caller |
| a rejected command and the `catch` blocks | `Fail` |
| the server stops and starts | `Crash` |
| the five-minute time to live | `Expire` |

*Redis SCAN* is modelled by its guarantee: a page is any set of matching keys in the
cache, and the last page may come only when every key that was there from the start of the
iteration, and was not removed meanwhile, has been returned. *TypeORM's `save`*
of a loaded entity writes all columns, and inserts the entity when the row is gone.

`blame` is a history variable, no part of the code: for each stored entry, the calls that changed
a table while it was stored and still have to remove it, or `"fill"` (a reader stored
an answer older than a write), `"update"` (saved after its clear), `"fault"` (whoever
owed the removal failed). It says *why* an entry may be stale; whether it *is* stale is
always decided by comparing it with what the tables answer (`Fresh`).

Abstractions: names, dates and times are members of small sets; a date is its rank
among strings; an answer is its content without wording; a time that prints a fraction has it as a third
component, and is refused by `isValidTimeString`. A field of an update that is
`null` makes the database refuse the save, which is a `Fail`. Rows are compared without
the customer's copy of the data that `getReservations` embeds, since customers never change.

**ReservationBook** is what a caller may expect of the writes: a call takes effect at most once, at one
moment between request and reply, on the book as it is then and under the name the caller gave; a
reply of success means it did, a refusal means it did not, an error leaves it open; a
reservation that exists can be cancelled and changed, and only its given fields change. The mapping
(`ReservationRefinement`) replaces customer ids by names; the moment of effect is the `save` or
`delete`, and a call is done while it clears the cache.

### UserAuth

One action per awaited query or `bcrypt` call: `createUser` is `CreateByName`,
`CreateByEmail`, `HashPassword`, `CreateSave`; `updateUser` is `UpdateFind` or `UpdateMissing`,
`HashPassword` if there is a password to hash, `UpdateSave` (of the whole row that was read); `login` is
`LoginFind`, `LoginCompare`; `logout` is the guard's verification (`Logout`) and its query (`LogoutFind`).
`Admits` is what the table's constraints let through; a refused row is a `Fail`, as
any failed query. A hash is equal to another if the passwords are. Ghosts: `intended` (the rows if every update had acted at
once), `raced` (rows that were written back stale), and in each call `stale` and `ever`.

### ServerTasks

An action is one section under `mutex_tasks` or `mutex_results`, or what the main thread does between two of
them. Handlers: `Submit` (ids drawn and registered), `Post`, `Receive`, `Hangup`, `Forget` and `CancelTasks`
(the two halves of `cancel_tasks`), `Leave`. A streaming client that httplib finds gone before it first calls the content
provider (`httplib.h:4727`) goes from `Post` to "gone": only `on_complete` runs (`server.cpp:3953`), which removes the ids from the waiting
list, cancels nothing and removes no result. The main thread: `StartLoop`, `Stop`, `process_single_task`
(`Defer`, `Launch`, `CancelRelease`, `ProcessNothing`, `Answer`) and `update_slots` (`UpdateIdle`,
`UpdateStart`, `ContextLimit`, `FillBatch`, `Reject`, `Decode`, `DecodeFail`, then `MorePrompt`, `Token`,
`Finish` or `FailSlot` for each slot of `round`). `Terminate` is the signal handler. Which idle slot
is chosen (by similarity or time of last use), which slots a LoRA adapter keeps out of a batch, how
many decodes a prompt takes and when a generation stops are free choices.

### SlotCache

`slot` holds the fields of `server_slot` that decide about tokens; `kv` is the slot's sequence.
`Launch`, `Cancel`, `SlotSave`, `SlotRestore`, `SlotRestoreFail`, `SlotErase` are tasks; a round of `update_slots`
is one of `RefusePrompt`, `Postpone`, `Prompt` (with truncation and reuse when it starts), `ContextLimit`,
`LeftOut`, `Generate`, and then `NoDraft` or `Speculate`. A context shift discards half of what is behind `n_keep`, or the client's
`n_discard`, which is any integer: one that is more than there is behind `n_keep` (`Overcut`) leaves cells in the KV cache beyond `n_past`, and
one that is negative or more than the cached tokens (`Unsafe`) ends the model (`ShiftFails`). `Decode` includes a decode that finds no room, is
repeated in smaller batches and stores tokens twice, or is given up. Ghosts: `seen`, the tokens the next one is
to be predicted from, and `dirty`, set when a decode failed and left tokens behind or a shift cut too much, until a request that
reuses nothing. Sampling is a free choice from `Vocab`.

### KvCache

The operators named as in the code (`find_slot`, `seq_rm`, `seq_cp`, `seq_keep`, `seq_add`, `seq_div`, `clear`)
map a cache to a cache; `update` is `llama_kv_cache_update`, with the pending rotation (`Shifted`) and the
defragmentation (`Defragged`), whose loops are stated as a matching of holes and last cells, cut off at
`MaxMoves` blocks. The search of `find_slot` is kept as its loop: `SearchRound` is one round, `Search` the
state after each number of rounds, and `MaxRounds` is more than it can need. `llama_decode` is `DecodeStart` and one `DecodeUbatch` per piece, or `DecodeNoSlot`, or
`DecodeComputeFail` with the rollback; `DecodeRefused` is a batch with an invalid token, which returns -1 before the pending
rotation is applied. `ret` is what the last call returned (-3 stands for every error after the start). A cell carries the identity of the token whose keys and values its
row of the tensors holds, the position the keys are rotated to, and, if the token was loaded from a file, the delta that the cell still
had then (`stray`, a ghost): `LoadSeq` may find a rotation pending, and the next update applies the old delta to the loaded keys.

**SequenceMemory** maps each token to a position and a set of sequences; cells, head, deltas and
fragmentation are gone, and each operation of `llama.h` is an assignment to this map. An evaluation is `Begin`, one `Store` per piece and a return
value: 0 after the last piece (`Store`: all new tokens are there and no old one is touched), 1 without room (`NoRoom`: the pieces before stay), -1 when it is refused
(`Refuse`: nothing happened), and -3 for a failure in the middle. Only the last one (`Fail`) may lose tokens; it does in the code (section 4).

## 3. Runs

Passing runs. Deadlock is checked for the backend's services and the KV cache: no combination of calls may block
them. `slotsearch` and the server's runs stop at their bounds, or when the server was told to stop.

| run | instance | shows |
|---|---|---|
| `booking` | 2 calls, create and cancel, 2 names, parties of 1 and 2 for 2 seats, 2 start times, faults | `ReferencesResolve`, `OverbookingBound`, `ImplementsReservationBook` |
| `serial` | 1 call, all operations, 2 names, filters, sorting, pages of one row | `ReadsAreCurrent`, `ImplementsReservationBook`, `TypeOK` |
| `liveness` | 2 calls, all operations, faults, fairness | `StaleExplained`, `CancelIsFinal`, `EveryCallEnds`, `EventuallyFresh` |
| `slotsearch` | every table of up to 3 rows, reservations of 1, 1½ and 2 slots, numbers of 13 bits | `SeatsAreGuests`, `SuggestionsBookable`, `RefusalIsTrue`, `RangeAgreesWithTime` |
| `users` | 3 calls, 2 users, conflicting names and emails, empty and missing fields, faults | `TypeOK`, `UsersDistinct`, `TokensResolve`, `UpdatesStick`, `LoginHonest` |
| `server_tasks` | 2 clients, 2 slots, 3 tasks of four kinds, no continuous batching, hang-ups, decode failures, signals | `TypeOK`, `OneSlotPerTask`, `NothingLost`, `OneFinalPerTask`, `LoopAwake` |
| `server_live` | 2 clients, 1 slot, 3 tasks, continuous batching, hang-ups, fairness | `NothingLeaks`, `NoneStranded`, `EveryRequestAnswered` |
| `kv_cache` | caches of 3 and of 4 cells, 2 sequences, 4 tokens, pieces of 2 | `UsedAccurate`, `RopeMatches`, `SearchComplete`, `ImplementsSequenceMemory` |
| `slot_cache` | 2 requests, context of 5, batches of 3, `n_discard` of 0, 3 and 9, drafts of 1, 3 tokens to predict | `TypeOK`, `ContextRight`, `WithinContext`, `LogitsExist` |

Runs that end in a violation, each of something the repository says of itself:

| run | says | what happens |
|---|---|---|
| `overlap` | a reservation takes several slots (`reservation.utils.ts:29`) | a party seated before the requested time is not counted; one caller, no race |
| `stranded` | "defer until one slot is available" (`server.cpp:1549`) | two tasks are deferred; the slot's release brings back one, which fails to launch or is a slot action and releases nothing; the other stays deferred beside an idle slot |
| `chunk_reuse` | "reuse chunks from the cached prompt by shifting their KV cache in the new position" (`server.cpp:3010`) | the second chunk is addressed by positions from before the first one's shift, and removes what it claims to reuse. The default, `n_cache_reuse` 0, is not affected |

### Bounds

`MaxRows` bounds the rows ever created, counting creations in flight, so that no call is
cut off by it. Two overlapping creations are enough for every race between two writers; `booking`
allows three rows, so that a cancelled id, a new one and an overbooked start time can be
there together. Slots of half a
day keep the two start times on the grid and let a reservation of two slots reach over the
next start. The runs of the backend use numbers of 13 significant bits in place of 53; 13 and 53 leave the same remainder modulo 4, the
period of thirds, fifths and fifteenths in binary, so that quotients are rounded to the same side and products are off where they are off in the
code. `slotsearch` has times on the grid, half a slot off it, and a sixth off it (07:00, which is not exact). Page order, failures and crashes are unbounded. In `users`, two users and three calls allow a
login across two updates and a creation that loses to two others.

`MaxTasks` bounds the ids drawn; three tasks on two slots (or one) leave one deferred while another is
cancelled. `MaxResults` stops decoding while so many results are unread, so that streams are finite; hang-ups and
failures are not bounded. In `kv_cache` a cache of three cells fills up, so that
batches fail in their first or second piece, and one of four has runs of two holes to defragment; two blocks to
move, where `MaxMoves` cuts off, take five cells and five tokens. The same properties hold
there for a single sequence (`Sizes = {5}`, `SeqId = {s1}`, `MaxTokens = 5`, `MaxPos = 4`, ranges `<<0, 1>>`, `<<2, 3>>`,
`<<1, Infinity>>`; 101 548 states); with two sequences the instance is too large for a run. `slot_cache` has the smallest context in
which `n_keep`, a discarded half and a new token are all non-empty; its prompts share a prefix, need several batches, or
exceed the context, and do not contain token 0 (see section 4). Its `n_discard` is left to the server, fits (3 of 3 tokens), cuts one token too many (3 of 2), or is more than all (a negative one takes the same step, `ShiftFails`; the proofs are for every integer). `Decode` fails again only when the traces of the last failure are gone.

`Proc`, `Client` and `SeqId` are symmetry sets in the safety runs; the liveness runs use none.

### Fairness

`ReservationService.FairSpec` assumes weak fairness of every call's next step (Redis and PostgreSQL answer or
reject; a rejection is a `Fail`, which the model does not force), strong fairness of the end of
a SCAN iteration (Redis returns cursor 0 after finitely many calls even when keys are
added, because the cursor runs through the buckets of the hash table) and weak fairness of
expiry (every `set` has a time to live of 300 seconds). `EventuallyFresh` does not need callers to stop reading: it
is stated for behaviours in which from some time on only reads are received.

`ServerTasks.FairSpec` assumes that the main thread and each handler's thread are scheduled, and strong fairness
of `Finish` for each slot: no generation is endless, because each decode consumes a token of a prompt and the
tokens of an answer are bounded by `n_predict`, the context or the model's training context. Hang-ups and new
requests are not forced.

## 4. What the checks say about the code

Backend:

* Creations and cancellations are atomic for their callers although nothing groups their commands
  (`ImplementsReservationBook`): a crash or a failed clear leaves an error for something that did
  happen, never half an effect on the book. Updates are, one at a time.
* Without updates, overlapping creations can overbook, but by at most one full house for each
  call in flight beyond the first, and with one call at a time not at all *per start time*. This says nothing about
  overlapping start times (`overlap`).
* A creation or cancellation that replied with success leaves no entry that is stale on its
  account. Stale entries have three other sources: a slow reader, an update, a failure
  after the commit. All of them end with the time to live.
* One client alone, with every operation but ambiguous queries, never sees a stale answer.
* Suggestions for an exact start can always be booked at once. A start is exact when its quotient by `slotDuration` is: on the grid, or off it by halves,
  quarters, ... of a slot. For other starts, the product `slot * slotDuration` is off by a few units in the last place and is printed so
  (with `slotDuration` 30, the slot after 00:01 is suggested as `00:31.000000000000004`), which `isValidTimeString` refuses. If a reservation does not last a
  whole number of slots, the search is stricter than the test: a refusal may then be
  premature, so `RefusalIsTrue` is stated for whole slots.
* A cancelled reservation stays cancelled, also with overlapping updates of it, unless one of them had read it before.
* The unique columns, not the two queries before the insert, keep users apart; a caller who loses the race gets the
  database's error in the place of a `ConflictException`.

Conditions above that are needed, each seen in TLC when it is dropped:

* *without updates*: an update is not tested against capacity (`reservation.service.ts:309`) and breaks
  `OverbookingBound` alone; two that overlap undo each other's fields (`:301`) and break `ImplementsReservationBook`;
* *unless an update had read it before*: `save` inserts a row that is gone (`:314`), so an update that overlaps the cancellation brings it back
  (`[][\A id \in 1 .. nextId - 1 : id \notin DOMAIN reservations => id \notin DOMAIN reservations']_vars` fails in `liveness`);
* *an update is a source of staleness*: it clears before it saves (`:312`), so a read in between caches the old row;
* *ambiguous queries*: a time and a range together pass validation (each field's `ValidateIf` switches off the
  validators of the other) and share the cache key of another range query (`:130`);
* two overlapping first reservations store their customer's name twice (`:213`); the rows still carry the right name.

Server:

* With hang-ups at any moment and decode failures, no task a handler still waits for is lost, and none is answered
  twice (`server_tasks`); without failing launches and slot actions every request is answered (`server_live`).
* A streaming client that is gone before the first part of its answer leaves in the response queue what has been sent by then, for good, and its task
  runs to its end for nobody (`:3953` cancels nothing); `NothingLeaks` says that this is all: afterwards nothing more is queued for it.
* `NothingLeaks` needs two conditions: the rerank handler (`server.cpp:4307`) never deregisters its ids, and after a
  decode failure idle slots send errors to the task they had last (`:3169`), one of which can arrive between the last
  result and the deregistration, which does not remove results (`:1699`).
* `cleanup_pending_task` (`:1647`) compares targets, not ids, so a cancelled task that is still queued runs anyway,
  for nobody. A task for a slot number that does not exist is deferred for as long as its client waits (`:2599`). A signal
  before `start_loop` is overwritten (`:1599`).
* A slot's account of the KV cache is right through reuse, truncation, shift, drafts, cancellation, save and
  restore (`ContextRight`), except with chunk reuse, with prompts that begin with token 0, after a decode that failed for lack of room, and after
  a shift by a client's `n_discard` that is more than there is behind `n_keep`: the code does not limit it (`:2840`). Such a shift still leaves the slot
  within its context (`WithinContext`); one by more than the cached tokens, or by a negative number, does not, or throws.
* After a prompt of several batches without `cache_prompt`, `cache_tokens` is as long as what was evaluated and all
  zeros (`server.cpp:3086`). A later prompt that begins with token 0 matches them and reuses cells that hold other tokens, against
  "reuse any previously computed tokens that are common with the new prompt" (`:3007`). TLC shows it with `chunk_reuse.cfg` after
  `Prompts <- WithZero`, `NCacheReuse = 0`, `NCtx = 6`, `NBatch = 3`. A vocabulary whose prompts begin with another token is not
  affected.
* Without context
  shift, the branch marked "we should never get here" (`:2831`) is reached: `process_token` stops one token later than this
  test.
* The KV cache's search is complete, its count exact, and no delayed rotation or move mixes up tokens
  (`kv_cache`). An evaluation that returns 0 loses no token. One that returns an error is not "restored to the state before this call"
  (`llama.h:862`, and `llama.cpp:8575`): the rollback passes cell numbers as positions (`llama-kv-cache.h:212`), so it removes tokens of
  other sequences and leaves some of its own, and a batch whose later piece finds no room keeps its first pieces (return value 1). TLC shows
  a token of another sequence lost, and the failed one kept, when `SequenceMemory.Fail` is asked for
  `\A t \in DOMAIN mem : mem[t].seqs \cap call.seqs = {} => t \in DOMAIN mem'`.
* A sequence loaded while a rotation is pending (`llama-context.cpp:1145`) is rotated by what was pending for the tokens before it in the same cells. The
  server gets there: a prompt with an invalid token id makes `llama_decode` return -1 (`llama.cpp:8462`) before it applies the context shift of
  `server.cpp:2845`, and a slot restore may follow. `RopeMatches` says how far off such a token is, and that no other is.

## 5. Proofs

TLAPS proves each of these for every value of the constants that the named assumptions of the
modules allow: any number of calls, clients, slots, tasks, users, rows and inputs. The assumptions say what
the code's types, configuration and validation guarantee (positive durations, valid times, at least one
guest, finitely many calls, `None` distinct from values); TLC evaluates them in every run.

| theorem | statement | under |
|---|---|---|
| `ReservationServiceProofs` `TypeCorrect` | `Spec => []TypeOK` | |
| `References` | `Spec => []ReferencesResolve` | |
| `CancelledForGood` | `Spec => CancelIsFinal` | |
| `StalenessAccounted` | `Spec => []StaleExplained` | |
| `OverbookingBounded` | `Spec => []OverbookingBound` | nobody updates |
| `RefinementProofs` `Implements` | `Spec => ImplementsReservationBook` | nobody updates, or calls do not overlap |
| `ReadsCurrent` | `Spec => ReadsAreCurrent` | calls do not overlap, no faults, no ambiguous queries |
| `SlotSearchProofs` `Sums`, `Suggestions`, `Refusal`, `RangeAndTime` | `Spec => []SeatsAreGuests`, `[]SuggestionsBookable`, `[]RefusalIsTrue`, `[]RangeAgreesWithTime` | `DoublesAssumption` |
| `ReservationUtilsProofs` `RoundsToNearest` | `roundToNearestHalfHour` yields a half hour at most 15 minutes away, across hours and midnight (only its own test calls it) | |
| `FormatsAndParses` | what `convertToTime` prints is a valid time and `parseTimeString` reads the same moment | |
| `UserAuthProofs` `TypeCorrect`, `Distinct`, `Resolve`, `Sticks`, `Honest` | `Spec => []TypeOK`, `[]UsersDistinct`, `[]TokensResolve`, `[]UpdatesStick`, `[]LoginHonest` | |
| `ServerTasksProofs` `TypeCorrect` | `Spec => []TypeOK` | |
| `Awake`, `Lossless`, `OneSlot`, `OneFinal` | `Spec => []LoopAwake`, `[]NothingLost`, `[]OneSlotPerTask`, `[]OneFinalPerTask` | |
| `NoLeaks` | `Spec => NothingLeaks` | no decode failures, no rerank requests |
| `Unstranded` | `Spec => []NoneStranded` | no slot actions, no failing launches, no unknown slot numbers |
| `KvCacheProofs` `CountIsAccurate`, `KeysAreRotated`, `SearchIsComplete` | `Spec => []UsedAccurate`, `[]RopeMatches`, `[]SearchComplete` | |
| `CacheImplementsMemory` | `Spec => ImplementsSequenceMemory` | |
| `SlotCacheProofs` `SlotTypes`, `StaysWithinContext`, `LogitsAlwaysExist` | `Spec => []TypeOK`, `[]WithinContext`, `[]LogitsExist` | |
| `ContextIsRight` | `Spec => []ContextRight` | no chunk reuse, token 0 in no prompt and never sampled |

Section 4 says for each of the conditions how the code breaks the property without it.

### Reservations

**WellFormed** is the inductive invariant of `TypeOK` and `ReferencesResolve`: it adds to the types what each
command may assume of its call's local variables (a creation about to save holds a
customer that exists; an update about to save holds a row and an id below `nextId`), since a row is written
from what a call remembered, not from the table. The lemma `StepOfOne` reduces a step of one call
to that call and the shared state. **OnlyOps** (a call in flight runs an operation in `Ops`) excludes
`UpdateSave` where nobody updates.

**Accounted** is the invariant of staleness: a call that is blamed for an entry *owes* its
removal. `Owes` says how: the pattern has not been scanned yet, or SCAN still has to return
the key, or it is in the page being deleted. A scan passes over no key it owes, and an entry nobody is blamed for is fresh.

**Capacity** counts, for a start time, the seats booked *and* the seats of calls that passed the
test and have not saved. `CreateAdmit` adds at most what the test left, and the other calls hold at most
`TotalSeats` each; `CreateSave` moves seats from one summand to the other; no other step adds
to either.

**RefInv** is what the mapping to `ReservationBook` needs: the customer a creation has found still bears the caller's
name (`NamesOK`); an update's row is still there and what it holds is that row with its changes
(`EntityOK`, which needs that nothing overlaps it); and there is an id for each creation in flight (`RoomOK`, the model's
bound). Each action is then a step of the book or a stutter (`NextMaps`).

**CurrentOK** is the invariant of one client's reads: outside `clearReservationCache` every entry is the
answer to *every* query with its key, inside it every entry is owed, and an update saves with the cache empty.
The hypothesis on queries is what makes a key determine its answer (`KeyDetermines`).

### Slots of a day

`SlotSearch` is proved for numbers of any precision of which `DoublesAssumption` holds: whole minutes and whole numbers of `Grains` of a slot are exact as far as the
loops reach, and different minutes have different slots. For an exact start (`Exact`) every value of the loop variable is then exact, and the proof
is about whole-slot arithmetic: the search's window, rounded up to whole slots,
covers the exact one (`WindowCovers`), so what it finds open is bookable; with whole slots the two are equal; the loops
run through all of the day, and of the range (`LoopsCoverDay`, `LoopCoversRange`). The nearest slots before and after are least
and greatest elements. Least elements come from the well-foundedness of strict inclusion on finite sets
(`FS_StrictSubsetOrderingWellFounded`, `WFMin`), since the induction theorems of the library cannot be instantiated here.
That the code's row-by-row sum counts seats (`SumIsSeats`) is shown by a least counterexample: the first round after which it would not.

### Users

The inductive invariant `IInv` adds to the types and the properties what each waiting call remembers: an update holds the
row of its user, which is the table's unless the call is marked `stale`, and its hash is that of its password; a login holds the
row of the user with its email, and if the password matches what it holds, it matched at some moment of the call (`ever`);
nobody can have changed the email in between, since a login, a token and an update hold users by id and `updateUser`
leaves emails alone. The constraints of the table (`Admits`), not the queries before the insert, carry `UsersDistinct`.

### Task queues

`ServerTasksProofs` has the lemmas on what the queue operations do to the *set* of tasks in a queue (`InOrder` and
`Kept` describe the erase loops), and the types. The safety proofs rest on these parts of one invariant:
`ShapeOK` (only tasks that need a slot are deferred, only tasks of requests get one), `AwakeOK` (the `NEXT_RESPONSE` task
is queued while `update_slots` works, which carries `LoopAwake`), `OwnedOK` (an id is drawn once, belongs to one handler at most, is not
used before its post, and is cancelled only when its handler is gone, which is why a cancel never takes a task somebody waits
for), `UniqueOK` (a task is in one place of queue, deferred tasks and slots), `RoundOK` (the slots of a batch work) and `EndsOK` (what is
sent last to a task is its end, but for the stray errors of a failed decode). `LeaksOK` adds that what is registered or
unread has an owner; `ServedOK`, that a deferred task has a working slot or a task before it that will get one.

### KV cache

**Sound** is the invariant of a cache that every function on caches keeps: a cell has a position if and only if it belongs to a
sequence, `used` counts those cells, keys and delta add up to the position, and without `has_shift` *no* cell has a delta.
The last part speaks of empty cells too, since an emptied cell keeps its delta and `Stored` does not reset it; `DecodeUbatch`
is sound because `update` has cleared `has_shift` and with it all deltas; `LoadSeq`, which nothing precedes, takes over the delta of the cell, and
`stray` keeps account of it.
**CacheInv** adds the batch in progress. Each function is first described cell by cell (`ErasedCells`, `AddedCells`, ...), and
the count follows from the cells that come or go.

*The search.* `SearchInv` says after k rounds which starting places are known to be taken (`Underway`): those from where the search began
up to `head`, and after the end of the ring the rest up to `head`. The count of tested cells grows in every second round at least
and is limited, so that the search is over after `MaxRounds` (`FindSlot`). That the recursive function of the rounds exists
(`SearchExists`) and that every round keeps the invariant is shown by least counterexamples, as the induction theorems of the
library cannot be instantiated here.

*The defragmentation.* There are as many holes below `used` as occupied cells above (`AsManyHoles`, which is where the count matters). A
hole's source is the cell with as many sources above it as there are holes filled before that hole (`FillOrder`,
`RankFromAbove`), so different holes have different sources (`SourceDistinct`) and no cell is lost, whatever `MaxMoves` cuts off.

*The refinement.* **MemInv** adds to `CacheInv` that the tokens of the occupied cells are distinct and that empty cells have
none (`Named`), and that the batch stays within the bounds of positions and tokens (`Fits`). `View` is the mapping for a single cache.
For each function on caches, the view of its result is the result of the abstract function on the view (`RemovedView`,
`CopiedView`, `KeptView`, `AddedView`, `DividedView`, `StoredView`, `RestoredView`); the rotation, the defragmentation and the
choice of `head` leave the view as it is (`ShiftedAlike`, `DefraggedAlike`, `CellsAlike`). `Followed` says of a step that it is one of the memory,
or a stutter.

### The context of a slot

**Bounded** is the invariant of types and bounds, and it holds with chunk reuse. It adds to the properties what the rounds hand on
to each other: a prompt that is worked on has tokens left and fits (`PromptOK`), `n_keep` has been limited when the prompt was
started (`KeepOK`, without which the server's own shift could discard nothing), a slot that generates has one cached token for each position
(`GeneratingOK`) and a slot in the draft phase has room for a draft (`PhaseOK`). The loop over the chunks
keeps `Chunked`: what it reuses is part of the prompt, and it moves chunks only towards the beginning, so that no position
leaves the context.

**Faithful** is the invariant of `ContextRight`. That property speaks only of a slot that works; between requests, the promise
that carries it over is `Agrees(cache, kv)`: for *every* n, when the first n cached tokens are all real, the cells below position n
are theirs. A request may then reuse any prefix. It is stated for the saved file too. A slot without `cache_prompt` keeps a cache of
zeros (what `resize` fills in), which promises nothing: this is why token 0 must not occur in a prompt.
`RemoveGap` says what `seq_rm` leaves when the cells removed are neighbours; from it follow the removal of a tail (`RemoveTail`)
and the context shift (`ShiftCells`); `CellsConcat` stores tokens behind others. Every kind of round
then comes down to `StoredFaithful`. That the recursive functions of `seq_rm` and of the loop over the chunks
exist is shown by least counterexamples again (`KeptExists`, `ChunksExist`).

### What is only model-checked

* The liveness properties (`EveryCallEnds`, `EventuallyFresh`, `EveryRequestAnswered`): fairness and `ENABLED` are outside this prover.
* `ContextRight` of `SlotCache` with chunk reuse is no theorem: run `chunk_reuse` shows how the code breaks it.

## 6. Running

In this directory: `tlc -config booking.cfg MCReservationService`, likewise `serial`, `liveness` and `overlap`;
`slotsearch` with `MCSlotSearch`, `users` with `MCUserAuth`, `server_tasks`, `server_live` and `stranded` with
`MCServerTasks`, `kv_cache` with `MCKvCache`, `slot_cache` and `chunk_reuse` with `MCSlotCache`. The proofs:
`tlapm ReservationUtilsProofs.tla`, and likewise the other modules that end in `Proofs`.

Definitions named `X_Y` and marked *Mutant* are deliberately wrong versions of the definition `X`, one
for each property, that must violate it; no specification uses them.

## 7. Not modelled

Backend:

* Fractions of a minute beyond `FractionBits` bits: smaller numbers are rounded to that.
* Several spellings of one date (`IsDateString` accepts times of day and offsets; the column
  is compared as a string).
* Strings that are not times where validation is skipped (a range's fields, a time that comes with a range), except an absent end.
* Pages or limits of zero or below, which the database rejects.
* Replies' wording, output types, logging.
* Eviction of Redis keys under memory pressure (it only removes entries, as `Expire` does).
* `UserService.validateUser`, `validateToken`, the local strategy and its guard, `RedisService.del`: nothing calls them. Nor does anything but its own
  test call `roundToNearestHalfHour`, which is modelled in `TimeUtils` and only proved about.
* Configuration and wiring. The migrations, except the constraints they create. (The trigger function of
  `1710875900000-CreateTimestampFunction.ts` assigns `NEW.updatedAt`, which PostgreSQL folds to lower case while the column is
  quoted; with `synchronize: true` and `migrationsRun: false` the function is not installed by the server.)

Server:

* Several slots in one KV cache at once, in one module: `SlotCache` has one slot, `KvCache` several sequences and
  no slots.
* LoRA adapters (any slot may be left out of a batch for them; a launch with others drops the cached tokens),
  the selection of slots by similarity, metrics, timings, probabilities, templates, tool calls.
* The first idle round, which clears the KV cache (`server.cpp:2809`), also after a task posted before it; what follows a shift by a negative `n_discard` or by
  more than the cached tokens (`:2840`, `ShiftFails`); saved files without cells (`llama-context.cpp:1176`) and files written while a rotation was
  pending (`:927` writes the keys as they are): a file's keys are taken to be at its positions.
* In `SlotCache`, the rollback of *another* slot's failed decode, which removes by cell number over all sequences and can take cells of this one
  (`llama-kv-cache.h:212`); `KvCache` has it.
* Recurrent models, whole-state files, debug views of the cache, encoder models.
* The rest of llama.cpp, most of its 250 000 lines: tensor kernels and back ends, graphs, model loading, tokenizers, samplers,
  grammars, the JSON and HTTP libraries, tools. This is numeric code, parsing and I/O of a vendored library: it has no
  steps that interleave with others, and what it computes is out of reach of both tools.

## 8. Plan

Done, in this order: `TimeUtils`, `ReservationUtils`, `ReservationService` and its proofs; `UserAuth`; `ServerTasks`,
`KvCache`, `SlotCache`; `ReservationBook`; the proofs about `UserAuth`, `ServerTasks`, `SlotSearch`, the refinement of
`ReservationBook`, `KvCache` with its refinement of `SequenceMemory`, and `SlotCache`.

Every invariant and every action property that a passing run checks is now a theorem too, under the conditions of section 5. Left:

1. The conditions of `OverbookingBounded` and `Implements` (nobody updates, or calls do not overlap) could be narrowed to the
   reservations that no update touches.
2. A `ContextRight` that says what the cells hold after a shift that cut too much, in place of the exception for it.
