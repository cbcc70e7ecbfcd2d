----------------------------- MODULE ServerTasks -----------------------------
(***************************************************************************)
(* The task queue, the response queue and the slots of the language model  *)
(* server (src/llm/llama.cpp/examples/server/server.cpp).                  *)
(*                                                                         *)
(* HTTP handlers run in threads of their own (Client); one main thread     *)
(* runs start_loop.  They share server_queue under mutex_tasks and         *)
(* server_response under mutex_results.  An action is one section under a  *)
(* mutex, with these exceptions, which no other thread can tell apart: ids *)
(* are drawn together with their registration, a task is taken from the    *)
(* queue together with what process_single_task does to it, and a slot is  *)
(* released together with the result it sends.                             *)
(*                                                                         *)
(* Prompts, tokens and times are left out: which idle slot a task gets,    *)
(* how many decodes a prompt takes and when a generation stops are free    *)
(* choices.  Cancel and NEXT_RESPONSE tasks draw ids as well, which        *)
(* nothing ever looks at; they have none here.                             *)
(***************************************************************************)
EXTENDS Integers, SequencesExt

CONSTANTS
    Client,        \* HTTP threads
    Slot,          \* slot numbers, in the order of the vector
    MaxTasks,      \* bound: the tasks ever created for requests
    Requests,      \* what clients ask for, see AllRequests
    MaxResults,    \* bound: unread results up to which decoding goes on
    ContBatching,  \* --cont-batching
    Hangups,       \* whether clients may close their connection
    Faults,        \* whether llama_decode may fail for good
    Signals,       \* whether SIGINT or SIGTERM may arrive
    None           \* the id -1

ASSUME SlotAssumption == Slot \subseteq Nat /\ IsFiniteSet(Slot) /\ Slot # {}
ASSUME TaskAssumption == MaxTasks \in Nat /\ None \notin Nat

\* Requests that occupy slots, one task for each prompt, and the others.
SlotTypes  == {"completion", "embedding", "rerank"}
OtherTypes == {"metrics", "action"}

\* stream: results are sent token by token.  slot: the slot asked for, None
\* for any.  bad: the grammar of the request does not parse.
AllRequests == [type : SlotTypes \cup OtherTypes, prompts : Nat \ {0}, stream : BOOLEAN,
                slot : Int \cup {None}, bad : BOOLEAN]

ASSUME RequestAssumption == Requests \subseteq AllRequests

VARIABLES
    queue, deferred,   \* server_queue: queue_tasks, queue_tasks_deferred
    running, nextId,   \* server_queue: running, id
    waiting, results,  \* server_response: waiting_task_ids, queue_results
    state, job,        \* the slots: state, and the task launched last
    loop,              \* where the main thread is
    round,             \* the slots update_slots has still to go through
    at, req, ids,      \* where each client is, its request and its task ids
    got, count         \* the tasks it has final results of, and their number

tasks   == <<queue, deferred>>
replies == <<waiting, results>>
slots   == <<state, job>>
main    == <<loop, round>>
clients == <<at, req, ids, got, count>>
vars    == <<tasks, running, nextId, replies, slots, main, clients>>

-----------------------------------------------------------------------------
(* Tasks and results.                                                      *)

NoTask == [type |-> "none", id |-> None, target |-> None, slot |-> None,
           bad |-> FALSE, stream |-> FALSE]

TaskOf(r, t)  == [NoTask EXCEPT !.type = r.type, !.id = t, !.slot = r.slot, !.bad = r.bad,
                                !.stream = r.stream]
CancelOf(t)   == [NoTask EXCEPT !.type = "cancel", !.target = t]
NextResponse  == [NoTask EXCEPT !.type = "next"]

Result(t, kind) == [id |-> t, kind |-> kind]

TaskId == 1 .. MaxTasks

\* The numbers of I in their order, and the elements of q at the places in I.
\* (SetToSortSeq and SelectSeq say the same in ways the provers cannot use.)
InOrder(I) ==
    [n \in 1 .. Cardinality(I) |-> CHOOSE i \in I : Cardinality({j \in I : j <= i}) = n]
Kept(q, I) == [n \in 1 .. Cardinality(I) |-> q[InOrder(I)[n]]]

-----------------------------------------------------------------------------
(* server_queue.                                                           *)

\* cleanup_pending_task compares the id_target of the pending tasks.
Cleaned(q, I) == Kept(q, {i \in DOMAIN q : q[i].target = None \/ q[i].target \notin I})

\* Mutant: the deferred tasks stay where they are.
PopDeferred_Not(q) == queue' = q /\ UNCHANGED deferred

\* Mutant: the task is copied to the queue and stays deferred.
PopDeferred_Copy(q) ==
    /\ queue' = IF deferred = <<>> THEN q ELSE Append(q, Head(deferred))
    /\ UNCHANGED deferred

\* pop_deferred_task, where q is what the queue holds otherwise.
PopDeferred(q) ==
    IF deferred = <<>> THEN queue' = q /\ UNCHANGED deferred
    ELSE queue' = Append(q, Head(deferred)) /\ deferred' = Tail(deferred)

-----------------------------------------------------------------------------
(* server_response.                                                        *)

\* Mutant: a result is queued whether or not its task is waited for.
Send_Always(seq) == results' = results \o seq

\* send: what nobody waits for is dropped.
Send(seq) == results' = results \o Kept(seq, {i \in DOMAIN seq : seq[i].id \in waiting})

\* remove_waiting_task_id drops the results as well; remove_waiting_task_ids
\* does not.
Unread(I) == Kept(results, {i \in DOMAIN results : results[i].id \notin I})

\* The results of client c that recv and recv_with_timeout may return.
Mine(c) == {i \in DOMAIN results : results[i].id \in ids[c]}

-----------------------------------------------------------------------------
(* The HTTP handlers.                                                      *)

OneShot(c) == req[c].type \in OtherTypes

\* The ids of the request's tasks are drawn (get_new_id) and registered.
Submit(c) ==
    /\ at[c] = "idle"
    /\ \E r \in Requests :
        /\ nextId + r.prompts <= MaxTasks + 1
        /\ nextId' = nextId + r.prompts
        /\ req' = [req EXCEPT ![c] = r]
        /\ ids' = [ids EXCEPT ![c] = nextId .. nextId' - 1]
        /\ waiting' = waiting \cup ids'[c]
    /\ at' = [at EXCEPT ![c] = "post"]
    /\ UNCHANGED <<tasks, running, results, slots, main, got, count>>

Streams(c) == req[c].type = "completion" /\ req[c].stream

\* post: metrics go to the front of the queue, the others to its end.  The
\* answer to a streaming client that is gone before httplib asks for the first
\* part of it is never received ("gone").
Post(c) ==
    LET new == [i \in 1 .. Cardinality(ids[c]) |-> TaskOf(req[c], InOrder(ids[c])[i])]
    IN  /\ at[c] = "post"
        /\ queue' = IF req[c].type = "metrics" THEN new \o queue ELSE queue \o new
        /\ \E place \in {"recv"} \cup (IF Hangups /\ Streams(c) THEN {"gone"} ELSE {}) :
             at' = [at EXCEPT ![c] = place]
        /\ UNCHANGED <<deferred, running, nextId, replies, slots, main, req, ids, got, count>>

\* receive_multi_results and receive_cmpl_results_stream: an error ends the
\* request, and so does the last of the final results.  recv of the other
\* handlers: the first result is the answer.
Receive(c) ==
    /\ at[c] = "recv" /\ Mine(c) # {}
    /\ LET i == Min(Mine(c))
           r == results[i]
       IN  /\ results' = RemoveAt(results, i)
           /\ IF r.kind = "final"
              THEN got' = [got EXCEPT ![c] = @ \cup {r.id}] /\ count' = [count EXCEPT ![c] = @ + 1]
              ELSE UNCHANGED <<got, count>>
           /\ at' = [at EXCEPT ![c] =
                       IF OneShot(c) THEN "leave"
                       ELSE IF r.kind = "error" THEN "forget"
                       ELSE IF count'[c] = req[c].prompts THEN "leave" ELSE "recv"]
    /\ UNCHANGED <<tasks, running, nextId, waiting, slots, main, req, ids>>

\* The connection is found closed: after a result, which is dropped, after a
\* timeout of recv_with_timeout, or when a streamed result cannot be written.
Hangup(c) ==
    /\ Hangups /\ at[c] = "recv" /\ ~OneShot(c)
    /\ at' = [at EXCEPT ![c] = "forget"]
    /\ UNCHANGED <<tasks, running, nextId, replies, slots, main, req, ids, got, count>>

\* cancel_tasks: first every id leaves the waiting list ...
Forget(c) ==
    /\ at[c] = "forget"
    /\ waiting' = waiting \ ids[c]
    /\ results' = Unread(ids[c])
    /\ at' = [at EXCEPT ![c] = "cancel"]
    /\ UNCHANGED <<tasks, running, nextId, slots, main, req, ids, got, count>>

\* The handler's local variables are gone.
Return(c) ==
    /\ at' = [at EXCEPT ![c] = "idle"]
    /\ req' = [req EXCEPT ![c] = None]
    /\ ids' = [ids EXCEPT ![c] = {}]
    /\ got' = [got EXCEPT ![c] = {}] /\ count' = [count EXCEPT ![c] = 0]

\* ... then the cancel tasks are put in front of the queue, in one post, and
\* the handler returns: its ids are not registered any more.
CancelTasks(c) ==
    LET cancels == [i \in 1 .. Cardinality(ids[c]) |-> CancelOf(InOrder(ids[c])[i])]
    IN  /\ at[c] = "cancel"
        /\ queue' = Reverse(cancels) \o Cleaned(queue, ids[c])
        /\ deferred' = Cleaned(deferred, ids[c])
        /\ Return(c)
        /\ UNCHANGED <<running, nextId, replies, slots, main>>

\* Mutant: the handler ends without deregistering its ids.
Leave_Registered(c) ==
    /\ at[c] \in {"leave", "gone"}
    /\ Return(c)
    /\ UNCHANGED <<tasks, running, nextId, replies, slots, main>>

\* The handler returns.  The rerank handler does not deregister its ids.  For a
\* streaming client this is on_complete, which is all that runs when the client
\* is gone: the tasks go on, and results they have sent stay.
Leave(c) ==
    /\ at[c] \in {"leave", "gone"}
    /\ waiting' = IF req[c].type = "rerank" THEN waiting ELSE waiting \ ids[c]
    /\ results' = IF OneShot(c) THEN Unread(ids[c]) ELSE results
    /\ Return(c)
    /\ UNCHANGED <<tasks, running, nextId, slots, main>>

-----------------------------------------------------------------------------
(* start_loop.                                                             *)

Goto(place) == loop' = place

\* running = true, whatever a signal has stored there before.
StartLoop ==
    /\ loop = "start"
    /\ running' = TRUE
    /\ Goto("pop")
    /\ UNCHANGED <<tasks, nextId, replies, slots, round, clients>>

\* The first task of the queue is taken, by the inner loop or after the wait on
\* condition_tasks.
Task == Head(queue)
Rest == Tail(queue)
Takes(types) == loop \in {"pop", "wait"} /\ running /\ queue # <<>> /\ Task.type \in types
Done == Goto("pop") /\ UNCHANGED <<running, nextId, waiting, round, clients>>

Stop ==
    /\ loop \in {"pop", "wait"} /\ ~running
    /\ Goto("stopped")
    /\ UNCHANGED <<tasks, running, nextId, replies, slots, round, clients>>

\* The signal handler calls terminate.
Terminate ==
    /\ Signals
    /\ running' = FALSE
    /\ UNCHANGED <<tasks, nextId, replies, slots, main, clients>>

-----------------------------------------------------------------------------
(* process_single_task.                                                    *)

Processing == {s \in Slot : state[s] # "idle"}

\* get_slot_by_id or get_available_slot.  The similarity of prompts and the
\* times of last use are left out: any idle slot may be the one.
Available == IF Task.slot = None THEN Slot \ Processing
             ELSE (Slot \cap {Task.slot}) \ Processing

\* No slot, or the one asked for is busy or does not exist; likewise for
\* SLOT_SAVE, SLOT_RESTORE and SLOT_ERASE of a slot that is processing.
Defer ==
    /\ \/ Takes(SlotTypes) /\ Available = {}
       \/ Takes({"action"}) /\ Task.slot \in Processing
    /\ queue' = Rest /\ deferred' = Append(deferred, Task)
    /\ Done
    /\ UNCHANGED <<results, slots>>

\* Mutant: a slot that is still busy may be chosen.
Launch_Busy(s) ==
    /\ Takes(SlotTypes)
    /\ queue' = Rest
    /\ job' = [job EXCEPT ![s] = Task]
    /\ state' = [state EXCEPT ![s] = "started"]
    /\ Done
    /\ UNCHANGED <<deferred, results>>

\* launch_slot_with_task.  When the grammar does not parse, the slot stays
\* idle and keeps the id of the task.
Launch(s) ==
    /\ Takes(SlotTypes) /\ s \in Available
    /\ queue' = Rest
    /\ job' = [job EXCEPT ![s] = Task]
    /\ IF Task.bad
       THEN Send(<<Result(Task.id, "error")>>) /\ UNCHANGED state
       ELSE state' = [state EXCEPT ![s] = "started"] /\ UNCHANGED results
    /\ Done
    /\ UNCHANGED deferred

\* The slots whose id_task is the target of the cancel task.
Targeted == {s \in Slot : job[s].id = Task.target}

\* The first such slot is released if it is processing.
CancelRelease ==
    /\ Takes({"cancel"}) /\ Targeted # {}
    /\ LET s == Min(Targeted)
       IN  IF state[s] # "idle"
           THEN state' = [state EXCEPT ![s] = "idle"] /\ PopDeferred(Rest)
           ELSE queue' = Rest /\ UNCHANGED <<state, deferred>>
    /\ Done
    /\ UNCHANGED <<results, job>>

\* A cancel task without a slot, and NEXT_RESPONSE.
ProcessNothing ==
    /\ \/ Takes({"cancel"}) /\ Targeted = {}
       \/ Takes({"next"})
    /\ queue' = Rest
    /\ Done
    /\ UNCHANGED <<deferred, results, slots>>

\* METRICS, and a slot action on an idle slot or one that does not exist.
Answer ==
    /\ \/ Takes({"metrics"})
       \/ Takes({"action"}) /\ Task.slot \notin Processing
    /\ queue' = Rest
    /\ \E kind \in {"final", "error"} : Send(<<Result(Task.id, kind)>>)
    /\ Done
    /\ UNCHANGED <<deferred, slots>>

-----------------------------------------------------------------------------
(* update_slots, when the inner loop has found the queue empty.            *)

Updates == loop = "pop" /\ running /\ queue = <<>>

UpdateIdle ==
    /\ Updates /\ Processing = {}
    /\ Goto("wait")
    /\ UNCHANGED <<tasks, running, nextId, replies, slots, round, clients>>

Generating  == {s \in Slot : state[s] = "generating"}
NonCausal(s) == job[s].type \in {"embedding", "rerank"}

\* Mutant: NEXT_RESPONSE is posted only when a slot is generating.
UpdateStart_Prompts ==
    /\ Updates /\ Processing # {}
    /\ queue' = IF Generating # {} THEN Append(queue, NextResponse) ELSE queue
    /\ Goto("shift")
    /\ UNCHANGED <<deferred, running, nextId, replies, slots, round, clients>>

\* NEXT_RESPONSE keeps the loop going.
UpdateStart ==
    /\ Updates /\ Processing # {}
    /\ queue' = Append(queue, NextResponse)
    /\ Goto("shift")
    /\ UNCHANGED <<deferred, running, nextId, replies, slots, round, clients>>

\* The context of the slot is full and may not be shifted.
ContextLimit(s) ==
    /\ loop = "shift" /\ state[s] \in {"prompt", "generating"}
    /\ state' = [state EXCEPT ![s] = "idle"]
    /\ PopDeferred(queue)
    /\ Send(<<Result(job[s].id, "error")>>)
    /\ UNCHANGED <<running, nextId, waiting, job, main, clients>>

\* The first slot of the batch, and the slots it can share the batch with as
\* far as their tasks are concerned.
Lead == Min(IF Generating # {} THEN Generating ELSE Processing)
Batch ==
    {s \in Processing :
        /\ NonCausal(s) = NonCausal(Lead)
        /\ s \in Generating \/ ContBatching \/ Generating = {}}

\* Slots with other LoRA adapters than the first one's are left out; adapters
\* are not modelled, so any of the others may be.
FillBatch ==
    /\ loop = "shift"
    /\ round' \in {B \in SUBSET Batch : Processing # {} => Lead \in B}
    /\ Goto("prompts")
    /\ UNCHANGED <<tasks, running, nextId, replies, slots, clients>>

\* A new prompt that is empty, or too large for the context or the batch.
Reject(s) ==
    /\ loop = "prompts" /\ s \in round /\ state[s] = "started"
    /\ state' = [state EXCEPT ![s] = "idle"]
    /\ PopDeferred(queue)
    /\ \E kind \in {"final", "error"} : Send(<<Result(job[s].id, kind)>>)
    /\ round' = round \ {s}
    /\ UNCHANGED <<running, nextId, waiting, job, loop, clients>>

\* llama_decode on the whole batch; an empty one is not decoded.
Decode ==
    /\ loop = "prompts"
    /\ Goto(IF round = {} THEN "wait" ELSE "sample")
    /\ UNCHANGED <<tasks, running, nextId, replies, slots, round, clients>>

\* It fails for good, perhaps after retries with smaller batches that served
\* some slots: every slot is released, in order, and the task it had last is
\* sent an error, also by the slots that were idle.
DecodeFail ==
    /\ Faults /\ loop \in {"prompts", "sample"} /\ round # {} /\ Len(results) < MaxResults
    /\ Goto("fail") /\ round' = Slot
    /\ UNCHANGED <<tasks, running, nextId, replies, slots, clients>>

\* The slots are sampled in the order of their tokens in the batch, and failed
\* in their own order.
Turn(s, place) == loop = place /\ s \in round /\ (place = "fail" => s = Min(round))

\* On to the next slot, or to the wait.
Advance(s) ==
    /\ round' = round \ {s}
    /\ Goto(IF round = {s} THEN "wait" ELSE loop)

FailSlot(s) ==
    /\ Turn(s, "fail")
    /\ state' = [state EXCEPT ![s] = "idle"]
    /\ IF state[s] # "idle" THEN PopDeferred(queue) ELSE UNCHANGED tasks
    /\ Send(<<Result(job[s].id, "error")>>)
    /\ Advance(s)
    /\ UNCHANGED <<running, nextId, waiting, job, clients>>

\* Part of the prompt, or none of it, was in the batch.
MorePrompt(s) ==
    /\ Turn(s, "sample") /\ state[s] # "generating"
    /\ \E next \in {state[s], "prompt"} : state' = [state EXCEPT ![s] = next]
    /\ Advance(s)
    /\ UNCHANGED <<tasks, running, nextId, replies, job, clients>>

Partial(s) == IF job[s].stream THEN <<Result(job[s].id, "partial")>> ELSE <<>>

\* A token is sampled and the generation goes on.
Token(s) ==
    /\ Turn(s, "sample") /\ ~NonCausal(s) /\ Len(results) < MaxResults
    /\ state' = [state EXCEPT ![s] = "generating"]
    /\ Send(Partial(s))
    /\ Advance(s)
    /\ UNCHANGED <<tasks, running, nextId, waiting, job, clients>>

\* Mutant: the slot is not released when its task is finished.
Finish_Kept(s) ==
    /\ Turn(s, "sample")
    /\ Send(Partial(s) \o <<Result(job[s].id, "final")>>)
    /\ Advance(s)
    /\ UNCHANGED <<tasks, running, nextId, waiting, state, job, clients>>

\* The embedding, the score or the last token of the task.
Finish(s) ==
    /\ Turn(s, "sample")
    /\ state' = [state EXCEPT ![s] = "idle"]
    /\ PopDeferred(queue)
    /\ Send(Partial(s) \o <<Result(job[s].id, "final")>>)
    /\ Advance(s)
    /\ UNCHANGED <<running, nextId, waiting, job, clients>>

-----------------------------------------------------------------------------
Handle(c) == Post(c) \/ Receive(c) \/ Forget(c) \/ CancelTasks(c) \/ Leave(c)

Process == \/ Defer \/ CancelRelease \/ ProcessNothing \/ Answer
           \/ \E s \in Slot : Launch(s)

Update == \/ UpdateIdle \/ UpdateStart \/ FillBatch \/ Decode \/ DecodeFail
          \/ \E s \in Slot : \/ ContextLimit(s) \/ Reject(s) \/ FailSlot(s) \/ MorePrompt(s)
                             \/ Token(s) \/ Finish(s)

MainLoop == StartLoop \/ Stop \/ Process \/ Update

Init ==
    /\ queue = <<>> /\ deferred = <<>> /\ running = FALSE /\ nextId = 1
    /\ waiting = {} /\ results = <<>>
    /\ state = [s \in Slot |-> "idle"] /\ job = [s \in Slot |-> NoTask]
    /\ loop = "start" /\ round = {}
    /\ at = [c \in Client |-> "idle"] /\ req = [c \in Client |-> None]
    /\ ids = [c \in Client |-> {}] /\ got = [c \in Client |-> {}]
    /\ count = [c \in Client |-> 0]

Next == \/ MainLoop \/ Terminate
        \/ \E c \in Client : Submit(c) \/ Hangup(c) \/ Handle(c)

Spec == Init /\ [][Next]_vars

\* Both kinds of threads are scheduled, and no generation is endless: a decode
\* consumes at least one token of a prompt, and n_predict, the context and the
\* training context bound the tokens of an answer.
FairSpec ==
    /\ Spec /\ WF_vars(MainLoop)
    /\ \A c \in Client : WF_vars(Handle(c))
    /\ \A s \in Slot : SF_vars(Finish(s))

-----------------------------------------------------------------------------
(* Properties.                                                             *)

Tasks == [type : SlotTypes \cup OtherTypes \cup {"none", "cancel", "next"},
          id : TaskId \cup {None}, target : TaskId \cup {None}, slot : Int \cup {None},
          bad : BOOLEAN, stream : BOOLEAN]

\* The type invariant.
TypeOK ==
    /\ queue \in Seq(Tasks) /\ deferred \in Seq(Tasks) /\ running \in BOOLEAN
    /\ nextId \in 1 .. MaxTasks + 1 /\ waiting \subseteq TaskId
    /\ results \in Seq([id : TaskId, kind : {"partial", "final", "error"}])
    /\ state \in [Slot -> {"idle", "started", "prompt", "generating"}]
    /\ job \in [Slot -> Tasks]
    /\ loop \in {"start", "pop", "shift", "prompts", "sample", "fail", "wait", "stopped"}
    /\ round \subseteq Slot
    /\ at \in [Client -> {"idle", "post", "recv", "gone", "forget", "cancel", "leave"}]
    /\ req \in [Client -> Requests \cup {None}]
    /\ ids \in [Client -> SUBSET TaskId] /\ got \in [Client -> SUBSET TaskId]
    /\ count \in [Client -> Nat]

\* A task is in one slot at most, so the CANCEL task, which releases the first
\* slot with its target and stops, stops the generation it is meant for.
OneSlotPerTask ==
    \A s1, s2 \in Slot : job[s1].id = job[s2].id /\ job[s1].id # None => s1 = s2

\* The places where the answer to task t still comes from.
Pending(t) ==
    \/ \E u \in ToSet(queue) \cup ToSet(deferred) : u.id = t
    \/ \E s \in Processing : job[s].id = t
    \/ \E r \in ToSet(results) : r.id = t /\ r.kind # "partial"

\* No task of a handler that blocks in recv is lost between the queues, the
\* slots and the results, whatever other clients cancel and whichever decode
\* fails: recv has no other way to return than a result.
NothingLost ==
    \A c \in Client : at[c] = "recv" => \A t \in ids[c] \ got[c] : Pending(t)

\* receive_multi_results and receive_cmpl_results_stream count results, and
\* the first one also indexes a vector by them: one final result per task.
OneFinalPerTask == \A c \in Client : count[c] = Cardinality(got[c])

\* The main thread sleeps on condition_tasks only when no slot has work: the
\* NEXT_RESPONSE of update_slots is the only thing that wakes it for a slot.
LoopAwake == loop = "wait" /\ queue = <<>> => Processing = {}

\* The handler of task t is still there, and the results that nobody will read.
Owned(t)  == \E c \in Client : t \in ids[c]
Unclaimed == {r \in ToSet(results) : ~Owned(r.id)}

\* A handler that returns leaves no waiting id behind in server_response, and no
\* result that nobody will read, unless it streams to a client that was gone
\* before the first part: then the results that have been sent so far stay, but
\* no further one is queued.  (The rerank handler leaves its ids, and a failing
\* decode sends errors to tasks that are finished: see the README.)
NothingLeaks ==
    [][/\ \A t \in waiting' : Owned(t)'
       /\ \A r \in Unclaimed' \ Unclaimed : \E c \in Client : at[c] = "gone" /\ r.id \in ids[c]]_vars

\* A deferred task waits for a slot, never beside one: "defer until one slot is
\* available".  pop_deferred_task runs only when a slot is released, so a task
\* that a slot action, a request that fails to launch or a slot that does
\* not exist has kept in the queue is not taken up again.
NoneStranded == ~(loop = "wait" /\ queue = <<>> /\ Processing = {} /\ deferred # <<>>)

\* Every handler that waits for results gets them, or an error, in the end.
EveryRequestAnswered == \A c \in Client : at[c] = "recv" ~> at[c] # "recv"
=============================================================================
