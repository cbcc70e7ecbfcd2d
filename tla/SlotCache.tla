------------------------------ MODULE SlotCache ------------------------------
(***************************************************************************)
(* What one slot of the llama.cpp server (src/llm/llama.cpp/examples/      *)
(* server/server.cpp) does with its tokens: which prompt it evaluates,     *)
(* what it reuses of the last request, how it shifts a full context, and   *)
(* what it believes its part of the KV cache holds (cache_tokens).         *)
(*                                                                         *)
(* Other slots are seen here only by the room they leave in a batch and by *)
(* rounds in which this slot is left out.  How tasks reach a slot is in    *)
(* ServerTasks, how the KV cache stores sequences in KvCache.              *)
(***************************************************************************)
EXTENDS Integers, SequencesExt

CONSTANTS
    Vocab,          \* tokens the model samples
    Prompts,        \* tokenized prompts of the requests
    Keeps,          \* their n_keep
    Discards,       \* their n_discard
    Zero,           \* token number 0
    NCtx,           \* n_ctx of the slot
    NBatch,         \* n_batch
    NUBatch,        \* n_ubatch
    AddBos,         \* add_bos_token, as a number
    NCacheReuse,    \* params_base.n_cache_reuse
    SpecMax,        \* speculative.n_max; 0: no draft model
    NPredict,       \* n_predict of the requests
    MaxRequests,    \* bound: requests launched
    Unset           \* no file, no token

ASSUME ContextAssumption ==
    /\ NCtx \in Nat /\ NCtx > 4
    /\ NBatch \in Nat \ {0} /\ NUBatch \in Nat \ {0}
    /\ AddBos \in {0, 1} /\ NCacheReuse \in Nat /\ SpecMax \in Nat /\ NPredict \in Nat
    /\ \A prompt \in Prompts : prompt \in Seq(ToSet(prompt))
    /\ Keeps \subseteq Int /\ Discards \subseteq Int

VARIABLES
    slot,           \* server_slot
    kv,             \* the slot's sequence in the KV cache
    requests,       \* how many were launched
    file,           \* the last file of a saved slot
    phase,          \* "tasks", "speculate" within update_slots, or "stopped" for good
    ctx_shift,      \* params_base.ctx_shift
    seen,           \* ghost: the tokens the next one should be predicted from
    dirty           \* ghost: the sequence is not what the slot takes it for, after a
                    \* failed decode that was not rolled back or a shift that cut too much

vars == <<slot, kv, requests, file, phase, ctx_shift, seen, dirty>>

-----------------------------------------------------------------------------
(* The sequence in the KV cache, as SequenceMemory describes it.           *)

Cells(tokens, p) == [i \in DOMAIN tokens |-> [pos |-> p + i - 1, tok |-> tokens[i]]]

Infinity == NCtx + 1

\* kept[i]: what is left of the first i cells.
seq_rm(k, p0, p1) ==
    LET kept[i \in 0 .. Len(k)] ==
          IF i = 0 THEN <<>>
          ELSE IF k[i].pos \in p0 .. p1 - 1 THEN kept[i - 1] ELSE Append(kept[i - 1], k[i])
    IN  kept[Len(k)]

seq_add(k, p0, p1, delta) ==
    [i \in DOMAIN k |->
        IF k[i].pos \in p0 .. p1 - 1 THEN [k[i] EXCEPT !.pos = @ + delta] ELSE k[i]]

\* std::vector::resize: new elements are zero.
Resized(s, n) == [i \in 1 .. n |-> IF i <= Len(s) THEN s[i] ELSE Zero]

Prefix(s, n) == SubSeq(s, 1, n)

Smaller(a, b) == IF a < b THEN a ELSE b

-----------------------------------------------------------------------------
(* Starting a prompt: these take the slot (or the slot and its sequence)   *)
(* and return what becomes of it.                                          *)

\* Mutant: less room is kept free.
WithKeep_All(s) ==
    [s EXCEPT !.n_keep = Smaller(NCtx - 2, IF @ < 0 THEN Len(s.prompt) ELSE @)]

WithKeep(s) ==
    [s EXCEPT !.n_keep = Smaller(NCtx - 4, IF @ < 0 THEN Len(s.prompt) ELSE @)]

\* A prompt that does not fit loses whole blocks behind its first n_keep tokens.
Truncated(s) ==
    LET n      == Len(s.prompt)
        block  == (NCtx - s.n_keep) \div 2
        erased == (n - s.n_keep - block) \div block
    IN  IF n < NCtx THEN s
        ELSE [s EXCEPT !.prompt = Prefix(@, s.n_keep)
                                  \o SubSeq(@, s.n_keep + erased * block + 1, n)]

\* How many tokens from c of the cache and from p of the prompt on are equal.
Match(cache, c, prompt, p) ==
    Max({n \in 0 .. Smaller(Len(cache) - c, Len(prompt) - p) :
            \A i \in 1 .. n : cache[c + i] = prompt[p + i]})

\* Chunks of the cache that occur later in the prompt are moved to their place:
\* one round of the loop for each position c of the cache.
ReuseChunk(acc, c) ==
    LET s == acc.slot
        p == acc.head_p
        n == Match(s.cache, c, s.prompt, p)
    IN  IF c < acc.head_c \/ p >= Len(s.prompt) \/ n < NCacheReuse THEN acc
        ELSE [slot |-> [s EXCEPT !.n_past = @ + n,
                                 !.cache = [i \in DOMAIN @ |-> IF i \in p + 1 .. p + n
                                                               THEN @[i + c - p] ELSE @[i]]],
              kv |-> seq_add(seq_rm(acc.kv, p, c), c, Infinity, p - c),
              head_c |-> c + n, head_p |-> p + n]

\* The common prefix and the chunks are not evaluated again.
Reused(s, k) ==
    LET n     == Match(s.cache, 0, s.prompt, 0)
        start == [slot |-> [s EXCEPT !.n_past = n], kv |-> k, head_c |-> n, head_p |-> n]
        before[c \in 0 .. Len(s.cache)] ==
            IF c = 0 THEN start ELSE ReuseChunk(before[c - 1], c - 1)
    IN  IF ~s.cache_prompt THEN [slot |-> s, kv |-> k]
        ELSE IF NCacheReuse = 0 THEN start
        ELSE before[Len(s.cache)]

\* Mutant: a prompt that is all in the cache is not evaluated at all.
EvaluateOne_Not(s) == s

\* At least one token has to be evaluated to get logits.
EvaluateOne(s) == IF s.n_past = Len(s.prompt) THEN [s EXCEPT !.n_past = @ - 1] ELSE s

\* SLOT_STATE_STARTED of update_slots, for a prompt that is not refused.
Started(s, k) ==
    LET ready == IF s.causal THEN Reused(Truncated(WithKeep(s)), k) ELSE [slot |-> s, kv |-> k]
    IN  [slot |-> [EvaluateOne(ready.slot) EXCEPT !.state = "prompt", !.processed = 0],
         kv |-> ready.kv]

-----------------------------------------------------------------------------
(* Tasks.                                                                  *)

Idle == slot.state = "idle"

\* An idle slot: launching sets or resets all but the cache, so nothing else of
\* it is kept.
IdleSlot(cache) ==
    [state |-> "idle", prompt |-> <<>>, cache_prompt |-> TRUE, causal |-> TRUE,
     n_keep |-> 0, n_discard |-> 0, n_past |-> 0, cache |-> cache,
     sampled |-> Unset, processed |-> 0, n_decoded |-> 0]

release(s) == IdleSlot(s.cache)

\* The slot can take a request.  Bound: MaxRequests.
Available == phase = "tasks" /\ Idle /\ requests < MaxRequests

\* launch_slot_with_task; ok is FALSE when the sampler cannot be made.
Launch(prompt, cache_prompt, causal, keep, discard, new_lora, ok) ==
    /\ Available /\ requests' = requests + 1
    /\ LET s == IdleSlot(IF new_lora THEN <<>> ELSE slot.cache)
       IN  slot' = IF ~ok THEN s
                   ELSE [s EXCEPT !.state = "started", !.prompt = prompt,
                                  !.cache_prompt = cache_prompt, !.causal = causal,
                                  !.n_keep = keep, !.n_discard = discard]
    /\ UNCHANGED <<kv, file, phase, ctx_shift, seen, dirty>>

\* SERVER_TASK_TYPE_CANCEL
Cancel ==
    /\ phase = "tasks" /\ ~Idle
    /\ slot' = release(slot) /\ seen' = <<>>
    /\ UNCHANGED <<kv, requests, file, phase, ctx_shift, dirty>>

SlotSave ==
    /\ phase = "tasks" /\ Idle
    /\ file' = [cache |-> slot.cache, kv |-> kv, dirty |-> dirty]
    /\ UNCHANGED <<slot, kv, requests, phase, ctx_shift, seen, dirty>>

\* The file cannot be read, or there is no room for it.
SlotRestoreFail ==
    /\ phase = "tasks" /\ Idle
    /\ slot' = [slot EXCEPT !.cache = <<>>]
    /\ kv' \in {kv, <<>>}
    /\ UNCHANGED <<requests, file, phase, ctx_shift, seen, dirty>>

SlotRestore ==
    /\ phase = "tasks" /\ Idle
    /\ file # Unset /\ file.kv # <<>>   \* a file without cells: see the README
    /\ slot' = [slot EXCEPT !.cache = file.cache]
    /\ kv' = file.kv /\ dirty' = file.dirty
    /\ UNCHANGED <<requests, file, phase, ctx_shift, seen>>

SlotErase ==
    /\ phase = "tasks" /\ Idle
    /\ slot' = [slot EXCEPT !.cache = <<>>]
    /\ kv' = <<>> /\ dirty' = FALSE
    /\ UNCHANGED <<requests, file, phase, ctx_shift, seen>>

-----------------------------------------------------------------------------
(* update_slots.                                                           *)

\* The tokens of slot s are decoded after k, and s becomes t.  Without room in
\* the KV cache a decode leaves some of them behind: it is repeated with smaller
\* batches, or given up with an error for the slot.  Bound: not while what an
\* earlier one left behind is still there.
Decode(s, t, k, tokens, d) ==
    \/ kv' = k \o tokens /\ slot' = t /\ dirty' = d
    \/ \E j \in DOMAIN tokens :
        /\ ~d
        /\ kv' = k \o Prefix(tokens, j) \o tokens /\ slot' = t /\ dirty' = TRUE
    \/ \E j \in 0 .. Len(tokens) :
        /\ ~d
        /\ kv' = k \o Prefix(tokens, j)
        /\ slot' = release(s) /\ dirty' = (j < Len(tokens))

\* n more tokens were sampled, and process_token looked at each, the last of
\* which is tok.  stop stands for the stop words, the end token and the clock.
ProcessToken(s, n, tok, stop) ==
    IF stop \/ s.n_decoded + n >= NPredict \/ s.n_past >= NCtx THEN release(s)
    ELSE [s EXCEPT !.sampled = tok, !.state = "generating", !.n_decoded = @ + n]

\* What the context and the rest of n_predict leave of n_max.
DraftMax(s) == Smaller(Smaller(SpecMax, NCtx - s.n_past - 2), NPredict - s.n_decoded - 1)

CanSpeculate(s) == SpecMax > 0 /\ s.cache_prompt /\ DraftMax(s) >= 1

\* Mutant: a slot that was just released is drafted for as well.
Then_Released(s) == phase' = IF CanSpeculate(s) THEN "speculate" ELSE "tasks"

\* What the round goes on with.
Then(s) == phase' = IF s.state = "generating" /\ CanSpeculate(s) THEN "speculate" ELSE "tasks"

Seen(tokens) == seen' = IF slot'.state = "idle" THEN <<>> ELSE tokens

Refused(s) ==
    \/ s.prompt = <<>>
    \/ IF s.causal THEN ~ctx_shift /\ Len(s.prompt) >= NCtx
       ELSE Len(s.prompt) > Smaller(NUBatch, NCtx)

RefusePrompt ==
    /\ phase = "tasks" /\ slot.state = "started" /\ Refused(slot)
    /\ slot' = release(slot) /\ seen' = <<>>
    /\ UNCHANGED <<kv, requests, file, phase, ctx_shift, dirty>>

\* What a round finds of the slot once its prompt is started.
Begun == IF slot.state = "started" THEN Started(slot, kv) ELSE [slot |-> slot, kv |-> kv]

HasPrompt == slot.state = "prompt" \/ (slot.state = "started" /\ ~Refused(slot))

\* An embedding has to fit in one batch; it waits for a round with room for it.
Postpone(room) ==
    /\ phase = "tasks" /\ HasPrompt /\ ~slot.causal /\ Len(slot.prompt) > room
    /\ slot' = Begun.slot
    /\ UNCHANGED <<kv, requests, file, phase, ctx_shift, seen, dirty>>

\* A round with room for so many tokens of the prompt.
Prompt(room, tok, stop) ==
    LET s      == Begun.slot
        n      == Smaller(room, Len(s.prompt) - s.n_past)
        tokens == SubSeq(s.prompt, s.n_past + 1, s.n_past + n)
        kept   == Resized(s.cache, s.n_past)
        added  == [s EXCEPT !.n_past = @ + n, !.processed = @ + n,
                            !.cache = IF s.cache_prompt THEN kept \o tokens ELSE kept]
        done   == IF added.n_past < Len(s.prompt) THEN added
                  ELSE IF s.causal THEN ProcessToken(added, 1, tok, stop)
                  ELSE release(added)
    IN  /\ phase = "tasks" /\ HasPrompt /\ (slot.causal \/ Len(s.prompt) <= room)
        /\ Decode(added, done, seq_rm(Begun.kv, s.n_past, Infinity), Cells(tokens, s.n_past),
                  dirty /\ s.n_past > 0)
        /\ Seen(Prefix(s.prompt, added.n_past))
        /\ Then(slot')
        /\ UNCHANGED <<requests, file, ctx_shift>>

\* Without context shift a slot that is full is released with an error.
Full == slot.n_past + 1 >= NCtx

ContextLimit ==
    /\ phase = "tasks" /\ ~Idle /\ Full /\ ~ctx_shift
    /\ slot' = release(slot) /\ seen' = <<>>
    /\ UNCHANGED <<kv, requests, file, phase, ctx_shift, dirty>>

n_keep    == slot.n_keep + AddBos
n_discard == IF slot.n_discard # 0 THEN slot.n_discard ELSE (slot.n_past - n_keep) \div 2

\* The tokens behind the gap are moved up, and the last n_discard elements are
\* dropped: some of those to keep as well, when the gap goes beyond the end.
Without(s) ==
    IF n_keep + n_discard <= Len(s)
    THEN Prefix(s, n_keep) \o SubSeq(s, n_keep + n_discard + 1, Len(s))
    ELSE Prefix(s, Len(s) - n_discard)

\* n_discard is what the client sent, unless that is 0.  More than there is behind
\* the tokens to keep leaves these in the KV cache with n_past before their end.
Overcut == n_keep + n_discard > slot.n_past

\* More than there are cached tokens makes the resize throw, which nothing
\* catches; more than n_past, without cache_prompt, makes the position negative;
\* a negative number moves tokens beyond the end of the cache and the context.
Unsafe ==
    n_discard < 0 \/ n_discard > IF slot.cache_prompt THEN Len(slot.cache) ELSE slot.n_past

\* Mutant: the positions behind the gap are not moved.
ShiftedKv_Gap == seq_rm(kv, n_keep, n_keep + n_discard)

ShiftedKv ==
    seq_add(seq_rm(kv, n_keep, n_keep + n_discard), n_keep + n_discard, slot.n_past, -n_discard)

\* The context shift: n_discard tokens behind the first n_keep are dropped.
Shifted ==
    IF ~Full THEN [slot |-> slot, kv |-> kv, seen |-> seen, dirty |-> dirty]
    ELSE [slot |-> [slot EXCEPT !.n_past = @ - n_discard,
                                !.cache = IF slot.cache_prompt THEN Without(@) ELSE @],
          kv |-> ShiftedKv, seen |-> Without(seen), dirty |-> dirty \/ Overcut]

\* A round that leaves the slot out of its batch still shifts its context.
LeftOut ==
    /\ phase = "tasks" /\ slot.state = "generating" /\ Full /\ ctx_shift /\ ~Unsafe
    /\ slot' = Shifted.slot /\ kv' = Shifted.kv /\ seen' = Shifted.seen
    /\ dirty' = Shifted.dirty
    /\ UNCHANGED <<requests, file, phase, ctx_shift>>

\* What follows a shift that is unsafe is not modelled.
ShiftFails ==
    /\ phase = "tasks" /\ slot.state = "generating" /\ Full /\ ctx_shift /\ Unsafe
    /\ phase' = "stopped"
    /\ UNCHANGED <<slot, kv, requests, file, ctx_shift, seen, dirty>>

\* The token sampled last is decoded and the next one sampled.
Generate(tok, stop) ==
    LET s     == Shifted.slot
        added == [s EXCEPT !.n_past = @ + 1,
                           !.cache = IF s.cache_prompt THEN Append(@, s.sampled) ELSE @]
    IN  /\ phase = "tasks" /\ slot.state = "generating" /\ (Full => ctx_shift /\ ~Unsafe)
        /\ Decode(added, ProcessToken(added, 1, tok, stop), Shifted.kv,
                  Cells(<<s.sampled>>, s.n_past), Shifted.dirty)
        /\ Seen(Append(Shifted.seen, s.sampled))
        /\ Then(slot')
        /\ UNCHANGED <<requests, file, ctx_shift>>

\* No draft, or one that is too small.
NoDraft == phase = "speculate" /\ phase' = "tasks" /\ UNCHANGED <<slot, kv, requests, file, ctx_shift, seen, dirty>>

\* Speculative decoding: the sampled token and a draft are decoded at once (the
\* result of this decode is not looked at), the first a tokens of the draft and
\* one more token are accepted, and what is behind them is removed again.
Speculate(draft, a, tok, stop) ==
    LET accepted == <<slot.sampled>> \o Prefix(draft, a)
        s        == [slot EXCEPT !.n_past = @ + a + 1, !.cache = @ \o accepted]
        stored   == Cells(<<slot.sampled>> \o draft, slot.n_past)
    IN  /\ phase = "speculate" /\ phase' = "tasks"
        /\ Len(draft) \in 1 .. DraftMax(slot) /\ a \in 0 .. Len(draft)
        /\ \E j \in 0 .. Len(stored) :
            /\ dirty => j = Len(stored)
            /\ kv' = seq_rm(kv \o Prefix(stored, j), s.n_past, Infinity)
            /\ dirty' = (dirty \/ j <= a)
        /\ slot' = ProcessToken(s, a + 1, tok, stop)
        /\ Seen(seen \o accepted)
        /\ UNCHANGED <<requests, file, ctx_shift>>

-----------------------------------------------------------------------------
\* The server after its first round, which clears the KV cache.
Init ==
    /\ slot = IdleSlot(<<>>)
    /\ kv = <<>> /\ requests = 0 /\ file = Unset /\ phase = "tasks" /\ ctx_shift \in BOOLEAN
    /\ seen = <<>> /\ dirty = FALSE

LaunchAny ==
    /\ Available
    /\ \E prompt \in Prompts, keep \in Keeps, discard \in Discards,
          cache_prompt, causal, new_lora, ok \in BOOLEAN :
        Launch(prompt, cache_prompt, causal, keep, discard, new_lora, ok)

SlotTask == Cancel \/ SlotSave \/ SlotRestoreFail \/ SlotRestore \/ SlotErase

Drafts == UNION {[1 .. n -> Vocab] : n \in 1 .. SpecMax}

UpdateSlots ==
    \/ RefusePrompt \/ ContextLimit \/ LeftOut \/ ShiftFails \/ NoDraft
    \/ \E room \in 0 .. NBatch : Postpone(room)
    \/ \E tok \in Vocab, stop \in BOOLEAN :
        \/ \E room \in 0 .. NBatch : Prompt(room, tok, stop)
        \/ Generate(tok, stop)
        \/ \E draft \in Drafts, a \in 0 .. SpecMax : Speculate(draft, a, tok, stop)

Next == LaunchAny \/ SlotTask \/ UpdateSlots

Spec == Init /\ [][Next]_vars

-----------------------------------------------------------------------------
(* Properties.                                                             *)

Tokens == Vocab \cup UNION {ToSet(prompt) : prompt \in Prompts}

\* The type invariant; within update_slots only a slot that has just sampled a
\* token speculates.
TypeOK ==
    /\ slot.state \in {"idle", "started", "prompt", "generating"}
    /\ slot.n_past \in Nat /\ slot.processed \in Nat /\ slot.n_keep \in Int
    /\ slot.cache \in Seq(Tokens \cup {Zero}) /\ seen \in Seq(Tokens)
    /\ \A i \in DOMAIN kv : kv[i].pos \in Nat /\ kv[i].tok \in Tokens
    /\ phase = "speculate" => slot.state = "generating"

\* While a slot works on a prompt and while it generates, its part of the KV
\* cache holds exactly the tokens that the next one is to be predicted from, in
\* their places: whatever was reused of earlier requests, cancelled, restored
\* from files, shifted or accepted from a draft.  The exception is what a failed
\* decode leaves behind, or a shift that discards more than there is behind the
\* tokens to keep, until a request that shares nothing with it.
ContextRight ==
    slot.state \in {"prompt", "generating"} /\ slot.causal /\ ~dirty
        => kv = Cells(seen, 0)

\* A slot never goes beyond its share of the context, although prompts are longer
\* than it and n_keep and n_discard are the clients' choice: the prompt leaves
\* room for a token (GGML_ASSERT in update_slots), after every shift there is room
\* for one and no position is beyond the end, and the number the server chooses to
\* discard itself is at least one and leaves the tokens to keep.
WithinContext ==
    /\ slot.n_past <= NCtx /\ Len(slot.cache) <= NCtx
    /\ \A i \in DOMAIN kv : kv[i].pos < NCtx
    /\ slot.state \in {"prompt", "generating"} /\ slot.causal => Len(slot.prompt) < NCtx
    /\ slot.state = "generating" => slot.n_past < NCtx
    /\ slot.state = "generating" /\ Full /\ slot.n_discard = 0
        => n_discard \in 1 .. slot.n_past - n_keep

\* Tokens are only sampled for a prompt of which something was evaluated, also
\* when all of it was in the cache.
LogitsExist == slot.state = "generating" => slot.processed > 0
=============================================================================
