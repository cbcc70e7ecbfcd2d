---------------------------- MODULE SequenceMemory ----------------------------
(***************************************************************************)
(* What the KV cache promises its callers (llama.h): a memory of tokens,   *)
(* each at a position of one or more sequences.  Where a token is stored,  *)
(* when its rotation is brought up to date and when the cells are          *)
(* defragmented cannot be seen here.                                       *)
(***************************************************************************)
EXTENDS Integers, FiniteSets, Functions

CONSTANTS
    SeqId,       \* sequence numbers
    MaxTokens,   \* bound: tokens ever stored, each with an identity of its own
    MaxPos,      \* bound: the largest position
    Ranges,      \* ranges of positions callers use
    Deltas,      \* the shifts of positions
    None         \* no evaluation in progress, nothing returned

VARIABLES
    mem,         \* token -> its position and its sequences
    next,        \* the identity of the next token
    call,        \* the evaluation in progress: its sequences, and what is left of it
    ret          \* what the last call returned

vars == <<mem, next, call, ret>>

Init == mem = <<>> /\ next = 1 /\ call = None /\ ret = None

-----------------------------------------------------------------------------
(* What becomes of a memory m.                                             *)

\* The tokens of sequence s with positions in [p0, p1).
Within(m, s, p0, p1) == {t \in DOMAIN m : s \in m[t].seqs /\ m[t].pos \in p0 .. p1 - 1}

\* Tokens that belong to no sequence any more are gone.
Kept(m) == Restrict(m, {t \in DOMAIN m : m[t].seqs # {} /\ m[t].pos >= 0})

\* n new tokens at positions p, p + 1, ... of the sequences S.
Stored(m, S, p, n) ==
    [t \in DOMAIN m \cup next .. next + n - 1 |->
        IF t < next THEN m[t] ELSE [pos |-> p + t - next, seqs |-> S]]

Removed(m, S, p0, p1) ==
    Kept([t \in DOMAIN m |->
            IF m[t].pos \in p0 .. p1 - 1 THEN [m[t] EXCEPT !.seqs = @ \ S] ELSE m[t]])

Copied(m, src, dst, p0, p1) ==
    [t \in DOMAIN m |->
        IF t \in Within(m, src, p0, p1) THEN [m[t] EXCEPT !.seqs = @ \cup {dst}] ELSE m[t]]

Alone(m, s) == [t \in {u \in DOMAIN m : s \in m[u].seqs} |-> [m[t] EXCEPT !.seqs = {s}]]

\* Tokens that would get a negative position are gone, from all sequences.
Shifted(m, s, p0, p1, delta) ==
    Kept([t \in DOMAIN m |->
            IF t \in Within(m, s, p0, p1) THEN [m[t] EXCEPT !.pos = @ + delta] ELSE m[t]])

Divided(m, s, p0, p1, d) ==
    [t \in DOMAIN m |->
        IF t \in Within(m, s, p0, p1) THEN [m[t] EXCEPT !.pos = @ \div d] ELSE m[t]]

Without(m, s) == Kept([t \in DOMAIN m |-> [m[t] EXCEPT !.seqs = @ \ {s}]])

-----------------------------------------------------------------------------
(* An evaluation: llama_decode.                                            *)

Busy == call # None

Begin(S, p, n) ==
    /\ ~Busy /\ call' = [seqs |-> S, pos |-> p, left |-> n]
    /\ ret' = None /\ UNCHANGED <<mem, next>>

Refuse == ~Busy /\ ret' = -1 /\ UNCHANGED <<mem, next, call>>

\* The next n tokens of the batch are stored, and nothing else changes.  The
\* call returns 0 when these are the last.
Store(n) ==
    /\ next' = next + n /\ mem' = Stored(mem, call.seqs, call.pos, n)
    /\ IF n = call.left THEN call' = None /\ ret' = 0
       ELSE call' = [call EXCEPT !.pos = @ + n, !.left = @ - n] /\ ret' = None

\* There is no room for them.
NoRoom == Busy /\ call' = None /\ ret' = 1 /\ UNCHANGED <<mem, next>>

\* Their evaluation fails: tokens are lost, of the batch or others, and the rest
\* stay as they are.
Fail(n) ==
    /\ next' = next + n /\ call' = None /\ ret' = -3
    /\ mem' = Restrict(Stored(mem, call.seqs, call.pos, n), DOMAIN mem')

Evaluate ==
    \/ Busy' /\ \E S \in (SUBSET SeqId) \ {{}}, p \in 0 .. MaxPos,
                   n \in 1 .. MaxTokens + 1 - next : Begin(S, p, n)
    \/ Busy /\ \E n \in 1 .. call.left : Store(n) \/ Fail(n)
    \/ Refuse \/ NoRoom

-----------------------------------------------------------------------------
(* The other calls.                                                        *)

Remove(S, p0, p1)       == mem' = Removed(mem, S, p0, p1)
Copy(src, dst, p0, p1)  == mem' = Copied(mem, src, dst, p0, p1)
Keep(s)                 == mem' = Alone(mem, s)
Shift(s, p0, p1, delta) == mem' = Shifted(mem, s, p0, p1, delta)
Divide(s, p0, p1, d)    == mem' = Divided(mem, s, p0, p1, d)
Clear                   == mem' = <<>>

Edit ==
    /\ ~Busy /\ ret' = None /\ UNCHANGED <<next, call>>
    /\ \/ Clear
       \/ \E s \in SeqId : Keep(s)
       \/ \E r \in Ranges :
            \/ \E S \in {SeqId} \cup {{s} : s \in SeqId} : Remove(S, r[1], r[2])
            \/ \E src, dst \in SeqId : src # dst /\ Copy(src, dst, r[1], r[2])
            \/ \E s \in SeqId :
                \/ \E delta \in Deltas : Shift(s, r[1], r[2], delta)
                \/ Divide(s, r[1], r[2], 2)

\* The request for a defragmentation, and the update.
Tidy == ~Busy /\ ret' = None /\ UNCHANGED <<mem, next, call>>

\* The sequence s is replaced by n tokens from a file; when there is no room, by
\* none.
Load(s, n) ==
    /\ ~Busy /\ ret' = n /\ next' = next + n /\ UNCHANGED call
    /\ mem' = Stored(Without(mem, s), {s}, 0, n)

Next ==
    \/ Evaluate
    \/ Tidy \/ Edit
    \/ \E s \in SeqId, n \in 0 .. MaxTokens + 1 - next : Load(s, n)

Spec == Init /\ [][Next]_vars
=============================================================================
