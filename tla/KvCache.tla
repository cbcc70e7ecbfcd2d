------------------------------- MODULE KvCache -------------------------------
(***************************************************************************)
(* The KV cache of a model with attention (src/llm/llama.cpp/src/          *)
(* llama-kv-cache.cpp and .h) and the steps of llama_decode, of            *)
(* llama_kv_cache_update and of loading a saved sequence that work on it   *)
(* (llama.cpp, llama-context.cpp).  Recurrent models, which keep one state *)
(* per sequence, are not modelled.                                         *)
(*                                                                         *)
(* A cell has its row of the tensors with it: tok is the token whose keys  *)
(* and values are stored there, rope the position the keys are rotated to. *)
(* stray is not in the code: the delta the cell still had, from the token   *)
(* before, when its token was loaded from a file.                          *)
(***************************************************************************)
EXTENDS Integers, SequencesExt

CONSTANTS
    Sizes,       \* numbers of cells a cache may be made with
    SeqId,       \* sequence numbers
    UBatch,      \* n_ubatch: the tokens evaluated in one piece
    MaxMoves,    \* max_moves of the defragmentation
    MaxBatch,    \* bound: the tokens of one batch
    MaxTokens,   \* bound: tokens ever stored
    MaxPos,      \* bound: the largest position
    Ranges,      \* the ranges of positions callers use
    Deltas,      \* the shifts of llama_kv_cache_seq_add
    None         \* no batch in progress, no token

\* What the callers know of a batch in progress, and all of it: what is left of
\* it, with the slots and the head of the restorer.
Calls   == [seqs : SUBSET SeqId, pos : Nat, left : Nat]
Batches == [seqs : SUBSET SeqId, pos : Nat, left : Nat, slots : Seq(Nat \X Nat), head : Nat]

ASSUME SizeAssumption ==
    /\ Sizes \subseteq Nat \ {0} /\ UBatch \in Nat \ {0} /\ MaxMoves \in Nat \ {0}
    /\ MaxBatch \in Nat /\ MaxTokens \in Nat /\ MaxPos \in Nat
    /\ IsFiniteSet(SeqId) /\ None \notin Nat \cup Calls \cup Batches /\ Deltas \subseteq Int \ {0}
    /\ Ranges \subseteq {r \in (0 .. MaxPos) \X (1 .. MaxPos + 1) : r[1] < r[2]}

VARIABLES
    kv,          \* llama_kv_cache: size, cells, head, used, has_shift, do_defrag
    batch,       \* llama_decode: what is left of its batch, and the rollback list
    next,        \* the identity of the next token
    ret          \* what the last call returned: a status, the tokens loaded, or nothing

vars == <<kv, batch, next, ret>>

Cells(c) == 0 .. c.size - 1
Infinity == MaxPos + 1      \* a negative p1 stands for infinity
NewCell  == [pos |-> -1, delta |-> 0, seq_id |-> {}, tok |-> None, rope |-> 0,
             stray |-> 0]

is_empty(cell) == cell.seq_id = {}

\* The functions below take a cache and return what they make of it.  A cell
\* that is emptied keeps its delta; its row is not read any more.
Emptied(cell) == [NewCell EXCEPT !.delta = cell.delta]

\* Apply f to the cells in I.
Mapped(c, I, f(_)) == [i \in Cells(c) |-> IF i \in I THEN f(c.cells[i]) ELSE c.cells[i]]

\* has_seq_id and a position in [p0, p1).
Matching(c, s, p0, p1) ==
    {i \in Cells(c) : s \in c.cells[i].seq_id /\ c.cells[i].pos \in p0 .. p1 - 1}

\* "If we freed up a slot, set head to it so searching can start there."
Lowered(head, freed) == IF freed # {} /\ Min(freed) < head THEN Min(freed) ELSE head

-----------------------------------------------------------------------------
(* Searching and storing.                                                  *)

\* llama_kv_cache_find_slot, its search: n free cells in a row from head on,
\* around the ring, with a count of the cells tested.
StartSearch(c, n) == [head |-> c.head, tested |-> 0, done |-> n > c.size, found |-> FALSE]

Busy(c, n, h) == {i \in 0 .. n - 1 : c.cells[h + i].pos >= 0}

\* Mutant: the cells skipped at the end of the ring are counted twice.
SearchRound_Twice(c, n, s) ==
    LET skip == Min(Busy(c, n, s.head)) + 1
    IN  IF s.done THEN s
        ELSE IF s.head + n > c.size
             THEN [s EXCEPT !.head = 0, !.tested = @ + 2 * (c.size - s.head)]
        ELSE IF Busy(c, n, s.head) = {} THEN [s EXCEPT !.done = TRUE, !.found = TRUE]
        ELSE [s EXCEPT !.head = @ + skip, !.tested = @ + skip, !.done = s.tested + skip >= c.size]

\* One round of the loop.
SearchRound(c, n, s) ==
    LET skip == Min(Busy(c, n, s.head)) + 1
    IN  IF s.done THEN s
        ELSE IF s.head + n > c.size
             THEN [s EXCEPT !.head = 0, !.tested = @ + c.size - s.head]
        ELSE IF Busy(c, n, s.head) = {} THEN [s EXCEPT !.done = TRUE, !.found = TRUE]
        ELSE [s EXCEPT !.head = @ + skip, !.tested = @ + skip, !.done = s.tested + skip >= c.size]

\* Every second round at least tests a cell, and the search ends when it has
\* tested as many as there are, after the end of the ring at most twice.
MaxRounds(c) == 4 * c.size + 2

\* The search after each number of rounds.
Search(c, n) ==
    LET after[k \in 0 .. MaxRounds(c)] ==
          IF k = 0 THEN StartSearch(c, n) ELSE SearchRound(c, n, after[k - 1])
    IN  after

find_slot(c, n) == Search(c, n)[MaxRounds(c)]

\* The rest of it: n tokens, from the identity t on, are entered at head.  The
\* cells keep their delta, which is 0 unless the tokens are loaded from a file.
Stored(c, head, S, p, n, t, file) ==
    [c EXCEPT !.head = head, !.used = @ + n,
              !.cells = [i \in Cells(c) |->
                 IF i \in head .. head + n - 1
                 THEN [c.cells[i] EXCEPT !.pos = p + i - head, !.seq_id = @ \cup S,
                                         !.tok = t + i - head, !.rope = p + i - head,
                                         !.stray = IF file THEN c.cells[i].delta ELSE 0]
                 ELSE c.cells[i]]]

clear(c) == [c EXCEPT !.cells = [i \in Cells(c) |-> Emptied(c.cells[i])], !.head = 0, !.used = 0]

-----------------------------------------------------------------------------
(* Sequences.                                                              *)

\* Removal of the sequences S from the cells at the positions P.
Erased(c, S, P) ==
    LET hit   == {i \in Cells(c) : c.cells[i].seq_id \cap S # {} /\ c.cells[i].pos \in P}
        freed == {i \in hit : c.cells[i].seq_id \subseteq S}
        erase(cell) == IF cell.seq_id \subseteq S THEN Emptied(cell)
                       ELSE [cell EXCEPT !.seq_id = @ \ S]
    IN  [c EXCEPT !.cells = Mapped(c, hit, erase),
                  !.used = @ - Cardinality(freed),
                  !.head = Lowered(@, freed)]

\* For seq_id < 0 the sequences are all of them.
seq_rm(c, S, p0, p1) == Erased(c, S, p0 .. p1 - 1)

\* Mutant: the sequence is assigned, not inserted.
seq_cp_Assign(c, src, dst, p0, p1) ==
    LET assign(cell) == [cell EXCEPT !.seq_id = {dst}]
    IN  [c EXCEPT !.cells = Mapped(c, Matching(c, src, p0, p1), assign), !.head = 0]

seq_cp(c, src, dst, p0, p1) ==
    LET insert(cell) == [cell EXCEPT !.seq_id = @ \cup {dst}]
    IN  [c EXCEPT !.cells = Mapped(c, Matching(c, src, p0, p1), insert), !.head = 0]

\* Mutant: the empty cells are counted as freed, too.
seq_keep_All(c, s) ==
    LET others == {i \in Cells(c) : s \notin c.cells[i].seq_id}
    IN  [c EXCEPT !.cells = [i \in Cells(c) |-> IF i \in others THEN Emptied(c.cells[i])
                                                ELSE [c.cells[i] EXCEPT !.seq_id = {s}]],
                  !.used = @ - Cardinality(others),
                  !.head = Lowered(@, others)]

seq_keep(c, s) ==
    LET others == {i \in Cells(c) : s \notin c.cells[i].seq_id}
    IN  [c EXCEPT !.cells = [i \in Cells(c) |-> IF i \in others THEN Emptied(c.cells[i])
                                                ELSE [c.cells[i] EXCEPT !.seq_id = {s}]],
                  !.used = @ - Cardinality({i \in others : c.cells[i].pos >= 0}),
                  !.head = Lowered(@, others)]

seq_add(c, s, p0, p1, delta) ==
    LET hit   == Matching(c, s, p0, p1)
        freed == {i \in hit : c.cells[i].pos + delta < 0}
        move(cell) == LET moved == [cell EXCEPT !.pos = @ + delta, !.delta = @ + delta]
                      IN  IF moved.pos < 0 THEN Emptied(moved) ELSE moved
    IN  [c EXCEPT !.cells = Mapped(c, hit, move),
                  !.has_shift = @ \/ hit # {},
                  !.used = @ - Cardinality(freed),
                  !.head = IF freed = {} THEN 0 ELSE Min(freed)]

\* Mutant: the keys are not marked for rotation.
seq_div_NoDelta(c, s, p0, p1, d) ==
    LET divide(cell) == [cell EXCEPT !.pos = @ \div d]
    IN  [c EXCEPT !.cells = Mapped(c, Matching(c, s, p0, p1), divide)]

seq_div(c, s, p0, p1, d) ==
    LET hit == Matching(c, s, p0, p1)
        divide(cell) == [cell EXCEPT !.pos = @ \div d, !.delta = @ + cell.pos \div d - cell.pos]
    IN  [c EXCEPT !.cells = Mapped(c, hit, divide), !.has_shift = @ \/ hit # {}]

-----------------------------------------------------------------------------
(* llama_kv_cache_update.                                                  *)

\* The keys are rotated by the pending deltas.
Shifted(c) ==
    IF ~c.has_shift THEN c
    ELSE [c EXCEPT !.has_shift = FALSE,
                   !.cells = [i \in Cells(c) |-> IF is_empty(c.cells[i]) THEN NewCell
                                         ELSE [c.cells[i] EXCEPT !.rope = @ + c.cells[i].delta,
                                                                 !.delta = 0]]]

\* llama_kv_cache_defrag_impl.  The holes are the empty cells below n_used.  A
\* run of holes is filled from below with the last cells of the cache that are
\* not moved yet, which keep their order; the next run takes those before them.
Holes(c)   == {i \in 0 .. c.used - 1 : is_empty(c.cells[i])}
Sources(c) == {i \in c.used .. c.size - 1 : ~is_empty(c.cells[i])}

\* The first and the last hole of the run that hole d is in.
RunStart(c, d) == CHOOSE a \in Holes(c) : a <= d /\ a .. d \subseteq Holes(c) /\ a - 1 \notin Holes(c)
RunEnd(c, d)   == CHOOSE b \in Holes(c) : d <= b /\ d .. b \subseteq Holes(c) /\ b + 1 \notin Holes(c)

SourceOf(c, d) ==
    LET taken == Cardinality({h \in Holes(c) : h < RunStart(c, d)})
    IN  CHOOSE s \in Sources(c) :
          Cardinality({x \in Sources(c) : x > s}) = taken + RunEnd(c, d) - d

\* The moves are counted in blocks of neighbouring cells, and stop at max_moves.
StartsBlock(c, d) == d = RunStart(c, d) \/ SourceOf(c, d) # SourceOf(c, d - 1) + 1
Filled(c) ==
    {d \in Holes(c) : Cardinality({h \in Holes(c) : h <= d /\ StartsBlock(c, h)}) <= MaxMoves}

Defragged(c) ==
    IF ~c.do_defrag THEN c
    ELSE LET filled == Filled(c)
             from   == [d \in filled |-> SourceOf(c, d)]
         IN  [c EXCEPT !.do_defrag = FALSE,
                       !.head = IF filled = {} THEN @ ELSE c.used,
                       !.cells = [i \in Cells(c) |->
                          IF i \in filled THEN c.cells[from[i]]
                          ELSE IF \E d \in filled : from[d] = i THEN NewCell
                          ELSE c.cells[i]]]

update(c) == Defragged(Shifted(c))

-----------------------------------------------------------------------------
(* The operations of the interface.                                        *)

Idle == batch = None

SeqRm(S, r) == Idle /\ kv' = seq_rm(kv, S, r[1], r[2]) /\ UNCHANGED <<batch, next>> /\ ret' = None

SeqCp(src, dst, r) ==
    /\ Idle /\ src # dst
    /\ kv' = seq_cp(kv, src, dst, r[1], r[2])
    /\ UNCHANGED <<batch, next>> /\ ret' = None

SeqKeep(s) == Idle /\ kv' = seq_keep(kv, s) /\ UNCHANGED <<batch, next>> /\ ret' = None

SeqAdd(s, r, delta) ==
    /\ Idle
    /\ \A i \in Matching(kv, s, r[1], r[2]) : kv.cells[i].pos + delta <= MaxPos
    /\ kv' = seq_add(kv, s, r[1], r[2], delta)
    /\ UNCHANGED <<batch, next>> /\ ret' = None

SeqDiv(s, r) == Idle /\ kv' = seq_div(kv, s, r[1], r[2], 2) /\ UNCHANGED <<batch, next>> /\ ret' = None

Clear == Idle /\ kv' = clear(kv) /\ UNCHANGED <<batch, next>> /\ ret' = None

\* llama_kv_cache_defrag.
Defrag == Idle /\ kv' = [kv EXCEPT !.do_defrag = TRUE] /\ UNCHANGED <<batch, next>> /\ ret' = None

Update == Idle /\ kv' = update(kv) /\ UNCHANGED <<batch, next>> /\ ret' = None

-----------------------------------------------------------------------------
(* llama_decode, one ubatch after the other.                               *)

\* Callers append: the position after the last one of the sequences.
AppendPos(S) ==
    LET used == {kv.cells[i].pos : i \in {j \in Cells(kv) : kv.cells[j].seq_id \cap S # {}}}
    IN  IF used = {} THEN 0 ELSE Max(used) + 1

\* slots and head are the restorer's.
DecodeStart(S, n) ==
    /\ Idle /\ next + n <= MaxTokens + 1 /\ AppendPos(S) + n <= MaxPos + 1
    /\ batch' = [seqs |-> S, pos |-> AppendPos(S), left |-> n,
                 slots |-> <<>>, head |-> kv.head]
    /\ UNCHANGED <<kv, next>> /\ ret' = None

\* llama_prepare_sbatch: a token that is not in the vocabulary, before anything
\* is done, also before a pending rotation.
DecodeRefused == Idle /\ ret' = -1 /\ UNCHANGED <<kv, batch, next>>

Piece == Min({UBatch, batch.left})

\* llama_prepare_ubatch up to the search.
Prepared ==
    LET c == update(kv)
    IN  IF c.head > c.used + 2 * Piece THEN [c EXCEPT !.head = 0] ELSE c

Slot == find_slot(Prepared, Piece)

\* The ubatch is entered and evaluated, and head moves behind it.  After the
\* last one a defragmentation is requested if the cache is found fragmented,
\* which depends on a ratio that is left out.
DecodeUbatch ==
    /\ ~Idle /\ batch.left > 0 /\ Slot.found
    /\ LET c == Stored(Prepared, Slot.head, batch.seqs, batch.pos, Piece, next, FALSE)
       IN  \E fragmented \in {FALSE, batch.left = Piece} :
             kv' = [c EXCEPT !.head = IF @ + Piece >= kv.size THEN 0 ELSE @ + Piece,
                             !.do_defrag = @ \/ fragmented]
    /\ next' = next + Piece
    /\ batch' = IF batch.left = Piece THEN None
                ELSE [batch EXCEPT !.pos = @ + Piece, !.left = @ - Piece,
                                   !.slots = Append(@, <<Slot.head, Slot.head + Piece>>)]
    /\ ret' = IF batch.left = Piece THEN 0 ELSE None

\* No room: llama_decode returns 1 at once.  The pieces before stay.
DecodeNoSlot ==
    /\ ~Idle /\ ~Slot.found
    /\ kv' = [Prepared EXCEPT !.head = Slot.head]
    /\ batch' = None /\ ret' = 1
    /\ UNCHANGED next

\* restore: the head, then seq_rm of all sequences with the boundaries of each
\* slot, which are cells, in the place of positions.
Restored(c, head, slots) ==
    Erased([c EXCEPT !.head = head], SeqId, UNION {b[1] .. b[2] - 1 : b \in ToSet(slots)})

\* The evaluation fails (-3 and -2) or is aborted (2): -3 stands for these.
DecodeComputeFail ==
    /\ ~Idle /\ Slot.found
    /\ kv' = Restored(Stored(Prepared, Slot.head, batch.seqs, batch.pos, Piece, next, FALSE),
                      batch.head, Append(batch.slots, <<Slot.head, Slot.head + Piece>>))
    /\ next' = next + Piece
    /\ batch' = None /\ ret' = -3

\* read_kv_cache for one sequence: its tokens are replaced by n from a file.
\* A rotation may be pending: it is the evaluation that applies it.
LoadSeq(s, n) ==
    LET c == seq_rm(kv, {s}, 0, Infinity)
        slot == find_slot(c, n)
    IN  /\ Idle /\ next + n <= MaxTokens + 1 /\ n <= MaxPos + 1
        /\ kv' = IF slot.found THEN Stored(c, slot.head, {s}, 0, n, next, TRUE)
                 ELSE [c EXCEPT !.head = slot.head]
        /\ next' = IF slot.found THEN next + n ELSE next
        /\ ret' = IF slot.found THEN n ELSE 0
        /\ UNCHANGED batch

-----------------------------------------------------------------------------
Init ==
    /\ \E n \in Sizes :
        kv = [size |-> n, cells |-> [i \in 0 .. n - 1 |-> NewCell], head |-> 0, used |-> 0,
              has_shift |-> FALSE, do_defrag |-> FALSE]
    /\ batch = None /\ next = 1 /\ ret = None

Decode ==
    \/ DecodeUbatch \/ DecodeNoSlot \/ DecodeComputeFail \/ DecodeRefused
    \/ \E S \in (SUBSET SeqId) \ {{}}, n \in 1 .. MaxBatch : DecodeStart(S, n)

Next ==
    \/ Decode
    \/ \E r \in Ranges :
        \/ \E S \in {SeqId} \cup {{s} : s \in SeqId} : SeqRm(S, r)
        \/ \E src, dst \in SeqId : SeqCp(src, dst, r)
        \/ \E s \in SeqId : SeqDiv(s, r) \/ \E delta \in Deltas : SeqAdd(s, r, delta)
    \/ \E s \in SeqId : SeqKeep(s) \/ \E n \in 1 .. MaxBatch : LoadSeq(s, n)
    \/ Clear \/ Defrag \/ Update

Spec == Init /\ [][Next]_vars

-----------------------------------------------------------------------------
(* Properties.                                                             *)

Used == {i \in Cells(kv) : ~is_empty(kv.cells[i])}

\* used counts the cells that belong to a sequence, and these are the ones
\* with a position.  The defragmentation aborts the process when the count is
\* wrong ("KV defrag bug"), and the search overwrites a cell without a position.
UsedAccurate ==
    /\ kv.used = Cardinality(Used)
    /\ \A i \in Cells(kv) : kv.cells[i].pos >= 0 <=> i \in Used

\* The keys of a token that was evaluated are rotated to its position, or will
\* be by the pending delta, also after cells were emptied, reused and moved.  A
\* token loaded from a file is off by exactly the delta that was still pending
\* for the token before it in its cell: by nothing, when no rotation was.
RopeMatches ==
    \A i \in Used :
        kv.cells[i].rope + kv.cells[i].delta = kv.cells[i].pos + kv.cells[i].stray

\* find_slot fails only when there are no n free cells in a row, wherever the
\* head is, and never hands out a cell in use.
SearchComplete ==
    \A n \in 1 .. kv.size :
        LET free(h) == \A i \in h .. h + n - 1 : i \notin Used
            slot    == find_slot(kv, n)
        IN  IF slot.found THEN free(slot.head) ELSE \A h \in 0 .. kv.size - n : ~free(h)

\* What the callers see of the cache, each token once, and of the call that is
\* in progress.
Memory ==
    LET cell(t) == kv.cells[CHOOSE i \in Cells(kv) : kv.cells[i].tok = t]
    IN  [t \in {kv.cells[i].tok : i \in Used} |-> [pos |-> cell(t).pos, seqs |-> cell(t).seq_id]]

Call == IF Idle THEN None ELSE [seqs |-> batch.seqs, pos |-> batch.pos, left |-> batch.left]

Abstract == INSTANCE SequenceMemory WITH mem <- Memory, call <- Call

\* The cache implements the memory of sequences that llama.h describes: no
\* search, reuse, move or pending rotation loses, duplicates or mixes up tokens.
\* An evaluation that returns 0 has stored all of its tokens and lost no other;
\* one that is refused changes nothing, one without room keeps the pieces it has
\* stored, and only one that fails in the middle may lose tokens, which the
\* restoring of llama_decode does (see the README).
ImplementsSequenceMemory == Abstract!Spec
=============================================================================
