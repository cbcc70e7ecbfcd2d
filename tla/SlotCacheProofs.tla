---------------------------- MODULE SlotCacheProofs ----------------------------
(***************************************************************************)
(* What a slot does with its tokens, for every context, batch and draft    *)
(* size, every set of prompts and any number of requests: it stays within  *)
(* its context and samples only from logits that exist, and, without       *)
(* chunk reuse, its part of the KV cache holds what the next token is to   *)
(* be predicted from.                                                      *)
(***************************************************************************)
EXTENDS SlotCache, FiniteSetTheorems, SequenceTheorems, WellFoundedInduction, TLAPS

-----------------------------------------------------------------------------
(* Numbers.                                                                *)

\* A set of numbers that is not empty has a least one.
LEMMA HasLeast ==
    ASSUME NEW S \in SUBSET Nat, S # {}
    PROVE  \E s \in S : \A x \in S : s <= x
<1> DEFINE R == StrictSubsetOrdering(Nat)
           T == {0 .. k : k \in S}
<1>1. IsWellFoundedOn(R, FiniteSubsetsOf(Nat))
  BY FS_StrictSubsetOrderingWellFounded
<1>2. T \subseteq FiniteSubsetsOf(Nat) /\ T # {}
  <2>1. \A k \in S : 0 .. k \in SUBSET Nat /\ IsFiniteSet(0 .. k)
    BY FS_Interval
  <2> QED  BY <2>1 DEF FiniteSubsetsOf
<1> HIDE DEF R
<1>3. \E x \in T : \A y \in T : ~(<<y, x>> \in R)
  BY <1>1, <1>2, WFMin
<1>4. PICK m \in S : \A k \in S : ~(<<0 .. k, 0 .. m>> \in R)
  BY <1>3
<1>5. ASSUME NEW k \in S, k < m PROVE <<0 .. k, 0 .. m>> \in R
  BY <1>5, 0 .. k \subseteq 0 .. m, m \in 0 .. m, m \notin 0 .. k DEF R, StrictSubsetOrdering
<1>6. \A k \in S : ~(k < m)
  BY <1>4, <1>5
<1>7. \A k \in S : m <= k
  BY <1>6
<1> QED  BY <1>7

\* A set of numbers up to m that is not empty has a greatest one, which is Max.
LEMMA GreatestOf ==
    ASSUME NEW m \in Nat, NEW S \in SUBSET (0 .. m), S # {}
    PROVE  Max(S) \in S /\ \A x \in S : x <= Max(S)
<1> DEFINE T == {n \in Nat : m - n \in S}
<1>1. T # {}
  <2>1. PICK x \in S : TRUE
    OBVIOUS
  <2>2. x \in 0 .. m
    OBVIOUS
  <2>3. m - x \in Nat /\ m - (m - x) = x
    BY <2>2
  <2> QED  BY <2>3
<1>2. PICK t \in T : \A x \in T : t <= x
  <2>1. T \in SUBSET Nat
    OBVIOUS
  <2> HIDE DEF T
  <2> QED  BY <1>1, <2>1, HasLeast
<1>3. ASSUME NEW x \in S PROVE m - t >= x
  <2>1. x \in 0 .. m
    OBVIOUS
  <2>2. m - x \in T
    <3>1. m - x \in Nat /\ m - (m - x) = x
      BY <2>1
    <3> QED  BY <3>1
  <2>3. t \in Nat /\ t <= m - x /\ x \in Int
    BY <1>2, <2>1, <2>2
  <2> QED  BY <2>3
<1>4. m - t \in S /\ m - t \in Int
  BY <1>2
<1>5. \E x \in S : \A y \in S : x >= y
  BY <1>3, <1>4
<1>6. Max(S) \in S /\ \A y \in S : Max(S) >= y
  BY <1>5 DEF Max
<1> QED  BY <1>6

\* A quotient and its remainder.
LEMMA Divided ==
    ASSUME NEW a \in Int, NEW d \in Nat \ {0}
    PROVE  /\ a \div d \in Int
           /\ (a \div d) * d <= a /\ a < (a \div d) * d + d
           /\ a >= 0 => a \div d >= 0
OBVIOUS

-----------------------------------------------------------------------------
(* Cells that are removed and moved.                                       *)

\* The states of the loop of seq_rm.
IsKept(k, p0, p1, m, f) ==
    f = [i \in 0 .. m |->
          IF i = 0 THEN <<>>
          ELSE IF k[i].pos \in p0 .. p1 - 1 THEN f[i - 1] ELSE Append(f[i - 1], k[i])]

\* What the loop makes of its last state.
KeepCell(k, p0, p1, i, r) == IF k[i].pos \in p0 .. p1 - 1 THEN r ELSE Append(r, k[i])

\* There are such states.
LEMMA KeptExists ==
    ASSUME NEW k, NEW p0, NEW p1, NEW M \in Nat
    PROVE  \E f : IsKept(k, p0, p1, M, f)
<1> DEFINE Claim(m) == \E f : IsKept(k, p0, p1, m, f)
           Bad == {m \in Nat : ~Claim(m)}
<1>1. SUFFICES ASSUME Bad # {} PROVE FALSE
  OBVIOUS
<1>2. PICK m \in Bad : \A x \in Bad : m <= x
  <2>1. Bad \in SUBSET Nat
    OBVIOUS
  <2> HIDE DEF Bad
  <2> QED  BY <1>1, <2>1, HasLeast
<1>3. m # 0
  <2>1. IsKept(k, p0, p1, 0, [i \in 0 .. 0 |-> <<>>])
    BY DEF IsKept
  <2> QED  BY <2>1
<1>4. PICK j \in Nat : j = m - 1
  BY <1>3
<1>5. j \notin Bad
  BY <1>2, <1>4
<1>6. PICK f : IsKept(k, p0, p1, j, f)
  BY <1>5
<1> DEFINE g == [i \in 0 .. m |-> IF i = m THEN KeepCell(k, p0, p1, m, f[j]) ELSE f[i]]
<1>7. ASSUME NEW i \in 0 .. m
      PROVE  g[i] = IF i = 0 THEN <<>> ELSE KeepCell(k, p0, p1, i, g[i - 1])
  <2>1. \A x \in 0 .. j : g[x] = f[x]
    BY <1>4
  <2>2. \A x \in 0 .. j : f[x] = IF x = 0 THEN <<>> ELSE KeepCell(k, p0, p1, x, f[x - 1])
    BY <1>6 DEF IsKept, KeepCell
  <2>3. CASE i = m
    <3>1. g[i] = KeepCell(k, p0, p1, m, f[j]) /\ i - 1 = j /\ i # 0 /\ j \in 0 .. j
      BY <1>3, <1>4, <2>3
    <3> HIDE DEF g
    <3> QED  BY <2>1, <2>3, <3>1
  <2>4. CASE i # m
    <3>1. i \in 0 .. j /\ (i # 0 => i - 1 \in 0 .. j)
      BY <1>4, <2>4
    <3> HIDE DEF g
    <3> QED  BY <2>1, <2>2, <3>1
  <2> QED  BY <2>3, <2>4
<1>8. IsKept(k, p0, p1, m, g)
  <2>1. g = [i \in 0 .. m |-> g[i]]
    OBVIOUS
  <2> HIDE DEF g
  <2> QED  BY <1>7, <2>1 DEF IsKept, KeepCell
<1> QED  BY <1>8

\* seq_rm goes through them.
LEMMA RemoveRounds ==
    ASSUME NEW k, Len(k) \in Nat, NEW p0, NEW p1
    PROVE  \E f : /\ seq_rm(k, p0, p1) = f[Len(k)] /\ f[0] = <<>>
                  /\ \A i \in 1 .. Len(k) : f[i] = KeepCell(k, p0, p1, i, f[i - 1])
<1>1. \E f : IsKept(k, p0, p1, Len(k), f)
  BY KeptExists
<1>2. seq_rm(k, p0, p1) = (CHOOSE f : IsKept(k, p0, p1, Len(k), f))[Len(k)]
  BY DEF seq_rm, IsKept
<1>3. PICK f : f = CHOOSE h : IsKept(k, p0, p1, Len(k), h)
  OBVIOUS
<1>4. IsKept(k, p0, p1, Len(k), f)
  BY <1>1, <1>3
<1>5. f[0] = <<>> /\ \A i \in 1 .. Len(k) : f[i] = KeepCell(k, p0, p1, i, f[i - 1])
  <2>1. PICK m \in Nat : m = Len(k)
    OBVIOUS
  <2>2. \A i \in 0 .. m : f[i] = IF i = 0 THEN <<>> ELSE KeepCell(k, p0, p1, i, f[i - 1])
    BY <1>4, <2>1 DEF IsKept, KeepCell
  <2>3. 0 \in 0 .. m /\ \A i \in 1 .. m : i \in 0 .. m /\ i # 0
    BY <2>1
  <2> QED  BY <2>1, <2>2, <2>3
<1> QED  BY <1>2, <1>3, <1>5

\* What is left are cells of the sequence.
LEMMA RemoveType ==
    ASSUME NEW S, NEW k \in Seq(S), NEW p0, NEW p1
    PROVE  seq_rm(k, p0, p1) \in Seq(S)
<1>1. Len(k) \in Nat
  OBVIOUS
<1>2. PICK f : /\ seq_rm(k, p0, p1) = f[Len(k)] /\ f[0] = <<>>
               /\ \A i \in 1 .. Len(k) : f[i] = KeepCell(k, p0, p1, i, f[i - 1])
  BY <1>1, RemoveRounds
<1> DEFINE Bad == {i \in 0 .. Len(k) : f[i] \notin Seq(S)}
<1>3. SUFFICES ASSUME Bad # {} PROVE FALSE
  BY <1>1, <1>2
<1>4. PICK i \in Bad : \A x \in Bad : i <= x
  <2>1. Bad \in SUBSET Nat
    BY <1>1
  <2> HIDE DEF Bad
  <2> QED  BY <1>3, <2>1, HasLeast
<1>5. i # 0
  <2>1. f[0] \in Seq(S)
    BY <1>2, EmptySeq
  <2> QED  BY <2>1
<1>6. i \in 1 .. Len(k) /\ i - 1 \in 0 .. Len(k) /\ ~(i <= i - 1)
  BY <1>1, <1>5
<1>7. f[i - 1] \in Seq(S) /\ k[i] \in S
  BY <1>4, <1>6, ElementOfSeq
<1>8. f[i] = f[i - 1] \/ f[i] = Append(f[i - 1], k[i])
  BY <1>2, <1>6 DEF KeepCell
<1>9. Append(f[i - 1], k[i]) \in Seq(S)
  BY <1>7, AppendProperties
<1> QED  BY <1>7, <1>8, <1>9

\* The cells to be removed are those behind the first a, up to the b-th.
IsGap(k, p0, p1, a, b) ==
    /\ a \in 0 .. Len(k) /\ b \in a .. Len(k)
    /\ \A i \in 1 .. Len(k) : k[i].pos \in p0 .. p1 - 1 <=> i \in a + 1 .. b

\* r is x without that part.
Closed(r, x, a, b) ==
    /\ Len(r) = Len(x) - (b - a)
    /\ \A j \in 1 .. Len(x) - (b - a) : r[j] = IF j <= a THEN x[j] ELSE x[j + (b - a)]

\* When the cells removed are neighbours, the others move together.
LEMMA RemoveGap ==
    ASSUME NEW S, NEW k \in Seq(S), NEW p0, NEW p1, NEW a, NEW b, IsGap(k, p0, p1, a, b)
    PROVE  seq_rm(k, p0, p1) \in Seq(S) /\ Closed(seq_rm(k, p0, p1), k, a, b)
<1>0. Len(k) \in Nat /\ a \in 0 .. Len(k) /\ b \in a .. Len(k)
      /\ \A i \in 1 .. Len(k) : k[i].pos \in p0 .. p1 - 1 <=> i \in a + 1 .. b
  BY DEF IsGap
<1>1. Len(k) \in Nat /\ a \in Nat /\ b \in Nat /\ a <= b /\ b <= Len(k)
  BY <1>0
<1>2. PICK f : /\ seq_rm(k, p0, p1) = f[Len(k)] /\ f[0] = <<>>
               /\ \A i \in 1 .. Len(k) : f[i] = KeepCell(k, p0, p1, i, f[i - 1])
  <2>1. Len(k) \in Nat
    OBVIOUS
  <2> QED  BY <2>1, RemoveRounds
<1> DEFINE Left(i) == IF i <= a THEN i ELSE IF i <= b THEN a ELSE i - (b - a)
           Good(i) == /\ f[i] \in Seq(S) /\ Len(f[i]) = Left(i)
                      /\ \A j \in 1 .. Left(i) : f[i][j] = IF j <= a THEN k[j] ELSE k[j + (b - a)]
           Bad == {i \in 0 .. Len(k) : ~Good(i)}
<1>3. Good(0)
  BY <1>1, <1>2
<1>4. ASSUME Bad # {} PROVE FALSE
  <2>1. PICK i \in Bad : \A x \in Bad : i <= x
    <3>1. Bad \in SUBSET Nat
      BY <1>1
    <3> HIDE DEF Bad
    <3> QED  BY <1>4, <3>1, HasLeast
  <2>2. i \in 1 .. Len(k) /\ i - 1 \in 0 .. Len(k) /\ i - 1 < i
    BY <1>1, <1>3, <2>1
  <2>3. Good(i - 1)
    BY <2>1, <2>2
  <2>4. PICK r : r = f[i - 1]
    OBVIOUS
  <2>5. r \in Seq(S) /\ Len(r) = Left(i - 1) /\ k[i] \in S
        /\ \A j \in 1 .. Left(i - 1) : r[j] = IF j <= a THEN k[j] ELSE k[j + (b - a)]
    BY <2>2, <2>3, <2>4
  <2>6. f[i] = IF i \in a + 1 .. b THEN r ELSE Append(r, k[i])
    BY <1>0, <1>2, <2>2, <2>4 DEF KeepCell
  <2>7. CASE i \in a + 1 .. b
    <3>1. Left(i) = a /\ Left(i - 1) = a
      BY <1>1, <2>2, <2>7
    <3> HIDE DEF Left
    <3> QED  BY <2>1, <2>5, <2>6, <2>7, <3>1
  <2>8. CASE i \notin a + 1 .. b
    <3>1. Left(i) = Left(i - 1) + 1 /\ Left(i - 1) \in Nat
          /\ k[i] = IF Left(i) <= a THEN k[Left(i)] ELSE k[Left(i) + (b - a)]
      BY <1>1, <2>2, <2>8
    <3> HIDE DEF Left
    <3>2. PICK n \in Nat : n = Left(i - 1)
      BY <3>1
    <3>3. f[i] \in Seq(S) /\ Len(f[i]) = n + 1 /\ f[i][n + 1] = k[i] /\ \A j \in 1 .. n : f[i][j] = r[j]
      BY <2>5, <2>6, <2>8, <3>2, AppendProperties
    <3>4. \A j \in 1 .. n + 1 : j = n + 1 \/ j \in 1 .. n
      BY <3>2
    <3>5. Good(i)
      BY <2>5, <3>1, <3>2, <3>3, <3>4
    <3> QED  BY <2>1, <3>5
  <2> QED  BY <2>7, <2>8
<1>5. Good(Len(k)) /\ Left(Len(k)) = Len(k) - (b - a)
  <2>1. Left(Len(k)) = Len(k) - (b - a)
    BY <1>1
  <2>2. Len(k) \in 0 .. Len(k) /\ Len(k) \notin Bad
    BY <1>1, <1>4
  <2>3. Good(Len(k))
    BY <2>2
  <2> QED  BY <2>1, <2>3
<1> HIDE DEF Left
<1> QED  BY <1>2, <1>5 DEF Closed

-----------------------------------------------------------------------------
(* The inductive invariant: types, bounds and phases.                      *)

Cell   == [pos : 0 .. NCtx - 1, tok : Tokens]
Cached == Tokens \cup {Zero}

SlotType ==
    [state : {"idle", "started", "prompt", "generating"}, prompt : Seq(Tokens),
     cache_prompt : BOOLEAN, causal : BOOLEAN, n_keep : Int, n_discard : Int,
     n_past : Nat, cache : Seq(Cached), sampled : Vocab \cup {Unset},
     processed : Nat, n_decoded : Nat]

\* A cache that fits in the context.
CacheOK(c) == c \in Seq(Cached) /\ Len(c) <= NCtx

\* What a slot with a causal model keeps is limited when its prompt is started.
KeepOK(s) == s.causal => Len(s.prompt) < NCtx /\ s.n_keep \in 0 .. NCtx - 4

\* A prompt that is worked on has tokens left to evaluate.  Embeddings are
\* evaluated in one go.
PromptOK(s) ==
    s.state = "prompt" =>
        /\ s.n_past < Len(s.prompt) /\ Len(s.prompt) <= NCtx /\ KeepOK(s)
        /\ ~s.causal => s.n_past = 0

\* A slot that generates has evaluated something, has room for a token, and has
\* one cached token for each position.
GeneratingOK(s) ==
    s.state = "generating" =>
        /\ s.causal /\ KeepOK(s) /\ s.processed > 0 /\ s.n_past < NCtx /\ s.sampled \in Vocab
        /\ s.cache_prompt => Len(s.cache) = s.n_past

SlotOK(s) ==
    /\ s \in SlotType /\ CacheOK(s.cache)
    /\ s.state \in {"idle", "started"} => s.n_past = 0
    /\ PromptOK(s) /\ GeneratingOK(s)

FileOK ==
    file # Unset => CacheOK(file.cache) /\ file.kv \in Seq(Cell) /\ file.dirty \in BOOLEAN

\* Drafts are made for slots with room for one.
PhaseOK == phase = "speculate" => slot.state = "generating" /\ CanSpeculate(slot)

\* There is one token to predict the next one from for each position.
SeenFits == seen \in Seq(Tokens) /\ (slot.state = "generating" => Len(seen) = slot.n_past)

Bounded ==
    /\ SlotOK(slot) /\ kv \in Seq(Cell) /\ dirty \in BOOLEAN
    /\ SeenFits /\ FileOK /\ PhaseOK

-----------------------------------------------------------------------------
(* The inductive invariant: what the KV cache holds.                       *)

\* All a slot without cache_prompt has in its cache are the zeros of a resize.
Zeros(c) == \A i \in 1 .. Len(c) : c[i] = Zero

\* seen follows the slot, and so does its cache with cache_prompt.
SeenOK ==
    slot.state \in {"prompt", "generating"} /\ slot.causal =>
        /\ slot.state = "prompt" => seen = Prefix(slot.prompt, slot.n_past)
        /\ Len(seen) = slot.n_past
        /\ slot.cache_prompt => slot.cache = seen
        /\ ~slot.cache_prompt => Zeros(slot.cache)

\* For each n, when the first n tokens of the cache are tokens of a prompt or of
\* the model, the cells below position n hold them.
Agrees(c, k) ==
    \A n \in 0 .. Len(c) :
        (\A i \in 1 .. n : c[i] # Zero) => seq_rm(k, n, Infinity) = Cells(Prefix(c, n), 0)

Faithful ==
    /\ SeenOK
    /\ ~dirty => Agrees(slot.cache, kv)
    /\ ContextRight
    /\ file # Unset /\ ~file.dirty => Agrees(file.cache, file.kv)

-----------------------------------------------------------------------------
(* Sequences.                                                              *)

\* A function on 1 .. n is a sequence.
LEMMA FunctionIsSeq ==
    ASSUME NEW S, NEW n \in Nat, NEW f \in [1 .. n -> S]
    PROVE  f \in Seq(S) /\ Len(f) = n
<1>1. f \in Seq(S)
  OBVIOUS
<1>2. DOMAIN f = 1 .. n /\ DOMAIN f = 1 .. Len(f) /\ Len(f) \in Nat
  BY <1>1, LenProperties
<1> QED  BY <1>1, <1>2

\* A part of a sequence.
LEMMA Slice ==
    ASSUME NEW S, NEW s \in Seq(S), NEW m \in 1 .. Len(s) + 1, NEW n \in m - 1 .. Len(s)
    PROVE  /\ SubSeq(s, m, n) \in Seq(S) /\ Len(SubSeq(s, m, n)) = n - m + 1
           /\ \A i \in 1 .. n - m + 1 : SubSeq(s, m, n)[i] = s[m + i - 1]
<1>1. m \in Int /\ n \in Int /\ Len(s) \in Nat /\ (m <= n \/ n = m - 1)
  OBVIOUS
<1>2. \A i \in m .. n : i \in 1 .. Len(s) /\ s[i] \in S
  BY <1>1
<1>3. /\ SubSeq(s, m, n) \in Seq(S)
      /\ Len(SubSeq(s, m, n)) = IF m <= n THEN n - m + 1 ELSE 0
      /\ \A i \in 1 .. n - m + 1 : SubSeq(s, m, n)[i] = s[m + i - 1]
  BY <1>1, <1>2, SubSeqProperties
<1>4. (IF m <= n THEN n - m + 1 ELSE 0) = n - m + 1
  BY <1>1
<1> QED  BY <1>3, <1>4

\* The beginning of a sequence.
LEMMA PrefixIs ==
    ASSUME NEW S, NEW s \in Seq(S), NEW n \in 0 .. Len(s)
    PROVE  /\ Prefix(s, n) \in Seq(S) /\ Len(Prefix(s, n)) = n
           /\ \A i \in 1 .. n : Prefix(s, n)[i] = s[i]
<1>1. 1 \in 1 .. Len(s) + 1 /\ n \in 1 - 1 .. Len(s) /\ n - 1 + 1 = n
  OBVIOUS
<1>2. /\ SubSeq(s, 1, n) \in Seq(S) /\ Len(SubSeq(s, 1, n)) = n - 1 + 1
      /\ \A i \in 1 .. n - 1 + 1 : SubSeq(s, 1, n)[i] = s[1 + i - 1]
  BY <1>1, Slice
<1>3. \A i \in 1 .. n : 1 + i - 1 = i
  OBVIOUS
<1> QED  BY <1>1, <1>2, <1>3 DEF Prefix

\* Two parts of a sequence with a gap between them.
LEMMA GapIs ==
    ASSUME NEW S, NEW s \in Seq(S), NEW a \in 0 .. Len(s), NEW b \in a .. Len(s)
    PROVE  /\ Prefix(s, a) \o SubSeq(s, b + 1, Len(s)) \in Seq(S)
           /\ Closed(Prefix(s, a) \o SubSeq(s, b + 1, Len(s)), s, a, b)
<1>1. Len(s) \in Nat /\ a \in Nat /\ b \in Nat /\ a <= b /\ b <= Len(s)
  OBVIOUS
<1>2. PICK u : u = Prefix(s, a)
  OBVIOUS
<1>3. PICK v : v = SubSeq(s, b + 1, Len(s))
  OBVIOUS
<1>4. u \in Seq(S) /\ Len(u) = a /\ \A i \in 1 .. a : u[i] = s[i]
  BY <1>2, PrefixIs
<1>5. b + 1 \in 1 .. Len(s) + 1 /\ Len(s) \in (b + 1) - 1 .. Len(s)
  BY <1>1
<1>6. v \in Seq(S) /\ Len(v) = Len(s) - (b + 1) + 1
      /\ \A i \in 1 .. Len(s) - (b + 1) + 1 : v[i] = s[(b + 1) + i - 1]
  BY <1>3, <1>5, Slice
<1>7. /\ u \o v \in Seq(S) /\ Len(u \o v) = Len(u) + Len(v)
      /\ \A i \in 1 .. Len(u) + Len(v) : (u \o v)[i] = IF i <= Len(u) THEN u[i] ELSE v[i - Len(u)]
  BY <1>4, <1>6, ConcatProperties
<1>8. Len(u) + Len(v) = Len(s) - (b - a)
  BY <1>1, <1>4, <1>6
<1>9. ASSUME NEW i \in 1 .. Len(s) - (b - a)
      PROVE  (u \o v)[i] = IF i <= a THEN s[i] ELSE s[i + (b - a)]
  <2>1. CASE i <= a
    BY <1>1, <1>4, <1>7, <1>8, <2>1
  <2>2. CASE ~(i <= a)
    <3>1. i - a \in 1 .. Len(s) - (b + 1) + 1 /\ (b + 1) + (i - a) - 1 = i + (b - a)
      BY <1>1, <2>2
    <3> QED  BY <1>4, <1>6, <1>7, <1>8, <2>2, <3>1
  <2> QED  BY <2>1, <2>2
<1> QED  BY <1>2, <1>3, <1>7, <1>8, <1>9 DEF Closed

\* The smaller of two numbers.
LEMMA SmallerIs ==
    ASSUME NEW a \in Int, NEW b \in Int
    PROVE  /\ Smaller(a, b) \in {a, b} /\ Smaller(a, b) \in Int
           /\ Smaller(a, b) <= a /\ Smaller(a, b) <= b
BY DEF Smaller

\* A resized cache.
LEMMA ResizedIs ==
    ASSUME NEW c \in Seq(Cached), NEW n \in Nat
    PROVE  /\ Resized(c, n) \in Seq(Cached) /\ Len(Resized(c, n)) = n
           /\ \A i \in 1 .. n : Resized(c, n)[i] = IF i <= Len(c) THEN c[i] ELSE Zero
<1>1. PICK r : r = Resized(c, n)
  OBVIOUS
<1>2. r = [i \in 1 .. n |-> IF i <= Len(c) THEN c[i] ELSE Zero]
  BY <1>1 DEF Resized
<1>3. ASSUME NEW i \in 1 .. n PROVE r[i] \in Cached
  <2>1. CASE i <= Len(c)
    <3>1. i \in 1 .. Len(c)
      BY <2>1
    <3> QED  BY <1>2, <2>1, <3>1, ElementOfSeq
  <2>2. CASE ~(i <= Len(c))
    BY <1>2, <2>2 DEF Cached
  <2> QED  BY <2>1, <2>2
<1>4. r \in [1 .. n -> Cached]
  BY <1>2, <1>3
<1>5. r \in Seq(Cached) /\ Len(r) = n
  BY <1>4, FunctionIsSeq
<1>6. \A i \in 1 .. n : r[i] = IF i <= Len(c) THEN c[i] ELSE Zero
  BY <1>2
<1> QED  BY <1>1, <1>5, <1>6

\* Tokens from position p on.
LEMMA CellsAre ==
    ASSUME NEW S, NEW t \in Seq(S), NEW p
    PROVE  /\ Cells(t, p) \in Seq([pos : {p + i - 1 : i \in 1 .. Len(t)}, tok : S])
           /\ Len(Cells(t, p)) = Len(t)
           /\ \A i \in 1 .. Len(t) : Cells(t, p)[i] = [pos |-> p + i - 1, tok |-> t[i]]
<1>1. PICK n \in Nat : n = Len(t)
  OBVIOUS
<1>2. PICK k : k = Cells(t, p)
  OBVIOUS
<1>3. k = [i \in 1 .. n |-> [pos |-> p + i - 1, tok |-> t[i]]]
  BY <1>1, <1>2, LenProperties DEF Cells
<1>4. \A i \in 1 .. n : k[i] \in [pos : {p + j - 1 : j \in 1 .. n}, tok : S]
  BY <1>1, <1>3
<1>5. k \in [1 .. n -> [pos : {p + j - 1 : j \in 1 .. n}, tok : S]]
  BY <1>3, <1>4
<1>6. k \in Seq([pos : {p + j - 1 : j \in 1 .. n}, tok : S]) /\ Len(k) = n
  BY <1>5, FunctionIsSeq
<1> QED  BY <1>1, <1>2, <1>3, <1>6

-----------------------------------------------------------------------------
(* Cells of the context.                                                   *)

\* The size of a context.
LEMMA ContextSize == NCtx \in Nat /\ NCtx > 4 /\ Infinity \in Nat
BY ContextAssumption DEF Infinity

\* Cells of tokens that end within the context.
LEMMA CellsFit ==
    ASSUME NEW t \in Seq(Tokens), NEW p \in Nat, p + Len(t) <= NCtx
    PROVE  Cells(t, p) \in Seq(Cell)
<1>1. Cells(t, p) \in Seq([pos : {p + i - 1 : i \in 1 .. Len(t)}, tok : Tokens])
  BY CellsAre
<1>2. {p + i - 1 : i \in 1 .. Len(t)} \subseteq 0 .. NCtx - 1
  BY ContextSize
<1>3. PICK P : P = {p + i - 1 : i \in 1 .. Len(t)}
  OBVIOUS
<1>4. [pos : P, tok : Tokens] \subseteq Cell
  BY <1>2, <1>3 DEF Cell
<1> QED  BY <1>1, <1>3, <1>4, SeqMonotonic

\* Cells that move down stay in the context.
LEMMA AddFits ==
    ASSUME NEW k \in Seq(Cell), NEW p0 \in Int, NEW p1 \in Int, NEW delta \in Int,
           delta <= 0, p0 + delta >= 0
    PROVE  /\ seq_add(k, p0, p1, delta) \in Seq(Cell) /\ Len(seq_add(k, p0, p1, delta)) = Len(k)
           /\ \A i \in 1 .. Len(k) :
                /\ seq_add(k, p0, p1, delta)[i].tok = k[i].tok
                /\ k[i].pos \in p0 .. p1 - 1 => seq_add(k, p0, p1, delta)[i].pos = k[i].pos + delta
                /\ k[i].pos \notin p0 .. p1 - 1 => seq_add(k, p0, p1, delta)[i].pos = k[i].pos
<1>1. PICK n \in Nat : n = Len(k)
  OBVIOUS
<1>2. PICK r : r = seq_add(k, p0, p1, delta)
  OBVIOUS
<1>3. r = [i \in 1 .. n |->
            IF k[i].pos \in p0 .. p1 - 1 THEN [k[i] EXCEPT !.pos = @ + delta] ELSE k[i]]
  BY <1>1, <1>2, LenProperties DEF seq_add
<1>4. ASSUME NEW i \in 1 .. n
      PROVE  /\ r[i] \in Cell /\ r[i].tok = k[i].tok
             /\ k[i].pos \in p0 .. p1 - 1 => r[i].pos = k[i].pos + delta
             /\ k[i].pos \notin p0 .. p1 - 1 => r[i].pos = k[i].pos
  <2>1. k[i] \in Cell /\ k[i].pos \in 0 .. NCtx - 1 /\ k[i].tok \in Tokens
    <3>1. k[i] \in Cell
      BY <1>1, ElementOfSeq
    <3> QED  BY <3>1 DEF Cell
  <2>2. CASE k[i].pos \in p0 .. p1 - 1
    <3>1. r[i] = [k[i] EXCEPT !.pos = k[i].pos + delta]
      BY <1>3, <2>2
    <3>2. PICK q \in 0 .. NCtx - 1 : q = k[i].pos + delta
      BY <2>1, <2>2, ContextSize
    <3>3. r[i] = [k[i] EXCEPT !.pos = q]
      BY <3>1, <3>2
    <3>4. r[i] \in Cell /\ r[i].tok = k[i].tok /\ r[i].pos = q
      BY <2>1, <3>3 DEF Cell
    <3> QED  BY <2>2, <3>2, <3>4
  <2>3. CASE k[i].pos \notin p0 .. p1 - 1
    BY <1>3, <2>1, <2>3
  <2> QED  BY <2>2, <2>3
<1>5. r \in [1 .. n -> Cell]
  BY <1>3, <1>4
<1>6. r \in Seq(Cell) /\ Len(r) = n
  BY <1>5, FunctionIsSeq
<1> QED  BY <1>1, <1>2, <1>4, <1>6

-----------------------------------------------------------------------------
(* A slot that is started.                                                 *)

\* An idle slot is in order.
LEMMA IdleSlotOK ==
    ASSUME NEW c, CacheOK(c)
    PROVE  SlotOK(IdleSlot(c)) /\ IdleSlot(c).state = "idle" /\ IdleSlot(c).cache = c
BY EmptySeq DEF SlotOK, IdleSlot, SlotType, PromptOK, GeneratingOK, CacheOK

\* n_keep is limited.
LEMMA WithKeepOK ==
    ASSUME NEW s \in SlotType
    PROVE  \E h \in 0 .. NCtx - 4 : WithKeep(s) = [s EXCEPT !.n_keep = h]
<1>1. s.n_keep \in Int /\ s.prompt \in Seq(Tokens)
  BY DEF SlotType
<1>2. PICK x \in Nat : x = IF s.n_keep < 0 THEN Len(s.prompt) ELSE s.n_keep
  BY <1>1
<1>3. PICK h \in 0 .. NCtx - 4 : h = Smaller(NCtx - 4, x)
  BY ContextSize DEF Smaller
<1>4. WithKeep(s) = [s EXCEPT !.n_keep = h]
  BY <1>2, <1>3 DEF WithKeep
<1> QED  BY <1>4

\* A truncated prompt leaves room for a token and is not empty.
LEMMA TruncatedOK ==
    ASSUME NEW s \in SlotType, s.n_keep \in 0 .. NCtx - 4
    PROVE  \E p \in Seq(Tokens) :
              /\ Truncated(s) = [s EXCEPT !.prompt = p]
              /\ Len(p) < NCtx /\ (s.prompt # <<>> => p # <<>>)
<1>1. PICK q \in Seq(Tokens) : q = s.prompt
  BY DEF SlotType
<1>2. PICK n \in Nat : n = Len(q)
  OBVIOUS
<1>3. PICK h \in 0 .. NCtx - 4 : h = s.n_keep
  OBVIOUS
<1>4. CASE n < NCtx
  <2>1. Truncated(s) = s
    BY <1>1, <1>2, <1>4 DEF Truncated
  <2>2. s = [s EXCEPT !.prompt = q]
    BY <1>1 DEF SlotType
  <2> QED  BY <1>1, <1>2, <1>4, <2>1, <2>2
<1>5. CASE ~(n < NCtx)
  <2>1. PICK block \in Nat \ {0} : block = (NCtx - h) \div 2
    BY ContextSize
  <2>2. block >= 2 /\ 2 * block <= NCtx - h
    BY <2>1, ContextSize
  <2>3. PICK x \in Nat : x = n - h - block
    BY <1>5, <2>2, ContextSize
  <2>4. PICK e : e = x \div block
    OBVIOUS
  <2>5. e \in Nat /\ e * block <= x /\ x < e * block + block
    BY <2>3, <2>4, Divided
  <2>6. PICK y \in Nat : y = e * block
    BY <2>1, <2>5
  <2>7. PICK p : p = Prefix(q, h) \o SubSeq(q, h + y + 1, n)
    OBVIOUS
  <2>8. Truncated(s) = [s EXCEPT !.prompt = p]
    BY <1>1, <1>2, <1>3, <1>5, <2>1, <2>3, <2>4, <2>6, <2>7 DEF Truncated
  <2>9. h \in 0 .. Len(q) /\ h + y \in h .. Len(q)
    BY <1>2, <1>5, <2>1, <2>3, <2>5, <2>6, ContextSize
  <2>10. p \in Seq(Tokens) /\ Len(p) = n - ((h + y) - h)
    <3>1. PICK b \in h .. Len(q) : b = h + y
      BY <2>9
    <3>2. p \in Seq(Tokens) /\ Closed(p, q, h, b)
      BY <1>2, <2>7, <2>9, <3>1, GapIs
    <3> QED  BY <1>2, <3>1, <3>2 DEF Closed
  <2>11. Len(p) < NCtx /\ Len(p) > 0
    BY <1>2, <1>5, <2>1, <2>2, <2>3, <2>5, <2>6, <2>10, ContextSize
  <2>12. p # <<>>
    BY <2>11
  <2> QED  BY <2>8, <2>10, <2>11, <2>12
<1> QED  BY <1>4, <1>5

\* A match is a match, and within both sequences.
LEMMA MatchIs ==
    ASSUME NEW S, NEW cache \in Seq(S), NEW T, NEW prompt \in Seq(T),
           NEW c \in 0 .. Len(cache), NEW p \in 0 .. Len(prompt)
    PROVE  /\ Match(cache, c, prompt, p) \in Nat
           /\ Match(cache, c, prompt, p) <= Len(cache) - c
           /\ Match(cache, c, prompt, p) <= Len(prompt) - p
           /\ \A i \in 1 .. Match(cache, c, prompt, p) : cache[c + i] = prompt[p + i]
<1>0. Len(cache) - c \in Nat /\ Len(prompt) - p \in Nat
  OBVIOUS
<1>1. PICK m \in Nat : m = Smaller(Len(cache) - c, Len(prompt) - p)
  BY <1>0 DEF Smaller
<1>2. m <= Len(cache) - c /\ m <= Len(prompt) - p
  BY <1>0, <1>1 DEF Smaller
<1> DEFINE N == {n \in 0 .. m : \A i \in 1 .. n : cache[c + i] = prompt[p + i]}
<1>3. 0 \in N
  OBVIOUS
<1>4. Match(cache, c, prompt, p) = Max(N)
  BY <1>1 DEF Match
<1>5. Max(N) \in N
  <2>1. N \in SUBSET (0 .. m) /\ N # {}
    BY <1>3
  <2> HIDE DEF N
  <2> QED  BY <2>1, GreatestOf
<1>6. PICK r : r = Match(cache, c, prompt, p)
  OBVIOUS
<1>7. r \in 0 .. m /\ \A i \in 1 .. r : cache[c + i] = prompt[p + i]
  BY <1>4, <1>5, <1>6
<1>8. r \in Nat /\ r <= Len(cache) - c /\ r <= Len(prompt) - p
  BY <1>2, <1>7
<1> QED  BY <1>6, <1>7, <1>8

\* Two slots differ at most in what is cached and how much of it is used.
SameRequest(s, t) ==
    /\ t.state = s.state /\ t.prompt = s.prompt /\ t.cache_prompt = s.cache_prompt
    /\ t.causal = s.causal /\ t.n_keep = s.n_keep /\ t.n_discard = s.n_discard
    /\ t.sampled = s.sampled /\ t.processed = s.processed /\ t.n_decoded = s.n_decoded

\* Where the loop over the chunks is: what it reuses is part of the prompt, and
\* it moves chunks only towards the beginning.
Chunked(s, acc) ==
    /\ acc.slot \in SlotType /\ SameRequest(s, acc.slot) /\ Len(acc.slot.cache) = Len(s.cache)
    /\ acc.kv \in Seq(Cell)
    /\ acc.head_p = acc.slot.n_past /\ acc.head_p \in 0 .. Len(s.prompt)
    /\ acc.head_c \in Int /\ acc.head_p <= acc.head_c

\* A round of the loop.
LEMMA ReuseChunkOK ==
    ASSUME NEW s \in SlotType, NEW acc, Chunked(s, acc), NEW c \in 0 .. Len(s.cache) - 1
    PROVE  Chunked(s, ReuseChunk(acc, c))
<1>1. PICK t \in SlotType : t = acc.slot
  BY DEF Chunked
<1>2. PICK k \in Seq(Cell) : k = acc.kv
  BY DEF Chunked
<1>3. s.prompt \in Seq(Tokens) /\ s.cache \in Seq(Cached) /\ t.cache \in Seq(Cached)
  BY DEF SlotType
<1>4. t.prompt = s.prompt /\ Len(t.cache) = Len(s.cache) /\ SameRequest(s, t)
  BY <1>1 DEF Chunked, SameRequest
<1>5. PICK p \in 0 .. Len(s.prompt) : p = acc.head_p
  BY DEF Chunked
<1>6. t.n_past = p /\ acc.head_c \in Int /\ p <= acc.head_c
  BY <1>1, <1>5 DEF Chunked
<1>7. PICK cache \in Seq(Cached) : cache = t.cache
  BY <1>3
<1>8. PICK prompt \in Seq(Tokens) : prompt = t.prompt
  BY <1>3, <1>4
<1>9. c \in 0 .. Len(cache) /\ p \in 0 .. Len(prompt) /\ Len(cache) \in Nat /\ Len(prompt) \in Nat
  BY <1>3, <1>4, <1>7, <1>8
<1>10. PICK n : n = Match(cache, c, prompt, p)
  OBVIOUS
<1>11. n \in Nat /\ n <= Len(cache) - c /\ n <= Len(prompt) - p
  BY <1>9, <1>10, MatchIs
<1> DEFINE moved == [i \in DOMAIN cache |-> IF i \in p + 1 .. p + n THEN cache[i + c - p] ELSE cache[i]]
           after == [slot |-> [t EXCEPT !.n_past = @ + n, !.cache = moved],
                     kv |-> seq_add(seq_rm(k, p, c), c, Infinity, p - c),
                     head_c |-> c + n, head_p |-> p + n]
<1>12. ReuseChunk(acc, c)
         = IF c < acc.head_c \/ p >= Len(prompt) \/ n < NCacheReuse THEN acc ELSE after
  <2> HIDE DEF after
  <2>1. ReuseChunk(acc, c)
          = IF c < acc.head_c \/ p >= Len(prompt) \/ n < NCacheReuse THEN acc
            ELSE [slot |-> [t EXCEPT !.n_past = @ + n,
                             !.cache = [i \in DOMAIN @ |-> IF i \in p + 1 .. p + n
                                                           THEN @[i + c - p] ELSE @[i]]],
                  kv |-> seq_add(seq_rm(k, p, c), c, Infinity, p - c),
                  head_c |-> c + n, head_p |-> p + n]
    BY <1>1, <1>2, <1>5, <1>7, <1>8, <1>10 DEF ReuseChunk
  <2>2. [t EXCEPT !.n_past = @ + n,
                  !.cache = [i \in DOMAIN @ |-> IF i \in p + 1 .. p + n THEN @[i + c - p] ELSE @[i]]]
          = [t EXCEPT !.n_past = @ + n, !.cache = moved]
    BY <1>7
  <2> HIDE DEF moved
  <2> QED  BY <2>1, <2>2 DEF after
<1>13. ASSUME ~(c < acc.head_c) PROVE Chunked(s, after)
  <2>1. p <= c
    BY <1>6, <1>9, <1>13
  <2>2. moved \in Seq(Cached) /\ Len(moved) = Len(cache)
    <3>1. ASSUME NEW i \in 1 .. Len(cache)
          PROVE  (IF i \in p + 1 .. p + n THEN cache[i + c - p] ELSE cache[i]) \in Cached
      <4>1. CASE i \in p + 1 .. p + n
        <5>1. i + c - p \in 1 .. Len(cache)
          BY <1>9, <1>11, <2>1, <4>1
        <5> QED  BY <4>1, <5>1, ElementOfSeq
      <4>2. CASE i \notin p + 1 .. p + n
        BY <4>2, ElementOfSeq
      <4> QED  BY <4>1, <4>2
    <3>2. moved \in [1 .. Len(cache) -> Cached]
      BY <3>1, LenProperties
    <3> HIDE DEF moved
    <3> QED  BY <1>9, <3>2, FunctionIsSeq
  <2>3. PICK k2 : k2 = seq_add(seq_rm(k, p, c), c, Infinity, p - c)
    OBVIOUS
  <2>4. k2 \in Seq(Cell)
    <3>1. PICK k1 \in Seq(Cell) : k1 = seq_rm(k, p, c)
      BY RemoveType
    <3>2. c \in Int /\ Infinity \in Int /\ p - c \in Int /\ p - c <= 0 /\ c + (p - c) >= 0
      BY <1>9, <2>1, ContextSize
    <3> QED  BY <2>3, <3>1, <3>2, AddFits
  <2>5. PICK x \in Nat : x = p + n
    BY <1>9, <1>11
  <2>6. PICK m \in Seq(Cached) : m = moved
    BY <2>2
  <2> HIDE DEF moved
  <2>7. PICK u : u = [t EXCEPT !.n_past = x, !.cache = m]
    OBVIOUS
  <2>8. u \in SlotType /\ SameRequest(t, u) /\ u.cache = m /\ u.n_past = x
    BY <2>7 DEF SlotType, SameRequest
  <2>9. after = [slot |-> u, kv |-> k2, head_c |-> c + n, head_p |-> x]
    BY <1>6, <2>3, <2>5, <2>6, <2>7 DEF SlotType
  <2> HIDE DEF after
  <2>10. after.slot = u /\ after.kv = k2 /\ after.head_c = c + n /\ after.head_p = x
    BY <2>9
  <2>11. SameRequest(s, u)
    BY <1>4, <2>8 DEF SameRequest
  <2>12. x \in 0 .. Len(s.prompt) /\ c + n \in Int /\ x <= c + n
    BY <1>4, <1>8, <1>9, <1>11, <2>1, <2>5
  <2>13. Len(u.cache) = Len(s.cache)
    BY <1>4, <1>7, <2>2, <2>6, <2>8
  <2> QED  BY <2>4, <2>8, <2>10, <2>11, <2>12, <2>13 DEF Chunked
<1> HIDE DEF after
<1> QED  BY <1>12, <1>13

\* The states of the loop over the chunks.
IsChunked(start, m, f) ==
    f = [c \in 0 .. m |-> IF c = 0 THEN start ELSE ReuseChunk(f[c - 1], c - 1)]

\* There are such states.
LEMMA ChunksExist ==
    ASSUME NEW start, NEW M \in Nat
    PROVE  \E f : IsChunked(start, M, f)
<1> DEFINE Claim(m) == \E f : IsChunked(start, m, f)
           Bad == {m \in Nat : ~Claim(m)}
<1>1. SUFFICES ASSUME Bad # {} PROVE FALSE
  OBVIOUS
<1>2. PICK m \in Bad : \A x \in Bad : m <= x
  <2>1. Bad \in SUBSET Nat
    OBVIOUS
  <2> HIDE DEF Bad
  <2> QED  BY <1>1, <2>1, HasLeast
<1>3. m # 0
  <2>1. IsChunked(start, 0, [c \in 0 .. 0 |-> start])
    BY DEF IsChunked
  <2> QED  BY <2>1
<1>4. PICK j \in Nat : j = m - 1
  BY <1>3
<1>5. j \notin Bad
  BY <1>2, <1>4
<1>6. PICK f : IsChunked(start, j, f)
  BY <1>5
<1> DEFINE g == [c \in 0 .. m |-> IF c = m THEN ReuseChunk(f[j], j) ELSE f[c]]
<1>7. ASSUME NEW c \in 0 .. m
      PROVE  g[c] = IF c = 0 THEN start ELSE ReuseChunk(g[c - 1], c - 1)
  <2>1. \A x \in 0 .. j : g[x] = f[x]
    BY <1>4
  <2>2. \A x \in 0 .. j : f[x] = IF x = 0 THEN start ELSE ReuseChunk(f[x - 1], x - 1)
    BY <1>6 DEF IsChunked
  <2>3. CASE c = m
    <3>1. g[c] = ReuseChunk(f[j], j) /\ c - 1 = j /\ c # 0 /\ j \in 0 .. j
      BY <1>3, <1>4, <2>3
    <3> HIDE DEF g
    <3> QED  BY <2>1, <3>1
  <2>4. CASE c # m
    <3>1. c \in 0 .. j /\ (c # 0 => c - 1 \in 0 .. j)
      BY <1>4, <2>4
    <3> HIDE DEF g
    <3> QED  BY <2>1, <2>2, <3>1
  <2> QED  BY <2>3, <2>4
<1>8. IsChunked(start, m, g)
  <2>1. g = [c \in 0 .. m |-> g[c]]
    OBVIOUS
  <2> HIDE DEF g
  <2> QED  BY <1>7, <2>1 DEF IsChunked
<1> QED  BY <1>8

\* What is reused is part of the prompt.
LEMMA ReusedOK ==
    ASSUME NEW s \in SlotType, s.n_past = 0, NEW k \in Seq(Cell)
    PROVE  /\ Reused(s, k).slot \in SlotType /\ SameRequest(s, Reused(s, k).slot)
           /\ Len(Reused(s, k).slot.cache) = Len(s.cache)
           /\ Reused(s, k).slot.n_past <= Len(s.prompt)
           /\ Reused(s, k).kv \in Seq(Cell)
           /\ ~s.cache_prompt => Reused(s, k) = [slot |-> s, kv |-> k]
           /\ NCacheReuse = 0 =>
                /\ Reused(s, k).kv = k /\ Reused(s, k).slot.cache = s.cache
                /\ Reused(s, k).slot.n_past <= Len(s.cache)
                /\ \A i \in 1 .. Reused(s, k).slot.n_past : s.cache[i] = s.prompt[i]
<1>1. s.prompt \in Seq(Tokens) /\ s.cache \in Seq(Cached) /\ s.cache_prompt \in BOOLEAN
  BY DEF SlotType
<1>2. Len(s.prompt) \in Nat /\ Len(s.cache) \in Nat
  BY <1>1
<1>3. PICK n : n = Match(s.cache, 0, s.prompt, 0)
  OBVIOUS
<1>4. n \in Nat /\ n <= Len(s.cache) /\ n <= Len(s.prompt) /\ \A i \in 1 .. n : s.cache[i] = s.prompt[i]
  <2>1. 0 \in 0 .. Len(s.cache) /\ 0 \in 0 .. Len(s.prompt)
    BY <1>2
  <2>2. PICK c \in Seq(Cached) : c = s.cache
    BY <1>1
  <2>3. PICK p \in Seq(Tokens) : p = s.prompt
    BY <1>1
  <2>4. n \in Nat /\ n <= Len(c) - 0 /\ n <= Len(p) - 0 /\ \A i \in 1 .. n : c[0 + i] = p[0 + i]
    <3>1. 0 \in 0 .. Len(c) /\ 0 \in 0 .. Len(p) /\ n = Match(c, 0, p, 0)
      BY <1>3, <2>1, <2>2, <2>3
    <3>2. PICK z : z = 0
      OBVIOUS
    <3>3. z \in 0 .. Len(c) /\ z \in 0 .. Len(p) /\ n = Match(c, z, p, z)
      BY <3>1, <3>2
    <3>4. /\ n \in Nat /\ n <= Len(c) - z /\ n <= Len(p) - z
          /\ \A i \in 1 .. n : c[z + i] = p[z + i]
      BY <3>3, MatchIs
    <3> QED  BY <3>2, <3>4
  <2>5. \A i \in 1 .. n : 0 + i = i
    BY <2>4
  <2> QED  BY <1>2, <2>2, <2>3, <2>4, <2>5
<1>5. PICK t : t = [s EXCEPT !.n_past = n]
  OBVIOUS
<1>6. t \in SlotType /\ SameRequest(s, t) /\ t.cache = s.cache /\ t.n_past = n
  BY <1>4, <1>5 DEF SlotType, SameRequest
<1>7. PICK start : start = [slot |-> t, kv |-> k, head_c |-> n, head_p |-> n]
  OBVIOUS
<1>8. start.slot = t /\ start.kv = k /\ start.head_c = n /\ start.head_p = n
  BY <1>7
<1>9. Chunked(s, start)
  BY <1>2, <1>4, <1>6, <1>8 DEF Chunked
<1>10. PICK f : f = CHOOSE h : IsChunked(start, Len(s.cache), h)
  OBVIOUS
<1>11. Reused(s, k) = IF ~s.cache_prompt THEN [slot |-> s, kv |-> k]
                      ELSE IF NCacheReuse = 0 THEN start ELSE f[Len(s.cache)]
  BY <1>3, <1>5, <1>7, <1>10 DEF Reused, IsChunked
<1>12. PICK r : r = Reused(s, k)
  OBVIOUS
<1>13. CASE ~s.cache_prompt
  <2>1. r.slot = s /\ r.kv = k
    BY <1>11, <1>12, <1>13
  <2>2. SameRequest(s, s)
    BY DEF SameRequest
  <2> QED  BY <1>2, <1>11, <1>12, <1>13, <2>1, <2>2
<1>14. CASE s.cache_prompt /\ NCacheReuse = 0
  <2>1. r.slot = t /\ r.kv = k
    BY <1>8, <1>11, <1>12, <1>14
  <2> QED  BY <1>4, <1>6, <1>12, <1>14, <2>1
<1>15. CASE s.cache_prompt /\ NCacheReuse # 0
  <2>1. IsChunked(start, Len(s.cache), f)
    BY <1>2, <1>10, ChunksExist
  <2>2. PICK m \in Nat : m = Len(s.cache)
    BY <1>2
  <2>3. \A c \in 0 .. m : f[c] = IF c = 0 THEN start ELSE ReuseChunk(f[c - 1], c - 1)
    BY <2>1, <2>2 DEF IsChunked
  <2> DEFINE Bad == {c \in 0 .. m : ~Chunked(s, f[c])}
  <2>4. ASSUME Bad # {} PROVE FALSE
    <3>1. PICK c \in Bad : \A x \in Bad : c <= x
      <4>1. Bad \in SUBSET Nat
        BY <2>2
      <4> HIDE DEF Bad
      <4> QED  BY <2>4, <4>1, HasLeast
    <3>2. c # 0
      BY <1>9, <2>3, <3>1
    <3>3. PICK d \in 0 .. m - 1 : d = c - 1
      BY <3>1, <3>2
    <3>4. d \in 0 .. m /\ d \notin Bad /\ f[c] = ReuseChunk(f[d], d)
      BY <2>3, <3>1, <3>2, <3>3
    <3>5. Chunked(s, f[d])
      BY <3>4
    <3>6. Chunked(s, ReuseChunk(f[d], d))
      BY <2>2, <3>3, <3>5, ReuseChunkOK
    <3> QED  BY <3>1, <3>4, <3>6
  <2>5. Chunked(s, f[m])
    BY <2>2, <2>4
  <2>6. r = f[m]
    BY <1>11, <1>12, <1>15, <2>2
  <2> QED  BY <1>12, <1>15, <2>5, <2>6 DEF Chunked
<1> QED  BY <1>1, <1>13, <1>14, <1>15

\* A slot whose prompt a round has started.  The last two conjuncts say where
\* what it reuses comes from.
StartedOK(s, k, t, k2) ==
    /\ t \in SlotType /\ t.state = "prompt" /\ t.processed = 0
    /\ t.causal = s.causal /\ t.cache_prompt = s.cache_prompt
    /\ Len(t.cache) = Len(s.cache) /\ PromptOK(t)
    /\ k2 \in Seq(Cell)
    /\ ~s.cache_prompt \/ ~s.causal => t.n_past = 0
    /\ NCacheReuse = 0 \/ ~s.causal =>
        /\ k2 = k /\ t.cache = s.cache /\ t.n_past <= Len(t.cache)
        /\ \A i \in 1 .. t.n_past : t.cache[i] = t.prompt[i]

\* A prompt that is not refused can be started.
LEMMA StartOK ==
    ASSUME NEW s, SlotOK(s), s.state = "started", ~Refused(s), NEW k \in Seq(Cell)
    PROVE  StartedOK(s, k, Started(s, k).slot, Started(s, k).kv)
<1>1. s \in SlotType /\ s.n_past = 0 /\ s.prompt # <<>> /\ s.causal \in BOOLEAN
      /\ s.prompt \in Seq(Tokens) /\ s.cache \in Seq(Cached)
  BY DEF SlotOK, Refused, SlotType
<1>2. Len(s.prompt) \in Nat /\ Len(s.prompt) > 0 /\ Len(s.cache) \in Nat
  BY <1>1, EmptySeq
<1>3. CASE ~s.causal
  <2>1. Len(s.prompt) <= NCtx
    <3>1. ~(Len(s.prompt) > Smaller(NUBatch, NCtx))
      BY <1>3 DEF Refused
    <3>2. NUBatch \in Int /\ NCtx \in Int
      BY ContextAssumption
    <3> QED  BY <1>2, <3>1, <3>2 DEF Smaller
  <2>2. EvaluateOne(s) = s
    BY <1>1, <1>2 DEF EvaluateOne
  <2>3. PICK t : t = [s EXCEPT !.state = "prompt", !.processed = 0]
    OBVIOUS
  <2>4. Started(s, k).slot = t /\ Started(s, k).kv = k
    BY <1>3, <2>2, <2>3 DEF Started
  <2>5. t \in SlotType /\ t.state = "prompt" /\ t.processed = 0 /\ t.causal = s.causal
        /\ t.cache_prompt = s.cache_prompt /\ t.cache = s.cache /\ t.n_past = 0 /\ t.prompt = s.prompt
    BY <1>1, <2>3 DEF SlotType
  <2>6. PromptOK(t)
    BY <1>2, <1>3, <2>1, <2>5 DEF PromptOK, KeepOK
  <2> QED  BY <1>2, <2>4, <2>5, <2>6 DEF StartedOK
<1>4. CASE s.causal
  <2>1. PICK h \in 0 .. NCtx - 4 : WithKeep(s) = [s EXCEPT !.n_keep = h]
    BY <1>1, WithKeepOK
  <2>2. PICK s1 : s1 = WithKeep(s)
    OBVIOUS
  <2>3. s1 \in SlotType /\ s1.n_keep = h /\ s1.prompt = s.prompt /\ s1.causal = s.causal
        /\ s1.cache_prompt = s.cache_prompt /\ s1.cache = s.cache /\ s1.n_past = 0
    <3>1. s \in SlotType /\ s.n_past = 0 /\ h \in Int
      BY <1>1, ContextSize
    <3>2. s1 = [s EXCEPT !.n_keep = h]
      BY <2>1, <2>2
    <3>3. s1 \in SlotType
      BY <3>1, <3>2 DEF SlotType
    <3> QED  BY <3>1, <3>2, <3>3 DEF SlotType
  <2>4. PICK p \in Seq(Tokens) : /\ Truncated(s1) = [s1 EXCEPT !.prompt = p]
                                 /\ Len(p) < NCtx /\ (s1.prompt # <<>> => p # <<>>)
    BY <2>3, TruncatedOK
  <2>5. PICK s2 : s2 = Truncated(s1)
    OBVIOUS
  <2>6. s2 \in SlotType /\ s2.n_keep = h /\ s2.prompt = p /\ s2.causal = s.causal
        /\ s2.cache_prompt = s.cache_prompt /\ s2.cache = s.cache /\ s2.n_past = 0
    BY <2>3, <2>4, <2>5 DEF SlotType
  <2>7. Len(p) \in Nat /\ Len(p) > 0 /\ Len(p) < NCtx
    BY <1>1, <2>3, <2>4, EmptySeq
  <2>8. PICK r : r = Reused(s2, k)
    OBVIOUS
  <2>9. PICK u : u = r.slot
    OBVIOUS
  <2>10. /\ u \in SlotType /\ SameRequest(s2, u) /\ Len(u.cache) = Len(s2.cache)
         /\ u.n_past <= Len(p) /\ r.kv \in Seq(Cell)
         /\ ~s2.cache_prompt => r = [slot |-> s2, kv |-> k]
         /\ NCacheReuse = 0 =>
              /\ r.kv = k /\ u.cache = s2.cache /\ u.n_past <= Len(s2.cache)
              /\ \A i \in 1 .. u.n_past : s2.cache[i] = s2.prompt[i]
    BY <2>6, <2>8, <2>9, ReusedOK
  <2>11. PICK v : v = EvaluateOne(u)
    OBVIOUS
  <2>12. u.n_past \in Nat /\ u.prompt = p /\ u.n_keep = h
    BY <2>6, <2>10 DEF SlotType, SameRequest
  <2>13. PICK x \in Nat : x = IF u.n_past = Len(p) THEN u.n_past - 1 ELSE u.n_past
    BY <2>7, <2>12
  <2>14. x < Len(p) /\ x <= u.n_past
    BY <2>7, <2>10, <2>12, <2>13
  <2>15. v = [u EXCEPT !.n_past = x]
    BY <2>10, <2>11, <2>12, <2>13 DEF EvaluateOne, SlotType
  <2>16. PICK t : t = [v EXCEPT !.state = "prompt", !.processed = 0]
    OBVIOUS
  <2>17. Started(s, k).slot = t /\ Started(s, k).kv = r.kv
    BY <1>4, <2>2, <2>5, <2>8, <2>9, <2>11, <2>16 DEF Started
  <2>18. t \in SlotType /\ t.state = "prompt" /\ t.processed = 0 /\ t.causal = u.causal
         /\ t.cache_prompt = u.cache_prompt /\ t.cache = u.cache /\ t.n_past = x
         /\ t.prompt = u.prompt /\ t.n_keep = u.n_keep
    BY <2>10, <2>15, <2>16 DEF SlotType
  <2>19. t.causal = s.causal /\ t.cache_prompt = s.cache_prompt /\ Len(t.cache) = Len(s.cache)
    BY <2>6, <2>10, <2>18 DEF SameRequest
  <2>20. PromptOK(t)
    <3>1. Len(p) <= NCtx /\ t.n_keep \in 0 .. NCtx - 4 /\ t.prompt = p /\ t.n_past < Len(p)
      BY <2>7, <2>12, <2>14, <2>18, ContextSize
    <3> QED  BY <1>4, <2>7, <2>19, <3>1 DEF PromptOK, KeepOK
  <2>21. ASSUME ~s.cache_prompt PROVE t.n_past = 0
    <3>1. u = s2
      BY <2>6, <2>9, <2>10, <2>21
    <3> QED  BY <2>6, <2>14, <2>18, <3>1
  <2>22. ASSUME NCacheReuse = 0
         PROVE  /\ r.kv = k /\ t.cache = s.cache /\ t.n_past <= Len(t.cache)
                /\ \A i \in 1 .. t.n_past : t.cache[i] = t.prompt[i]
    <3>1. r.kv = k /\ t.cache = s.cache /\ u.n_past <= Len(s.cache)
          /\ \A i \in 1 .. u.n_past : s.cache[i] = p[i]
      BY <2>6, <2>10, <2>18, <2>22
    <3>2. \A i \in 1 .. x : i \in 1 .. u.n_past
      BY <2>12, <2>14
    <3> QED  BY <1>2, <2>12, <2>14, <2>18, <3>1, <3>2
  <2> QED  BY <1>4, <2>10, <2>17, <2>18, <2>19, <2>20, <2>21, <2>22 DEF StartedOK
<1> QED  BY <1>1, <1>3, <1>4

-----------------------------------------------------------------------------
(* The steps of a round.                                                   *)

\* t goes on where s is.
Continues(s, t) ==
    /\ t.state \in {"prompt", "generating"} /\ t.prompt = s.prompt /\ t.n_past = s.n_past
    /\ t.cache = s.cache /\ t.cache_prompt = s.cache_prompt /\ t.causal = s.causal

\* A slot that a token can be sampled for.
Sampling(s) ==
    /\ s \in SlotType /\ CacheOK(s.cache) /\ s.causal /\ KeepOK(s)
    /\ s.processed > 0 /\ s.n_past <= NCtx
    /\ s.cache_prompt => Len(s.cache) = s.n_past

\* A released slot is in order.
LEMMA ReleaseOK ==
    ASSUME NEW s, CacheOK(s.cache)
    PROVE  SlotOK(release(s)) /\ release(s).state = "idle" /\ release(s).cache = s.cache
BY IdleSlotOK DEF release

\* After a token a slot is released or generates.
LEMMA ProcessTokenOK ==
    ASSUME NEW s, Sampling(s), NEW n \in Nat, NEW tok \in Vocab, NEW stop
    PROVE  /\ SlotOK(ProcessToken(s, n, tok, stop))
           /\ ProcessToken(s, n, tok, stop) = release(s) \/ Continues(s, ProcessToken(s, n, tok, stop))
<1>1. s \in SlotType /\ s.n_decoded \in Nat /\ s.n_past \in Nat
  BY DEF Sampling, SlotType
<1>2. CASE stop \/ s.n_decoded + n >= NPredict \/ s.n_past >= NCtx
  BY <1>2, ReleaseOK DEF ProcessToken, Sampling
<1>3. CASE ~(stop \/ s.n_decoded + n >= NPredict \/ s.n_past >= NCtx)
  <2>1. PICK m \in Nat : m = s.n_decoded + n
    BY <1>1
  <2>2. PICK t : t = [s EXCEPT !.sampled = tok, !.state = "generating", !.n_decoded = m]
    OBVIOUS
  <2>3. ProcessToken(s, n, tok, stop) = t
    BY <1>3, <2>1, <2>2 DEF ProcessToken
  <2>4. /\ t \in SlotType /\ t.state = "generating" /\ t.sampled = tok /\ t.prompt = s.prompt
        /\ t.n_past = s.n_past /\ t.cache = s.cache /\ t.cache_prompt = s.cache_prompt
        /\ t.causal = s.causal /\ t.n_keep = s.n_keep /\ t.processed = s.processed
    BY <1>1, <2>2 DEF SlotType
  <2>5. s.n_past < NCtx
    BY <1>1, <1>3, ContextSize
  <2>6. SlotOK(t)
    BY <2>4, <2>5 DEF SlotOK, Sampling, PromptOK, GeneratingOK, KeepOK
  <2> QED  BY <2>3, <2>4, <2>6 DEF Continues
<1> QED  BY <1>2, <1>3

\* A decode stores cells behind the others; when it leaves nothing wrong, it
\* stores all of them once.
LEMMA DecodeOK ==
    ASSUME NEW s, CacheOK(s.cache), NEW t, SlotOK(t), NEW k \in Seq(Cell),
           NEW tokens \in Seq(Cell), NEW d \in BOOLEAN, Decode(s, t, k, tokens, d)
    PROVE  /\ SlotOK(slot') /\ slot' \in {t, release(s)} /\ kv' \in Seq(Cell)
           /\ dirty' \in BOOLEAN
           /\ ~dirty' => ~d /\ kv' = k \o tokens
<1>1. k \o tokens \in Seq(Cell)
  BY ConcatProperties
<1>2. ASSUME NEW j \in 0 .. Len(tokens)
      PROVE  /\ k \o Prefix(tokens, j) \in Seq(Cell)
             /\ k \o Prefix(tokens, j) \o tokens \in Seq(Cell)
             /\ j = Len(tokens) => Prefix(tokens, j) = tokens
  <2>1. Prefix(tokens, j) \in Seq(Cell)
    BY PrefixIs
  <2>2. k \o Prefix(tokens, j) \in Seq(Cell)
    BY <2>1, ConcatProperties
  <2>3. k \o Prefix(tokens, j) \o tokens \in Seq(Cell)
    BY <2>2, ConcatProperties
  <2>4. j = Len(tokens) => Prefix(tokens, j) = tokens
    BY SubSeqFull DEF Prefix
  <2> QED  BY <2>2, <2>3, <2>4
<1>3. SlotOK(release(s))
  BY ReleaseOK
<1>4. CASE kv' = k \o tokens /\ slot' = t /\ dirty' = d
  BY <1>1, <1>4
<1>5. CASE \E j \in DOMAIN tokens :
              ~d /\ kv' = k \o Prefix(tokens, j) \o tokens /\ slot' = t /\ dirty' = TRUE
  <2>1. \A j \in DOMAIN tokens : j \in 0 .. Len(tokens)
    BY LenProperties
  <2> QED  BY <1>2, <1>5, <2>1
<1>6. CASE \E j \in 0 .. Len(tokens) :
              /\ ~d /\ kv' = k \o Prefix(tokens, j)
              /\ slot' = release(s) /\ dirty' = (j < Len(tokens))
  <2>1. PICK j \in 0 .. Len(tokens) :
              /\ ~d /\ kv' = k \o Prefix(tokens, j)
              /\ slot' = release(s) /\ dirty' = (j < Len(tokens))
    BY <1>6
  <2>2. ~(j < Len(tokens)) => j = Len(tokens)
    OBVIOUS
  <2>3. SlotOK(slot') /\ slot' = release(s) /\ kv' \in Seq(Cell)
    BY <1>2, <1>3, <2>1
  <2>4. CASE j < Len(tokens)
    <3>1. dirty' = TRUE
      BY <2>1, <2>4
    <3> QED  BY <2>3, <3>1
  <2>5. CASE ~(j < Len(tokens))
    <3>1. dirty' = FALSE
      BY <2>1, <2>5
    <3>2. kv' = k \o tokens
      BY <1>2, <2>1, <2>2, <2>5
    <3> QED  BY <2>1, <2>3, <3>1, <3>2
  <2> QED  BY <2>4, <2>5
<1> QED  BY <1>4, <1>5, <1>6 DEF Decode

\* A prompt that a round works on.
Working(s) == s \in SlotType /\ s.state = "prompt" /\ PromptOK(s) /\ CacheOK(s.cache)

\* The slot as a round finds it.
LEMMA BegunOK ==
    ASSUME Bounded, HasPrompt
    PROVE  /\ Working(Begun.slot) /\ Begun.kv \in Seq(Cell)
           /\ Begun.slot.causal = slot.causal /\ Begun.slot.cache_prompt = slot.cache_prompt
           /\ slot.state # "started" => Begun.slot = slot /\ Begun.kv = kv
           /\ slot.state = "started" => StartedOK(slot, kv, Begun.slot, Begun.kv)
<1>1. CASE slot.state = "started"
  <2>1. SlotOK(slot) /\ ~Refused(slot) /\ kv \in Seq(Cell)
    BY <1>1 DEF Bounded, HasPrompt
  <2>2. StartedOK(slot, kv, Started(slot, kv).slot, Started(slot, kv).kv)
    BY <1>1, <2>1, StartOK
  <2>3. Begun = Started(slot, kv)
    BY <1>1 DEF Begun
  <2>4. StartedOK(slot, kv, Begun.slot, Begun.kv)
    BY <2>2, <2>3
  <2> QED  BY <1>1, <2>1, <2>4 DEF StartedOK, Working, SlotOK, CacheOK, SlotType
<1>2. CASE slot.state # "started"
  <2>1. Begun.slot = slot /\ Begun.kv = kv /\ slot.state = "prompt"
    BY <1>2 DEF Begun, HasPrompt
  <2> QED  BY <1>2, <2>1 DEF Bounded, Working, SlotOK
<1> QED  BY <1>1, <1>2

\* What a round adds to a prompt that it works on.
PromptAdded(s, n, u) ==
    /\ n \in Nat /\ s.n_past + n <= Len(s.prompt)
    /\ u \in SlotType /\ CacheOK(u.cache) /\ u.n_past = s.n_past + n
    /\ u.state = "prompt" /\ u.prompt = s.prompt /\ u.causal = s.causal
    /\ u.cache_prompt = s.cache_prompt
    /\ s.cache_prompt =>
         /\ u.cache = Resized(s.cache, s.n_past) \o SubSeq(s.prompt, s.n_past + 1, s.n_past + n)
         /\ Len(u.cache) = u.n_past
    /\ ~s.cache_prompt => u.cache = Resized(s.cache, s.n_past)

\* A round with a prompt, taken apart.
PromptRound(s, n, u, t) ==
    /\ s = Begun.slot /\ PromptAdded(s, n, u)
    /\ SlotOK(t) /\ (t = release(u) \/ Continues(u, t))
    /\ Decode(u, t, seq_rm(Begun.kv, s.n_past, Infinity),
              Cells(SubSeq(s.prompt, s.n_past + 1, s.n_past + n), s.n_past), dirty /\ s.n_past > 0)
    /\ Seen(Prefix(s.prompt, u.n_past))

\* Adding tokens to a prompt.
LEMMA PromptAddedOK ==
    ASSUME NEW s, Working(s), NEW n \in Nat, s.n_past + n <= Len(s.prompt)
    PROVE  \E u : /\ u = [s EXCEPT !.n_past = @ + n, !.processed = @ + n,
                            !.cache = IF s.cache_prompt
                                      THEN Resized(s.cache, s.n_past)
                                           \o SubSeq(s.prompt, s.n_past + 1, s.n_past + n)
                                      ELSE Resized(s.cache, s.n_past)]
                  /\ PromptAdded(s, n, u) /\ u.processed = s.processed + n /\ u.n_keep = s.n_keep
<1>1. /\ s \in SlotType /\ s.prompt \in Seq(Tokens) /\ s.cache \in Seq(Cached) /\ s.n_past \in Nat
      /\ s.processed \in Nat /\ s.cache_prompt \in BOOLEAN
  BY DEF Working, SlotType
<1>2. Len(s.prompt) \in Nat /\ Len(s.prompt) <= NCtx
  BY <1>1 DEF Working, PromptOK
<1>3. PICK r : r = Resized(s.cache, s.n_past)
  OBVIOUS
<1>4. r \in Seq(Cached) /\ Len(r) = s.n_past
  BY <1>1, <1>3, ResizedIs
<1>5. PICK v : v = SubSeq(s.prompt, s.n_past + 1, s.n_past + n)
  OBVIOUS
<1>6. v \in Seq(Tokens) /\ Len(v) = n
  <2>1. PICK q \in Seq(Tokens) : q = s.prompt
    BY <1>1
  <2>2. PICK a \in Int : a = s.n_past + 1
    BY <1>1
  <2>3. PICK b \in Int : b = s.n_past + n
    BY <1>1
  <2>4. a \in 1 .. Len(q) + 1 /\ b \in a - 1 .. Len(q) /\ b - a + 1 = n
    BY <1>1, <1>2, <2>1, <2>2, <2>3
  <2>5. v = SubSeq(q, a, b)
    BY <1>5, <2>1, <2>2, <2>3
  <2> QED  BY <2>4, <2>5, Slice
<1>7. v \in Seq(Cached)
  BY <1>6, SeqMonotonic DEF Cached
<1>8. r \o v \in Seq(Cached) /\ Len(r \o v) = s.n_past + n
  <2>1. r \o v \in Seq(Cached) /\ Len(r \o v) = Len(r) + Len(v)
    BY <1>4, <1>7, ConcatProperties
  <2> QED  BY <1>4, <1>6, <2>1
<1>9. PICK c \in Seq(Cached) : c = IF s.cache_prompt THEN r \o v ELSE r
  BY <1>4, <1>8
<1>10. Len(c) <= NCtx /\ (s.cache_prompt => Len(c) = s.n_past + n)
  <2>1. s.n_past + n <= NCtx /\ s.n_past <= NCtx
    BY <1>1, <1>2, ContextSize
  <2> QED  BY <1>4, <1>8, <1>9, <2>1
<1>11. PICK x \in Nat : x = s.n_past + n
  BY <1>1
<1>12. PICK y \in Nat : y = s.processed + n
  BY <1>1
<1>13. PICK u : u = [s EXCEPT !.n_past = x, !.processed = y, !.cache = c]
  OBVIOUS
<1>14. /\ u \in SlotType /\ u.n_past = x /\ u.processed = y /\ u.cache = c /\ u.state = s.state
       /\ u.prompt = s.prompt /\ u.causal = s.causal /\ u.cache_prompt = s.cache_prompt
       /\ u.n_keep = s.n_keep
  BY <1>1, <1>13 DEF SlotType
<1>15. u = [s EXCEPT !.n_past = @ + n, !.processed = @ + n,
              !.cache = IF s.cache_prompt
                        THEN Resized(s.cache, s.n_past)
                             \o SubSeq(s.prompt, s.n_past + 1, s.n_past + n)
                        ELSE Resized(s.cache, s.n_past)]
  BY <1>3, <1>5, <1>9, <1>11, <1>12, <1>13
<1>16. s.state = "prompt"
  BY DEF Working
<1>17. CacheOK(c)
  BY <1>10 DEF CacheOK
<1>18. PromptAdded(s, n, u)
  BY <1>3, <1>5, <1>9, <1>10, <1>11, <1>14, <1>16, <1>17 DEF PromptAdded
<1> QED  BY <1>12, <1>14, <1>15, <1>18

\* A round with a prompt.
LEMMA PromptRoundOK ==
    ASSUME Bounded, NEW room \in 0 .. NBatch, NEW tok \in Vocab, NEW stop \in BOOLEAN,
           Prompt(room, tok, stop)
    PROVE  /\ HasPrompt /\ Then(slot') /\ UNCHANGED <<requests, file, ctx_shift>>
           /\ \E s, n, u, t : PromptRound(s, n, u, t)
<1>1. HasPrompt /\ Then(slot') /\ UNCHANGED <<requests, file, ctx_shift>>
  BY DEF Prompt
<1>2. PICK s : s = Begun.slot
  OBVIOUS
<1>3. Working(s) /\ s.causal = slot.causal
  BY <1>1, <1>2, BegunOK
<1>4. s \in SlotType /\ s.n_past \in Nat /\ s.prompt \in Seq(Tokens) /\ Len(s.prompt) \in Nat
      /\ s.n_past < Len(s.prompt) /\ Len(s.prompt) <= NCtx /\ KeepOK(s) /\ (~s.causal => s.n_past = 0)
      /\ s.causal \in BOOLEAN /\ s.processed \in Nat
  BY <1>3 DEF Working, PromptOK, SlotType
<1>5. room \in Nat
  BY ContextAssumption
<1>6. PICK n : n = Smaller(room, Len(s.prompt) - s.n_past)
  OBVIOUS
<1>7. /\ n \in Nat /\ s.n_past + n <= Len(s.prompt)
      /\ n < room => s.n_past + n = Len(s.prompt)
  BY <1>4, <1>5, <1>6 DEF Smaller
<1>8. PICK u : /\ u = [s EXCEPT !.n_past = @ + n, !.processed = @ + n,
                         !.cache = IF s.cache_prompt
                                   THEN Resized(s.cache, s.n_past)
                                        \o SubSeq(s.prompt, s.n_past + 1, s.n_past + n)
                                   ELSE Resized(s.cache, s.n_past)]
               /\ PromptAdded(s, n, u) /\ u.processed = s.processed + n /\ u.n_keep = s.n_keep
  BY <1>3, <1>7, PromptAddedOK
<1>9. PICK t : t = IF u.n_past < Len(s.prompt) THEN u
                   ELSE IF s.causal THEN ProcessToken(u, 1, tok, stop) ELSE release(u)
  OBVIOUS
<1>10. /\ slot.causal \/ Len(s.prompt) <= room
       /\ Decode(u, t, seq_rm(Begun.kv, s.n_past, Infinity),
              Cells(SubSeq(s.prompt, s.n_past + 1, s.n_past + n), s.n_past), dirty /\ s.n_past > 0)
       /\ Seen(Prefix(s.prompt, u.n_past))
  BY <1>2, <1>6, <1>8, <1>9 DEF Prompt
<1>11. CacheOK(u.cache) /\ u.n_past = s.n_past + n /\ u.prompt = s.prompt /\ u.causal = s.causal
       /\ u \in SlotType /\ u.state = "prompt"
  BY <1>8 DEF PromptAdded
<1>12. SlotOK(t) /\ (t = release(u) \/ Continues(u, t))
  <2>1. CASE u.n_past < Len(s.prompt)
    <3>1. s.causal
      BY <1>3, <1>4, <1>5, <1>7, <1>10, <1>11, <2>1
    <3>2. KeepOK(u) /\ PromptOK(u)
      BY <1>4, <1>8, <1>11, <2>1, <3>1 DEF KeepOK, PromptOK
    <3> QED  BY <1>9, <1>11, <2>1, <3>2 DEF SlotOK, GeneratingOK, Continues
  <2>2. CASE ~(u.n_past < Len(s.prompt)) /\ s.causal
    <3>1. n > 0 /\ u.n_past <= NCtx
      BY <1>4, <1>7, <1>11, <2>2, ContextSize
    <3>2. KeepOK(u) /\ u.processed > 0
      BY <1>4, <1>7, <1>8, <1>11, <3>1 DEF KeepOK
    <3>3. u.cache_prompt => Len(u.cache) = u.n_past
      BY <1>8 DEF PromptAdded
    <3>4. Sampling(u)
      BY <1>11, <2>2, <3>1, <3>2, <3>3 DEF Sampling
    <3> QED  BY <1>9, <2>2, <3>4, ProcessTokenOK
  <2>3. CASE ~(u.n_past < Len(s.prompt)) /\ ~s.causal
    BY <1>9, <1>11, <2>3, ReleaseOK
  <2> QED  BY <2>1, <2>2, <2>3
<1>13. PromptRound(s, n, u, t)
  BY <1>2, <1>8, <1>10, <1>12 DEF PromptRound
<1> QED  BY <1>1, <1>13

\* What the server chooses to discard is at least one token and leaves the ones to
\* keep; what a client chooses is at least one token and no more than there are,
\* or the shift is unsafe.
LEMMA ShiftSizes ==
    ASSUME Bounded, slot.state = "generating", Full
    PROVE  /\ slot.n_past = NCtx - 1 /\ n_keep \in Nat /\ slot.n_past - n_keep >= 2
           /\ n_discard \in Int
           /\ slot.n_discard = 0 => n_discard \in 1 .. slot.n_past - n_keep
           /\ ~Unsafe => n_discard \in 1 .. slot.n_past
<1>1. /\ slot.n_past \in Nat /\ slot.n_past < NCtx /\ slot.n_keep \in 0 .. NCtx - 4
      /\ slot.n_discard \in Int /\ slot.cache_prompt \in BOOLEAN
      /\ slot.cache_prompt => Len(slot.cache) = slot.n_past
  BY DEF Bounded, SlotOK, GeneratingOK, KeepOK, SlotType
<1>2. slot.n_past = NCtx - 1
  BY <1>1, ContextSize DEF Full
<1>3. n_keep \in Nat /\ slot.n_past - n_keep >= 2
  BY <1>1, <1>2, ContextSize, ContextAssumption DEF n_keep
<1>4. PICK x \in Int : x = slot.n_past - n_keep
  BY <1>1, <1>3
<1>5. x \div 2 \in 1 .. x
  BY <1>3, <1>4
<1>6. n_discard = IF slot.n_discard # 0 THEN slot.n_discard ELSE x \div 2
  BY <1>4 DEF n_discard
<1>7. n_discard \in Int /\ n_discard # 0 /\ (slot.n_discard = 0 => n_discard \in 1 .. x)
  BY <1>1, <1>5, <1>6
<1>8. ASSUME ~Unsafe PROVE n_discard \in 1 .. slot.n_past
  <2>1. ~(n_discard < 0) /\ ~(n_discard > slot.n_past)
    BY <1>1, <1>8 DEF Unsafe
  <2> QED  BY <1>1, <1>7, <2>1
<1> QED  BY <1>2, <1>3, <1>4, <1>7, <1>8

\* What a shift leaves of one sequence of tokens.
LEMMA WithoutIs ==
    ASSUME Bounded, slot.state = "generating", Full, ~Unsafe,
           NEW S, NEW x \in Seq(S), Len(x) = slot.n_past
    PROVE  /\ Without(x) \in Seq(S) /\ Len(Without(x)) = slot.n_past - n_discard
           /\ ~Overcut => \A i \in 1 .. slot.n_past - n_discard :
                Without(x)[i] = IF i <= n_keep THEN x[i] ELSE x[i + n_discard]
<1>1. PICK a \in Nat : a = n_keep
  BY ShiftSizes
<1>2. PICK d \in Nat : d = n_discard
  BY ShiftSizes
<1>3. PICK b \in Int : b = a + d
  OBVIOUS
<1>4. CASE ~Overcut
  <2>4. a \in 0 .. Len(x) /\ b \in a .. Len(x) /\ b - a = d
    BY <1>1, <1>2, <1>3, <1>4, ShiftSizes, ContextSize DEF Overcut
  <2>5. Without(x) = Prefix(x, a) \o SubSeq(x, b + 1, Len(x))
    BY <1>1, <1>2, <1>3, <2>4 DEF Without
  <2>6. PICK r : r = Prefix(x, a) \o SubSeq(x, b + 1, Len(x))
    OBVIOUS
  <2>7. /\ r \in Seq(S) /\ Len(r) = Len(x) - (b - a)
        /\ \A i \in 1 .. Len(x) - (b - a) : r[i] = IF i <= a THEN x[i] ELSE x[i + (b - a)]
    <3>1. r \in Seq(S) /\ Closed(r, x, a, b)
      BY <2>4, <2>6, GapIs
    <3> QED  BY <3>1 DEF Closed
  <2> QED  BY <1>1, <1>2, <2>4, <2>5, <2>6, <2>7
<1>5. CASE Overcut
  <2>1. ~(n_keep + n_discard <= Len(x))
    BY <1>1, <1>2, <1>5 DEF Overcut
  <2>2. PICK n \in 0 .. Len(x) : n = Len(x) - n_discard
    BY ShiftSizes, ContextSize
  <2>3. Without(x) = Prefix(x, n)
    BY <2>1, <2>2 DEF Without
  <2>4. Prefix(x, n) \in Seq(S) /\ Len(Prefix(x, n)) = n
    BY PrefixIs
  <2> QED  BY <1>5, <2>2, <2>3, <2>4
<1> QED  BY <1>4, <1>5

\* A slot that generates and has room for a token after which another fits.
Roomy(s) ==
    /\ SlotOK(s) /\ s.state = "generating" /\ s.n_past + 1 < NCtx

\* The slot after the context shift, if there is one.
LEMMA ShiftOK ==
    ASSUME Bounded, slot.state = "generating", Full => ~Unsafe
    PROVE  /\ Roomy(Shifted.slot) /\ Shifted.slot.cache_prompt = slot.cache_prompt
           /\ Shifted.kv \in Seq(Cell)
           /\ Shifted.seen \in Seq(Tokens) /\ Len(Shifted.seen) = Shifted.slot.n_past
           /\ Shifted.dirty \in BOOLEAN
           /\ ~Full => Shifted.slot = slot /\ Shifted.kv = kv /\ Shifted.seen = seen
                      /\ Shifted.dirty = dirty
           /\ Full => /\ Shifted.kv = ShiftedKv /\ Shifted.seen = Without(seen)
                      /\ ~Shifted.dirty => ~dirty /\ ~Overcut
                      /\ slot.cache_prompt => Shifted.slot.cache = Without(slot.cache)
                      /\ ~slot.cache_prompt => Shifted.slot.cache = slot.cache
<1>1. /\ slot \in SlotType /\ SlotOK(slot) /\ kv \in Seq(Cell) /\ seen \in Seq(Tokens) /\ dirty \in BOOLEAN
      /\ Len(seen) = slot.n_past /\ slot.n_past \in Nat /\ slot.n_past < NCtx
      /\ slot.cache \in Seq(Cached) /\ slot.cache_prompt \in BOOLEAN
      /\ slot.cache_prompt => Len(slot.cache) = slot.n_past
  BY DEF Bounded, SeenFits, SlotOK, GeneratingOK, SlotType
<1>2. CASE ~Full
  <2>1. Shifted.slot = slot /\ Shifted.kv = kv /\ Shifted.seen = seen /\ Shifted.dirty = dirty
    BY <1>2 DEF Shifted
  <2>2. slot.n_past + 1 < NCtx
    BY <1>1, <1>2, ContextSize DEF Full
  <2> QED  BY <1>1, <1>2, <2>1, <2>2 DEF Roomy
<1>3. CASE Full
  <2>1. PICK d : d = n_discard
    OBVIOUS
  <2>2. slot.n_past = NCtx - 1 /\ n_keep \in Nat /\ d \in 1 .. slot.n_past
    BY <1>3, <2>1, ShiftSizes
  <2>3. PICK x \in Nat : x = slot.n_past - d
    BY <2>2, ContextSize
  <2>4. PICK c : c = IF slot.cache_prompt THEN Without(slot.cache) ELSE slot.cache
    OBVIOUS
  <2>5. c \in Seq(Cached) /\ (slot.cache_prompt => Len(c) = x) /\ Len(c) <= NCtx
    <3>1. CASE slot.cache_prompt
      <4>1. Without(slot.cache) \in Seq(Cached) /\ Len(Without(slot.cache)) = slot.n_past - n_discard
        BY <1>1, <1>3, <3>1, WithoutIs
      <4> QED  BY <2>1, <2>2, <2>3, <2>4, <3>1, <4>1, ContextSize
    <3>2. CASE ~slot.cache_prompt
      BY <1>1, <2>4, <3>2 DEF SlotOK, CacheOK
    <3> QED  BY <3>1, <3>2
  <2>6. PICK t : t = [slot EXCEPT !.n_past = x, !.cache = c]
    OBVIOUS
  <2>7. /\ Shifted.slot = t /\ Shifted.kv = ShiftedKv /\ Shifted.seen = Without(seen)
        /\ Shifted.dirty = (dirty \/ Overcut)
    BY <1>3, <2>1, <2>3, <2>4, <2>6 DEF Shifted
  <2>8. /\ t \in SlotType /\ t.n_past = x /\ t.cache = c /\ t.state = "generating"
        /\ t.causal = slot.causal /\ t.prompt = slot.prompt /\ t.n_keep = slot.n_keep
        /\ t.processed = slot.processed /\ t.sampled = slot.sampled
        /\ t.cache_prompt = slot.cache_prompt
    BY <1>1, <2>3, <2>5, <2>6 DEF SlotType
  <2>9. x + 1 < NCtx /\ x < NCtx
    BY <2>2, <2>3, ContextSize
  <2>10. SlotOK(t)
    BY <1>1, <2>5, <2>8, <2>9 DEF SlotOK, GeneratingOK, PromptOK, KeepOK, CacheOK
  <2>11. ShiftedKv \in Seq(Cell)
    <3>1. PICK p \in Int : p = n_keep + d
      BY <2>2
    <3>2. PICK k \in Seq(Cell) : k = seq_rm(kv, n_keep, p)
      BY <1>1, RemoveType
    <3>3. slot.n_past \in Int /\ -d \in Int /\ -d <= 0 /\ p + (-d) >= 0
      BY <1>1, <2>2, <3>1
    <3>4. ShiftedKv = seq_add(k, p, slot.n_past, -d)
      BY <2>1, <3>1, <3>2 DEF ShiftedKv
    <3> QED  BY <3>3, <3>4, AddFits
  <2>12. Without(seen) \in Seq(Tokens) /\ Len(Without(seen)) = x
    BY <1>1, <1>3, <2>1, <2>3, WithoutIs
  <2>13. Shifted.dirty \in BOOLEAN /\ (~Shifted.dirty => ~dirty /\ ~Overcut)
    BY <1>1, <2>7
  <2> QED  BY <1>3, <2>4, <2>7, <2>8, <2>9, <2>10, <2>11, <2>12, <2>13 DEF Roomy
<1> QED  BY <1>2, <1>3

\* A round that decodes the sampled token, taken apart.
GenerateRound(s, u, t) ==
    /\ s = Shifted.slot /\ Roomy(s)
    /\ u.n_past = s.n_past + 1 /\ u.cache_prompt = s.cache_prompt /\ u.causal
    /\ CacheOK(u.cache)
    /\ s.cache_prompt => u.cache = Append(s.cache, s.sampled)
    /\ ~s.cache_prompt => u.cache = s.cache
    /\ SlotOK(t) /\ (t = release(u) \/ (Continues(u, t) /\ t.state = "generating"))
    /\ Decode(u, t, Shifted.kv, Cells(<<s.sampled>>, s.n_past), Shifted.dirty)
    /\ Seen(Append(Shifted.seen, s.sampled))

\* What samples a token goes on generating.
LEMMA ProcessTokenState ==
    ASSUME NEW s \in SlotType, NEW n, NEW tok, NEW stop
    PROVE  \/ ProcessToken(s, n, tok, stop) = release(s)
           \/ ProcessToken(s, n, tok, stop).state = "generating"
BY DEF ProcessToken, SlotType

\* Such a round.
LEMMA GenerateRoundOK ==
    ASSUME Bounded, NEW tok \in Vocab, NEW stop \in BOOLEAN, Generate(tok, stop)
    PROVE  /\ slot.state = "generating" /\ Then(slot') /\ UNCHANGED <<requests, file, ctx_shift>>
           /\ Full => ~Unsafe
           /\ \E s, u, t : GenerateRound(s, u, t)
<1>1. slot.state = "generating" /\ (Full => ~Unsafe) /\ Then(slot') /\ UNCHANGED <<requests, file, ctx_shift>>
  BY DEF Generate
<1>2. PICK s : s = Shifted.slot
  OBVIOUS
<1>3. Roomy(s)
  BY <1>1, <1>2, ShiftOK
<1>4. /\ s \in SlotType /\ s.n_past \in Nat /\ s.n_past + 1 < NCtx /\ s.cache \in Seq(Cached)
      /\ s.sampled \in Vocab /\ s.cache_prompt \in BOOLEAN /\ Len(s.cache) <= NCtx
      /\ s.causal /\ KeepOK(s) /\ s.processed > 0 /\ (s.cache_prompt => Len(s.cache) = s.n_past)
  BY <1>3 DEF Roomy, SlotOK, GeneratingOK, CacheOK, SlotType
<1>5. PICK x \in Nat : x = s.n_past + 1
  BY <1>4
<1>6. PICK c : c = IF s.cache_prompt THEN Append(s.cache, s.sampled) ELSE s.cache
  OBVIOUS
<1>7. c \in Seq(Cached) /\ Len(c) <= NCtx /\ (s.cache_prompt => Len(c) = x)
  <2>1. CASE s.cache_prompt
    <3>1. s.sampled \in Cached
      BY <1>4 DEF Cached, Tokens
    <3>2. Append(s.cache, s.sampled) \in Seq(Cached) /\ Len(Append(s.cache, s.sampled)) = Len(s.cache) + 1
      BY <1>4, <3>1, AppendProperties
    <3> QED  BY <1>4, <1>5, <1>6, <2>1, <3>2, ContextSize
  <2>2. CASE ~s.cache_prompt
    BY <1>4, <1>6, <2>2
  <2> QED  BY <2>1, <2>2
<1>8. PICK u : u = [s EXCEPT !.n_past = x, !.cache = c]
  OBVIOUS
<1>9. /\ u \in SlotType /\ u.n_past = x /\ u.cache = c /\ u.causal = s.causal /\ u.prompt = s.prompt
      /\ u.n_keep = s.n_keep /\ u.processed = s.processed /\ u.cache_prompt = s.cache_prompt
  BY <1>4, <1>5, <1>7, <1>8 DEF SlotType
<1>10. CacheOK(u.cache)
  BY <1>7, <1>9 DEF CacheOK
<1>11. Sampling(u)
  BY <1>4, <1>5, <1>7, <1>9, <1>10, ContextSize DEF Sampling, KeepOK
<1>12. u = [s EXCEPT !.n_past = @ + 1, !.cache = IF s.cache_prompt THEN Append(@, s.sampled) ELSE @]
  BY <1>4, <1>5, <1>6, <1>8 DEF SlotType
<1>13. PICK t : t = ProcessToken(u, 1, tok, stop)
  OBVIOUS
<1>14. /\ Decode(u, t, Shifted.kv, Cells(<<s.sampled>>, s.n_past), Shifted.dirty)
       /\ Seen(Append(Shifted.seen, s.sampled))
  BY <1>2, <1>12, <1>13 DEF Generate
<1>15. SlotOK(t) /\ (t = release(u) \/ Continues(u, t))
  BY <1>11, <1>13, ProcessTokenOK
<1>16. t = release(u) \/ t.state = "generating"
  BY <1>9, <1>13, ProcessTokenState
<1>17. GenerateRound(s, u, t)
  BY <1>2, <1>3, <1>4, <1>5, <1>6, <1>9, <1>10, <1>14, <1>15, <1>16 DEF GenerateRound
<1> QED  BY <1>1, <1>17

\* A round that decodes a draft, taken apart.
SpeculateRound(draft, a, u) ==
    /\ slot.state = "generating" /\ slot.cache_prompt /\ slot.sampled \in Vocab
    /\ draft \in Seq(Vocab) /\ a \in 0 .. Len(draft) /\ slot.n_past + Len(draft) + 1 < NCtx
    /\ <<slot.sampled>> \o Prefix(draft, a) \in Seq(Tokens)
    /\ Len(<<slot.sampled>> \o Prefix(draft, a)) = a + 1
    /\ u.n_past = slot.n_past + a + 1 /\ u.cache = slot.cache \o (<<slot.sampled>> \o Prefix(draft, a))
    /\ u.cache_prompt /\ u.causal
    /\ SlotOK(slot') /\ (slot' = release(u) \/ (Continues(u, slot') /\ slot'.state = "generating"))
    /\ \E j \in 0 .. Len(draft) + 1 :
         /\ kv' = seq_rm(kv \o Prefix(Cells(<<slot.sampled>> \o draft, slot.n_past), j), u.n_past, Infinity)
         /\ dirty' = (dirty \/ j <= a)
    /\ Seen(seen \o (<<slot.sampled>> \o Prefix(draft, a)))

\* Such a round.
LEMMA SpeculateRoundOK ==
    ASSUME Bounded, NEW draft \in Drafts, NEW a \in 0 .. SpecMax, NEW tok \in Vocab,
           NEW stop \in BOOLEAN, Speculate(draft, a, tok, stop)
    PROVE  /\ phase' = "tasks" /\ UNCHANGED <<requests, file, ctx_shift>>
           /\ \E u : SpeculateRound(draft, a, u)
<1>1. phase' = "tasks" /\ UNCHANGED <<requests, file, ctx_shift>> /\ phase = "speculate"
  BY DEF Speculate
<1>2. slot.state = "generating" /\ slot.cache_prompt
  BY <1>1 DEF Bounded, PhaseOK, CanSpeculate
<1>3. /\ slot \in SlotType /\ slot.n_past \in Nat /\ slot.n_past < NCtx /\ slot.cache \in Seq(Cached)
      /\ slot.sampled \in Vocab /\ Len(slot.cache) = slot.n_past /\ slot.n_decoded \in Nat
      /\ slot.causal /\ KeepOK(slot) /\ slot.processed > 0
  BY <1>2 DEF Bounded, SlotOK, GeneratingOK, SlotType
<1>4. draft \in Seq(Vocab) /\ Len(draft) \in Nat
  <2>1. PICK n \in 1 .. SpecMax : draft \in [1 .. n -> Vocab]
    BY DEF Drafts
  <2>2. n \in Nat
    BY ContextAssumption
  <2> QED  BY <2>1, <2>2, FunctionIsSeq
<1>5. Len(draft) \in 1 .. DraftMax(slot) /\ a \in 0 .. Len(draft)
  BY DEF Speculate
<1>6. slot.n_past + Len(draft) + 1 < NCtx
  <2>1. SpecMax \in Int /\ NPredict \in Int /\ NCtx \in Int
    BY ContextAssumption
  <2>2. PICK x \in Int : x = NCtx - slot.n_past - 2
    BY <1>3, <2>1
  <2>3. PICK y \in Int : y = NPredict - slot.n_decoded - 1
    BY <1>3, <2>1
  <2>4. PICK z \in Int : z = Smaller(SpecMax, x) /\ z <= x
    BY <2>1, SmallerIs
  <2>5. DraftMax(slot) = Smaller(z, y)
    BY <2>2, <2>3, <2>4 DEF DraftMax
  <2>6. DraftMax(slot) \in Int /\ DraftMax(slot) <= z
    BY <2>5, SmallerIs
  <2> QED  BY <1>3, <1>4, <1>5, <2>1, <2>2, <2>4, <2>6
<1>7. PICK v : v = <<slot.sampled>> \o Prefix(draft, a)
  OBVIOUS
<1>8. v \in Seq(Vocab) /\ Len(v) = a + 1
  <2>1. <<slot.sampled>> \in Seq(Vocab) /\ Len(<<slot.sampled>>) = 1
    BY <1>3
  <2>2. PICK w \in Seq(Vocab) : w = Prefix(draft, a) /\ Len(w) = a
    BY <1>4, <1>5, PrefixIs
  <2>3. v = <<slot.sampled>> \o w
    BY <1>7, <2>2
  <2>4. v \in Seq(Vocab) /\ Len(v) = 1 + a
    BY <2>1, <2>2, <2>3, ConcatProperties
  <2> QED  BY <1>5, <2>4
<1>9. v \in Seq(Tokens) /\ v \in Seq(Cached)
  BY <1>8, SeqMonotonic DEF Tokens, Cached
<1>10. PICK c : c = slot.cache \o v
  OBVIOUS
<1>11. PICK x \in Nat : x = slot.n_past + a + 1
  BY <1>3, <1>5
<1>12. c \in Seq(Cached) /\ Len(c) = x /\ x < NCtx
  <2>1. c \in Seq(Cached) /\ Len(c) = Len(slot.cache) + Len(v)
    BY <1>3, <1>9, <1>10, ConcatProperties
  <2> QED  BY <1>3, <1>4, <1>5, <1>6, <1>8, <1>11, <2>1, ContextSize
<1>13. PICK u : u = [slot EXCEPT !.n_past = x, !.cache = c]
  OBVIOUS
<1>14. /\ u \in SlotType /\ u.n_past = x /\ u.cache = c /\ u.causal = slot.causal /\ u.prompt = slot.prompt
       /\ u.n_keep = slot.n_keep /\ u.processed = slot.processed /\ u.cache_prompt = slot.cache_prompt
  BY <1>3, <1>11, <1>12, <1>13 DEF SlotType
<1>15. u = [slot EXCEPT !.n_past = @ + a + 1, !.cache = @ \o v]
  BY <1>3, <1>10, <1>11, <1>13 DEF SlotType
<1>16. Sampling(u)
  BY <1>2, <1>3, <1>12, <1>14, ContextSize DEF Sampling, KeepOK, CacheOK
<1>17. PICK m \in Nat : m = a + 1
  BY <1>5
<1>18. slot' = ProcessToken(u, m, tok, stop)
  BY <1>7, <1>15, <1>17 DEF Speculate
<1>19. SlotOK(slot') /\ (slot' = release(u) \/ (Continues(u, slot') /\ slot'.state = "generating"))
  <2>1. SlotOK(slot') /\ (slot' = release(u) \/ Continues(u, slot'))
    BY <1>16, <1>18, ProcessTokenOK
  <2>2. slot' = release(u) \/ slot'.state = "generating"
    BY <1>14, <1>18, ProcessTokenState
  <2> QED  BY <2>1, <2>2
<1>20. PICK w : w = Cells(<<slot.sampled>> \o draft, slot.n_past)
  OBVIOUS
<1>21. Len(w) = Len(draft) + 1
  <2>1. <<slot.sampled>> \in Seq(Vocab) /\ Len(<<slot.sampled>>) = 1
    BY <1>3
  <2>2. PICK z \in Seq(Vocab) : z = <<slot.sampled>> \o draft /\ Len(z) = 1 + Len(draft)
    <3>1. PICK o \in Seq(Vocab) : o = <<slot.sampled>> /\ Len(o) = 1
      BY <2>1
    <3>2. o \o draft \in Seq(Vocab) /\ Len(o \o draft) = Len(o) + Len(draft)
      BY <1>4, ConcatProperties
    <3> QED  BY <3>1, <3>2
  <2>3. Len(Cells(z, slot.n_past)) = Len(z)
    BY CellsAre
  <2> QED  BY <1>4, <1>20, <2>2, <2>3
<1>22. \E j \in 0 .. Len(draft) + 1 :
         /\ kv' = seq_rm(kv \o Prefix(w, j), u.n_past, Infinity)
         /\ dirty' = (dirty \/ j <= a)
  BY <1>7, <1>15, <1>20, <1>21 DEF Speculate
<1>23. Seen(seen \o v)
  BY <1>7 DEF Speculate
<1>24. SpeculateRound(draft, a, u)
  BY <1>2, <1>3, <1>4, <1>5, <1>6, <1>7, <1>8, <1>9, <1>10, <1>11, <1>14, <1>19, <1>20, <1>22, <1>23
     DEF SpeculateRound
<1> QED  BY <1>1, <1>24

-----------------------------------------------------------------------------
(* Types, bounds and phases: every step keeps them.                        *)

\* The server starts in order.
LEMMA BoundedInit == Init => Bounded
<1> SUFFICES ASSUME Init PROVE Bounded
  OBVIOUS
<1>1. CacheOK(<<>>)
  BY EmptySeq, ContextSize DEF CacheOK
<1>2. SlotOK(slot) /\ slot.state = "idle"
  BY <1>1, IdleSlotOK DEF Init
<1>3. <<>> \in Seq(Cell) /\ <<>> \in Seq(Tokens)
  BY EmptySeq
<1> QED  BY <1>2, <1>3 DEF Init, Bounded, SeenFits, FileOK, PhaseOK

\* Release, with an error or without.
LEMMA BoundedReleased ==
    ASSUME Bounded, phase = "tasks", slot' = release(slot), seen' = <<>>,
           UNCHANGED <<kv, file, phase, dirty>>
    PROVE  Bounded'
<1>1. SlotOK(slot') /\ slot'.state = "idle"
  BY ReleaseOK DEF Bounded, SlotOK
<1>2. <<>> \in Seq(Tokens)
  BY EmptySeq
<1> QED  BY <1>1, <1>2 DEF Bounded, SeenFits, FileOK, PhaseOK

\* Requests.
LEMMA BoundedLaunch ==
    ASSUME Bounded, NEW prompt \in Prompts, NEW keep \in Keeps, NEW discard \in Discards,
           NEW cache_prompt \in BOOLEAN, NEW causal \in BOOLEAN, NEW new_lora \in BOOLEAN,
           NEW ok \in BOOLEAN, Launch(prompt, cache_prompt, causal, keep, discard, new_lora, ok)
    PROVE  Bounded'
<1>1. phase = "tasks" /\ UNCHANGED <<kv, file, phase, seen, dirty>>
  BY DEF Launch, Available
<1>2. PICK c : c = IF new_lora THEN <<>> ELSE slot.cache
  OBVIOUS
<1>3. CacheOK(c)
  BY <1>2, EmptySeq, ContextSize DEF CacheOK, Bounded, SlotOK
<1>4. PICK s : s = IdleSlot(c)
  OBVIOUS
<1>5. SlotOK(s) /\ s.state = "idle" /\ s.cache = c
  BY <1>3, <1>4, IdleSlotOK
<1>6. PICK t : t = [s EXCEPT !.state = "started", !.prompt = prompt, !.cache_prompt = cache_prompt,
                              !.causal = causal, !.n_keep = keep, !.n_discard = discard]
  OBVIOUS
<1>7. slot' = IF ~ok THEN s ELSE t
  BY <1>2, <1>4, <1>6 DEF Launch
<1>8. prompt \in Seq(Tokens)
  <2>1. ToSet(prompt) \subseteq Tokens
    BY DEF Tokens
  <2>2. prompt \in Seq(ToSet(prompt))
    BY ContextAssumption
  <2> QED  BY <2>1, <2>2, SeqMonotonic
<1>9. keep \in Int /\ discard \in Int
  BY ContextAssumption
<1>10. /\ t \in SlotType /\ t.state = "started" /\ t.n_past = s.n_past /\ t.cache = s.cache
  BY <1>5, <1>6, <1>8, <1>9 DEF SlotOK, SlotType
<1>11. SlotOK(t)
  BY <1>5, <1>10 DEF SlotOK, PromptOK, GeneratingOK
<1>12. SlotOK(slot') /\ slot'.state # "generating"
  BY <1>5, <1>7, <1>10, <1>11
<1> QED  BY <1>1, <1>12 DEF Bounded, SeenFits, FileOK, PhaseOK

\* Save, restore and erase.
LEMMA BoundedSlotTask ==
    ASSUME Bounded, SlotTask
    PROVE  Bounded'
<1>1. CASE Cancel
  BY <1>1, BoundedReleased DEF Cancel
<1>2. ASSUME Idle, NEW c, CacheOK(c), slot' = [slot EXCEPT !.cache = c]
      PROVE  SlotOK(slot') /\ slot'.state = "idle"
  <2>1. slot \in SlotType /\ slot.state = "idle" /\ slot.n_past = 0 /\ c \in Seq(Cached)
    BY <1>2 DEF Bounded, SlotOK, Idle, CacheOK
  <2>2. slot' \in SlotType /\ slot'.state = "idle" /\ slot'.n_past = 0 /\ slot'.cache = c
    BY <1>2, <2>1 DEF SlotType
  <2> QED  BY <1>2, <2>2 DEF SlotOK, PromptOK, GeneratingOK
<1>3. CacheOK(<<>>) /\ <<>> \in Seq(Cell)
  BY EmptySeq, ContextSize DEF CacheOK
<1>4. CASE SlotSave
  <2>1. file'.cache = slot.cache /\ file'.kv = kv /\ file'.dirty = dirty
    BY <1>4 DEF SlotSave
  <2>2. UNCHANGED <<slot, kv, phase, seen, dirty>>
    BY <1>4 DEF SlotSave
  <2>3. FileOK'
    BY <2>1 DEF Bounded, FileOK, SlotOK, CacheOK
  <2> QED  BY <2>2, <2>3 DEF Bounded, SeenFits, PhaseOK
<1>5. CASE SlotRestoreFail
  <2>1. SlotOK(slot') /\ slot'.state = "idle"
    BY <1>2, <1>3, <1>5 DEF SlotRestoreFail
  <2>2. kv' \in Seq(Cell) /\ phase = "tasks" /\ UNCHANGED <<file, phase, seen, dirty>>
    BY <1>3, <1>5 DEF SlotRestoreFail, Bounded
  <2> QED  BY <2>1, <2>2 DEF Bounded, SeenFits, FileOK, PhaseOK
<1>6. CASE SlotRestore
  <2>1. CacheOK(file.cache) /\ file.kv \in Seq(Cell) /\ file.dirty \in BOOLEAN
    BY <1>6 DEF SlotRestore, Bounded, FileOK
  <2>2. SlotOK(slot') /\ slot'.state = "idle"
    BY <1>2, <1>6, <2>1 DEF SlotRestore
  <2>3. kv' \in Seq(Cell) /\ dirty' \in BOOLEAN /\ phase = "tasks" /\ UNCHANGED <<file, phase, seen>>
    BY <1>6, <2>1 DEF SlotRestore
  <2> QED  BY <2>2, <2>3 DEF Bounded, SeenFits, FileOK, PhaseOK
<1>7. CASE SlotErase
  <2>1. SlotOK(slot') /\ slot'.state = "idle"
    BY <1>2, <1>3, <1>7 DEF SlotErase
  <2>2. kv' \in Seq(Cell) /\ dirty' \in BOOLEAN /\ phase = "tasks" /\ UNCHANGED <<file, phase, seen>>
    BY <1>3, <1>7 DEF SlotErase
  <2> QED  BY <2>1, <2>2 DEF Bounded, SeenFits, FileOK, PhaseOK
<1> QED  BY <1>1, <1>4, <1>5, <1>6, <1>7 DEF SlotTask

\* What is left to show of a round in which tokens were decoded.
LEMMA BoundedDecoded ==
    ASSUME Bounded, SlotOK(slot'), kv' \in Seq(Cell), dirty' \in BOOLEAN, file' = file, Then(slot'),
           NEW tokens, Seen(tokens),
           slot'.state # "idle" => tokens \in Seq(Tokens) /\ Len(tokens) = slot'.n_past
    PROVE  Bounded'
<1>1. SeenFits'
  <2>1. CASE slot'.state = "idle"
    BY <2>1, EmptySeq DEF Seen, SeenFits
  <2>2. CASE slot'.state # "idle"
    BY <2>2 DEF Seen, SeenFits
  <2> QED  BY <2>1, <2>2
<1>2. PhaseOK'
  BY DEF Then, PhaseOK, CanSpeculate, DraftMax
<1> QED  BY <1>1, <1>2 DEF Bounded, FileOK

\* Rounds with a prompt.
LEMMA BoundedPrompt ==
    ASSUME Bounded, NEW room \in 0 .. NBatch, NEW tok \in Vocab, NEW stop \in BOOLEAN,
           Prompt(room, tok, stop)
    PROVE  Bounded'
<1>1. HasPrompt /\ Then(slot') /\ file' = file
  BY PromptRoundOK
<1>2. PICK s, n, u, t : PromptRound(s, n, u, t)
  BY PromptRoundOK
<1>3. Working(s) /\ Begun.kv \in Seq(Cell)
  BY <1>1, <1>2, BegunOK DEF PromptRound
<1>4. /\ s.n_past \in Nat /\ s.prompt \in Seq(Tokens) /\ Len(s.prompt) \in Nat /\ Len(s.prompt) <= NCtx
  BY <1>3 DEF Working, PromptOK, SlotType
<1>5. n \in Nat /\ s.n_past + n <= Len(s.prompt) /\ u.n_past = s.n_past + n /\ CacheOK(u.cache)
  BY <1>2 DEF PromptRound, PromptAdded
<1>6. PICK k \in Seq(Cell) : k = seq_rm(Begun.kv, s.n_past, Infinity)
  BY <1>3, RemoveType
<1>7. PICK v : v = SubSeq(s.prompt, s.n_past + 1, s.n_past + n)
  OBVIOUS
<1>8. v \in Seq(Tokens) /\ Len(v) = n
  <2>1. PICK q \in Seq(Tokens) : q = s.prompt
    BY <1>4
  <2>2. PICK a \in Int : a = s.n_past + 1
    BY <1>4
  <2>3. PICK b \in Int : b = s.n_past + n
    BY <1>4, <1>5
  <2>4. a \in 1 .. Len(q) + 1 /\ b \in a - 1 .. Len(q) /\ b - a + 1 = n
    <3>1. PICK m \in Nat : m = s.n_past
      BY <1>4
    <3>2. PICK l \in Nat : l = Len(q)
      OBVIOUS
    <3>3. n \in Nat /\ m + n <= l /\ a = m + 1 /\ b = m + n
      BY <1>5, <2>1, <2>2, <2>3, <3>1, <3>2
    <3> QED  BY <3>2, <3>3
  <2>5. v = SubSeq(q, a, b)
    BY <1>7, <2>1, <2>2, <2>3
  <2> QED  BY <2>4, <2>5, Slice
<1>9. PICK w \in Seq(Cell) : w = Cells(v, s.n_past)
  <2>1. s.n_past + Len(v) <= NCtx
    BY <1>4, <1>5, <1>8, ContextSize
  <2> QED  BY <1>4, <1>8, <2>1, CellsFit
<1>10. PICK d \in BOOLEAN : d = (dirty /\ s.n_past > 0)
  OBVIOUS
<1>11. SlotOK(t) /\ Decode(u, t, k, w, d)
  BY <1>2, <1>6, <1>7, <1>9, <1>10 DEF PromptRound
<1>12. SlotOK(slot') /\ slot' \in {t, release(u)} /\ kv' \in Seq(Cell) /\ dirty' \in BOOLEAN
  BY <1>5, <1>11, DecodeOK
<1>13. PICK p : p = Prefix(s.prompt, u.n_past)
  OBVIOUS
<1>14. p \in Seq(Tokens) /\ Len(p) = u.n_past
  BY <1>4, <1>5, <1>13, PrefixIs
<1>15. slot'.state # "idle" => Len(p) = slot'.n_past
  <2>1. release(u).state = "idle"
    BY <1>5, ReleaseOK
  <2> QED  BY <1>2, <1>12, <1>14, <2>1 DEF PromptRound, Continues
<1>16. Seen(p)
  BY <1>2, <1>13 DEF PromptRound
<1> QED  BY <1>1, <1>12, <1>14, <1>15, <1>16, BoundedDecoded

\* Rounds that decode the sampled token.
LEMMA BoundedGenerate ==
    ASSUME Bounded, NEW tok \in Vocab, NEW stop \in BOOLEAN, Generate(tok, stop)
    PROVE  Bounded'
<1>1. slot.state = "generating" /\ (Full => ~Unsafe) /\ Then(slot') /\ file' = file
  BY GenerateRoundOK
<1>2. PICK s, u, t : GenerateRound(s, u, t)
  BY GenerateRoundOK
<1>3. /\ Shifted.kv \in Seq(Cell) /\ Shifted.seen \in Seq(Tokens) /\ Len(Shifted.seen) = s.n_past
  BY <1>1, <1>2, ShiftOK DEF GenerateRound
<1>4. s.n_past \in Nat /\ s.n_past + 1 < NCtx /\ s.sampled \in Vocab
  BY <1>2 DEF GenerateRound, Roomy, SlotOK, GeneratingOK, SlotType
<1>5. s.sampled \in Tokens
  BY <1>4 DEF Tokens
<1>6. PICK w \in Seq(Cell) : w = Cells(<<s.sampled>>, s.n_past)
  <2>1. PICK v \in Seq(Tokens) : v = <<s.sampled>> /\ Len(v) = 1
    <3>1. PICK x \in Tokens : x = s.sampled
      BY <1>5
    <3>2. <<x>> \in Seq(Tokens) /\ Len(<<x>>) = 1
      OBVIOUS
    <3> QED  BY <3>1, <3>2
  <2>2. s.n_past + Len(v) <= NCtx
    BY <1>4, <2>1, ContextSize
  <2> QED  BY <1>4, <2>1, <2>2, CellsFit
<1>7. PICK k \in Seq(Cell) : k = Shifted.kv
  BY <1>3
<1>8. PICK d \in BOOLEAN : d = Shifted.dirty
  BY <1>1, ShiftOK
<1>9. SlotOK(t) /\ CacheOK(u.cache) /\ Decode(u, t, k, w, d)
  BY <1>2, <1>6, <1>7, <1>8 DEF GenerateRound
<1>10. SlotOK(slot') /\ slot' \in {t, release(u)} /\ kv' \in Seq(Cell) /\ dirty' \in BOOLEAN
  BY <1>8, <1>9, DecodeOK
<1>11. PICK p : p = Append(Shifted.seen, s.sampled)
  OBVIOUS
<1>12. p \in Seq(Tokens) /\ Len(p) = s.n_past + 1
  BY <1>3, <1>5, <1>11, AppendProperties
<1>13. slot'.state # "idle" => Len(p) = slot'.n_past
  <2>1. release(u).state = "idle"
    BY <1>9, ReleaseOK
  <2> QED  BY <1>2, <1>10, <1>12, <2>1 DEF GenerateRound, Continues
<1>14. Seen(p)
  BY <1>2, <1>11 DEF GenerateRound
<1> QED  BY <1>1, <1>10, <1>12, <1>13, <1>14, BoundedDecoded

\* Rounds that decode a draft.
LEMMA BoundedSpeculate ==
    ASSUME Bounded, NEW draft \in Drafts, NEW a \in 0 .. SpecMax, NEW tok \in Vocab,
           NEW stop \in BOOLEAN, Speculate(draft, a, tok, stop)
    PROVE  Bounded'
<1>1. phase' = "tasks" /\ file' = file
  BY SpeculateRoundOK
<1>2. PICK u : SpeculateRound(draft, a, u)
  BY SpeculateRoundOK
<1>3. /\ draft \in Seq(Vocab) /\ a \in 0 .. Len(draft) /\ slot.n_past + Len(draft) + 1 < NCtx
      /\ slot.sampled \in Vocab /\ slot.state = "generating" /\ SlotOK(slot')
  BY <1>2 DEF SpeculateRound
<1>4. slot.n_past \in Nat /\ Len(draft) \in Nat /\ kv \in Seq(Cell) /\ seen \in Seq(Tokens)
      /\ Len(seen) = slot.n_past
  BY <1>3 DEF Bounded, SlotOK, SlotType, SeenFits
<1>5. PICK w \in Seq(Cell) : w = Cells(<<slot.sampled>> \o draft, slot.n_past) /\ Len(w) = Len(draft) + 1
  <2>1. <<slot.sampled>> \in Seq(Vocab) /\ Len(<<slot.sampled>>) = 1
    BY <1>3
  <2>2. PICK z \in Seq(Vocab) : z = <<slot.sampled>> \o draft /\ Len(z) = 1 + Len(draft)
    <3>1. PICK y \in Seq(Vocab) : y = <<slot.sampled>> /\ Len(y) = 1
      BY <2>1
    <3>2. y \o draft \in Seq(Vocab) /\ Len(y \o draft) = Len(y) + Len(draft)
      BY <1>3, ConcatProperties
    <3> QED  BY <3>1, <3>2
  <2>3. z \in Seq(Tokens)
    BY SeqMonotonic DEF Tokens
  <2>4. Len(Cells(z, slot.n_past)) = Len(z)
    BY CellsAre
  <2>5. slot.n_past + Len(z) <= NCtx
    BY <1>3, <1>4, <2>2, ContextSize
  <2>6. Cells(z, slot.n_past) \in Seq(Cell)
    BY <1>4, <2>3, <2>5, CellsFit
  <2> QED  BY <1>4, <2>2, <2>4, <2>6
<1>6. PICK j \in 0 .. Len(draft) + 1 :
         /\ kv' = seq_rm(kv \o Prefix(w, j), u.n_past, Infinity)
         /\ dirty' = (dirty \/ j <= a)
  BY <1>2, <1>5 DEF SpeculateRound
<1>7. kv' \in Seq(Cell) /\ dirty' \in BOOLEAN
  <2>1. PICK y \in Seq(Cell) : y = Prefix(w, j)
    BY <1>5, PrefixIs
  <2>2. PICK z \in Seq(Cell) : z = kv \o y
    BY <1>4, ConcatProperties
  <2>3. kv' \in Seq(Cell)
    BY <1>6, <2>1, <2>2, RemoveType
  <2> QED  BY <1>6, <2>3
<1>8. PICK v \in Seq(Tokens) : v = <<slot.sampled>> \o Prefix(draft, a) /\ Len(v) = a + 1
  BY <1>2 DEF SpeculateRound
<1>9. PICK p : p = seen \o v
  OBVIOUS
<1>10. p \in Seq(Tokens) /\ Len(p) = slot.n_past + a + 1
  <2>1. p \in Seq(Tokens) /\ Len(p) = Len(seen) + Len(v)
    BY <1>4, <1>8, <1>9, ConcatProperties
  <2> QED  BY <1>3, <1>4, <1>8, <2>1
<1>11. Seen(p) /\ u.n_past = slot.n_past + a + 1
       /\ (slot' = release(u) \/ (Continues(u, slot') /\ slot'.state = "generating"))
  BY <1>2, <1>8, <1>9 DEF SpeculateRound
<1>12. SeenFits'
  <2>1. CASE slot'.state = "idle"
    BY <1>11, <2>1, EmptySeq DEF Seen, SeenFits
  <2>2. CASE slot'.state # "idle"
    <3>1. slot'.n_past = u.n_past
      BY <1>11, <2>2 DEF Continues, release, IdleSlot
    <3> QED  BY <1>10, <1>11, <2>2, <3>1 DEF Seen, SeenFits
  <2> QED  BY <2>1, <2>2
<1> QED  BY <1>1, <1>3, <1>7, <1>12 DEF Bounded, FileOK, PhaseOK

\* Every step keeps them.
LEMMA BoundedNext == Bounded /\ [Next]_vars => Bounded'
<1> SUFFICES ASSUME Bounded, [Next]_vars PROVE Bounded'
  OBVIOUS
<1>1. CASE LaunchAny
  BY <1>1, BoundedLaunch DEF LaunchAny
<1>2. CASE SlotTask
  BY <1>2, BoundedSlotTask
<1>3. CASE RefusePrompt \/ ContextLimit
  BY <1>3, BoundedReleased DEF RefusePrompt, ContextLimit
<1>4. CASE LeftOut
  <2>1. slot.state = "generating" /\ phase = "tasks" /\ ~Unsafe /\ UNCHANGED <<file, phase>>
        /\ slot' = Shifted.slot /\ kv' = Shifted.kv /\ seen' = Shifted.seen
        /\ dirty' = Shifted.dirty
    BY <1>4 DEF LeftOut
  <2>2. SlotOK(slot') /\ kv' \in Seq(Cell) /\ SeenFits' /\ dirty' \in BOOLEAN
    BY <2>1, ShiftOK DEF Roomy, SeenFits
  <2> QED  BY <2>1, <2>2 DEF Bounded, FileOK, PhaseOK
<1>5. CASE NoDraft \/ ShiftFails
  BY <1>5 DEF NoDraft, ShiftFails, Bounded, SeenFits, FileOK, PhaseOK
<1>6. ASSUME NEW room \in 0 .. NBatch, Postpone(room) PROVE Bounded'
  <2>1. HasPrompt /\ phase = "tasks" /\ slot' = Begun.slot /\ UNCHANGED <<kv, file, phase, seen, dirty>>
    BY <1>6 DEF Postpone
  <2>2. Working(slot')
    BY <2>1, BegunOK
  <2>3. SlotOK(slot') /\ slot'.state = "prompt"
    BY <2>2 DEF Working, SlotOK, GeneratingOK
  <2> QED  BY <2>1, <2>3 DEF Bounded, SeenFits, FileOK, PhaseOK
<1>7. ASSUME NEW tok \in Vocab, NEW stop \in BOOLEAN,
             \/ \E room \in 0 .. NBatch : Prompt(room, tok, stop)
             \/ Generate(tok, stop)
             \/ \E draft \in Drafts, a \in 0 .. SpecMax : Speculate(draft, a, tok, stop)
      PROVE  Bounded'
  BY <1>7, BoundedPrompt, BoundedGenerate, BoundedSpeculate
<1>8. CASE UNCHANGED vars
  BY <1>8 DEF vars, Bounded, SeenFits, FileOK, PhaseOK
<1> QED  BY <1>1, <1>2, <1>3, <1>4, <1>5, <1>6, <1>7, <1>8 DEF Next, UpdateSlots

\* The first part of the inductive invariant.
LEMMA AlwaysBounded == Spec => []Bounded
BY BoundedInit, BoundedNext, PTL DEF Spec

\* Type correctness of a slot, its sequence in the KV cache and its files,
\* through every task and every kind of round; only a slot that has just sampled
\* a token speculates.
THEOREM SlotTypes == Spec => []TypeOK
<1>1. ASSUME Bounded PROVE TypeOK
  <2>1. slot \in SlotType /\ kv \in Seq(Cell) /\ seen \in Seq(Tokens)
    BY <1>1 DEF Bounded, SlotOK, SeenFits
  <2>2. ASSUME NEW i \in DOMAIN kv PROVE kv[i].pos \in Nat /\ kv[i].tok \in Tokens
    <3>1. kv[i] \in Cell
      BY <2>1, ElementOfSeq, LenProperties
    <3> QED  BY <3>1, ContextSize DEF Cell
  <2>3. phase = "speculate" => slot.state = "generating"
    BY <1>1 DEF Bounded, PhaseOK
  <2> QED  BY <2>1, <2>2, <2>3 DEF TypeOK, SlotType, Cached
<1> QED  BY <1>1, AlwaysBounded, PTL

\* A slot stays within its share of the context: through truncation, reuse,
\* shift and drafts, for every n_keep and n_discard of the requests, its prompt,
\* its cache and its cells fit, and where the request leaves n_discard to the
\* server a shift discards tokens, all of them behind the ones to keep.
THEOREM StaysWithinContext == Spec => []WithinContext
<1>1. ASSUME Bounded PROVE WithinContext
  <2>1. SlotOK(slot) /\ slot \in SlotType /\ kv \in Seq(Cell)
    BY <1>1 DEF Bounded, SlotOK
  <2>2. slot.n_past \in Nat /\ slot.state \in {"idle", "started", "prompt", "generating"}
        /\ slot.prompt \in Seq(Tokens) /\ Len(slot.prompt) \in Nat
    BY <2>1 DEF SlotType
  <2>3. slot.n_past <= NCtx
    <3>1. CASE slot.state \in {"idle", "started"}
      BY <2>1, <3>1, ContextSize DEF SlotOK
    <3>2. CASE slot.state = "prompt"
      BY <2>1, <2>2, <3>2, ContextSize DEF SlotOK, PromptOK
    <3>3. CASE slot.state = "generating"
      BY <2>1, <2>2, <3>3, ContextSize DEF SlotOK, GeneratingOK
    <3> QED  BY <2>2, <3>1, <3>2, <3>3
  <2>4. Len(slot.cache) <= NCtx
    BY <2>1 DEF SlotOK, CacheOK
  <2>5. ASSUME NEW i \in DOMAIN kv PROVE kv[i].pos < NCtx
    <3>1. kv[i] \in Cell
      BY <2>1, ElementOfSeq, LenProperties
    <3> QED  BY <3>1, ContextSize DEF Cell
  <2>6. slot.state \in {"prompt", "generating"} /\ slot.causal => Len(slot.prompt) < NCtx
    BY <2>1 DEF SlotOK, PromptOK, GeneratingOK, KeepOK
  <2>7. slot.state = "generating" => slot.n_past < NCtx
    BY <2>1 DEF SlotOK, GeneratingOK
  <2>8. slot.state = "generating" /\ Full /\ slot.n_discard = 0 => n_discard \in 1 .. slot.n_past - n_keep
    BY <1>1, ShiftSizes
  <2> QED  BY <2>3, <2>4, <2>5, <2>6, <2>7, <2>8 DEF WithinContext
<1> QED  BY <1>1, AlwaysBounded, PTL

\* Tokens are sampled only for a prompt of which something was evaluated, with
\* prefix and chunk reuse, also when all of the prompt was in the cache.
THEOREM LogitsAlwaysExist == Spec => []LogitsExist
<1>1. Bounded => LogitsExist
  BY DEF Bounded, SlotOK, GeneratingOK, LogitsExist
<1> QED  BY <1>1, AlwaysBounded, PTL

-----------------------------------------------------------------------------
(* Cells and the tokens they hold.                                         *)

\* There is no chunk reuse, and token number 0 occurs in no prompt and is never
\* sampled.
Plain == NCacheReuse = 0 /\ Zero \notin Tokens

\* The cells k hold the tokens t from position p on.
Hold(k, t, p) ==
    /\ k \in Seq(Cell) /\ Len(k) = Len(t)
    /\ \A i \in 1 .. Len(t) : k[i].pos = p + i - 1 /\ k[i].tok = t[i]

\* Cells do,
LEMMA CellsHold ==
    ASSUME NEW t \in Seq(Tokens), NEW p \in Nat, p + Len(t) <= NCtx
    PROVE  Hold(Cells(t, p), t, p)
<1>1. PICK k : k = Cells(t, p)
  OBVIOUS
<1>2. k \in Seq(Cell)
  BY <1>1, CellsFit
<1>3. PICK n \in Nat : n = Len(t)
  OBVIOUS
<1>4. k = [i \in 1 .. n |-> [pos |-> p + i - 1, tok |-> t[i]]]
  BY <1>1, <1>3, LenProperties DEF Cells
<1>5. \A i \in 1 .. n : k[i].pos = p + i - 1 /\ k[i].tok = t[i]
  BY <1>4
<1>6. Len(k) = n
  <2>1. DOMAIN k = 1 .. n
    BY <1>4
  <2>2. DOMAIN k = 1 .. Len(k) /\ Len(k) \in Nat
    BY <1>2, LenProperties
  <2> QED  BY <1>3, <2>1, <2>2
<1> QED  BY <1>1, <1>2, <1>3, <1>5, <1>6 DEF Hold

\* and no other cells do.
LEMMA HoldIsCells ==
    ASSUME NEW k, NEW t \in Seq(Tokens), NEW p \in Nat, p + Len(t) <= NCtx, Hold(k, t, p)
    PROVE  k = Cells(t, p)
<1>1. PICK q : q = Cells(t, p)
  OBVIOUS
<1>2. Hold(q, t, p)
  BY <1>1, CellsHold
<1>3. k \in Seq(Cell) /\ q \in Seq(Cell) /\ Len(k) = Len(t) /\ Len(q) = Len(t)
  BY <1>2 DEF Hold
<1>4. ASSUME NEW i \in 1 .. Len(t) PROVE k[i] = q[i]
  <2>1. k[i].pos = q[i].pos /\ k[i].tok = q[i].tok
    BY <1>2 DEF Hold
  <2>2. k[i] \in Cell /\ q[i] \in Cell
    BY <1>3, ElementOfSeq
  <2>3. PICK x \in Cell : x = k[i]
    BY <2>2
  <2>4. PICK y \in Cell : y = q[i]
    BY <2>2
  <2>5. x = y
    BY <2>1, <2>3, <2>4 DEF Cell
  <2> QED  BY <2>3, <2>4, <2>5
<1>5. k = q
  BY <1>3, <1>4, SeqEqual
<1> QED  BY <1>1, <1>5

\* Removing all cells.
LEMMA RemoveAll ==
    ASSUME NEW k \in Seq(Cell)
    PROVE  seq_rm(k, 0, Infinity) = <<>>
<1>1. PICK m \in Nat : m = Len(k)
  OBVIOUS
<1>2. ASSUME NEW i \in 1 .. Len(k) PROVE k[i].pos \in 0 .. Infinity - 1
  <2>1. k[i] \in Cell
    BY <1>1, ElementOfSeq
  <2> QED  BY <2>1, ContextSize DEF Cell, Infinity
<1>3. PICK z \in Nat : z = 0
  OBVIOUS
<1>4. IsGap(k, z, Infinity, z, m)
  <2>1. z \in 0 .. Len(k) /\ m \in z .. Len(k)
    BY <1>1, <1>3
  <2>2. \A i \in 1 .. Len(k) : k[i].pos \in z .. Infinity - 1 /\ i \in z + 1 .. m
    BY <1>1, <1>2, <1>3
  <2> QED  BY <2>1, <2>2 DEF IsGap
<1>5. PICK r : r = seq_rm(k, z, Infinity)
  OBVIOUS
<1>6. r \in Seq(Cell) /\ Closed(r, k, z, m)
  BY <1>4, <1>5, RemoveGap
<1>7. Len(r) = 0
  BY <1>1, <1>3, <1>6 DEF Closed
<1>8. r = <<>>
  BY <1>6, <1>7, EmptySeq
<1> QED  BY <1>3, <1>5, <1>8

\* Removing the last cells of tokens that are stored in order.
LEMMA RemoveTail ==
    ASSUME NEW t \in Seq(Tokens), Len(t) <= NCtx, NEW n \in 0 .. Len(t)
    PROVE  seq_rm(Cells(t, 0), n, Infinity) = Cells(Prefix(t, n), 0)
<1>1. PICK m \in Nat : m = Len(t)
  OBVIOUS
<1>2. PICK z \in Nat : z = 0
  OBVIOUS
<1>3. PICK k : k = Cells(t, z)
  OBVIOUS
<1>4. Hold(k, t, z)
  <2>1. z + Len(t) <= NCtx
    BY <1>2, ContextSize
  <2> QED  BY <1>3, <2>1, CellsHold
<1>5. k \in Seq(Cell) /\ Len(k) = m /\ \A i \in 1 .. m : k[i].pos = i - 1 /\ k[i].tok = t[i]
  <2>1. k \in Seq(Cell) /\ Len(k) = m /\ \A i \in 1 .. m : k[i].pos = z + i - 1 /\ k[i].tok = t[i]
    BY <1>1, <1>4 DEF Hold
  <2>2. \A i \in 1 .. m : z + i - 1 = i - 1
    BY <1>2
  <2> QED  BY <2>1, <2>2
<1>6. IsGap(k, n, Infinity, n, m)
  <2>1. n \in 0 .. Len(k) /\ m \in n .. Len(k)
    BY <1>1, <1>5
  <2>2. ASSUME NEW i \in 1 .. m PROVE i - 1 \in n .. Infinity - 1 <=> i \in n + 1 .. m
    BY <1>1, ContextSize DEF Infinity
  <2>3. \A i \in 1 .. Len(k) : k[i].pos \in n .. Infinity - 1 <=> i \in n + 1 .. m
    BY <1>5, <2>2
  <2> QED  BY <2>1, <2>3 DEF IsGap
<1>7. PICK r : r = seq_rm(k, n, Infinity)
  OBVIOUS
<1>8. r \in Seq(Cell) /\ Closed(r, k, n, m)
  BY <1>5, <1>6, <1>7, RemoveGap
<1>9. Len(r) = n /\ \A j \in 1 .. n : r[j] = k[j] /\ j \in 1 .. m
  <2>1. m - (m - n) = n /\ \A j \in 1 .. n : j <= n /\ j \in 1 .. m
    BY <1>1
  <2> QED  BY <1>5, <1>8, <2>1 DEF Closed
<1>10. PICK p \in Seq(Tokens) : p = Prefix(t, n) /\ Len(p) = n /\ \A i \in 1 .. n : p[i] = t[i]
  BY PrefixIs
<1>11. Hold(r, p, z)
  <2>1. \A j \in 1 .. n : z + j - 1 = j - 1
    BY <1>2
  <2>2. \A j \in 1 .. n : r[j].pos = z + j - 1 /\ r[j].tok = p[j]
    BY <1>5, <1>9, <1>10, <2>1
  <2> QED  BY <1>8, <1>9, <1>10, <2>2 DEF Hold
<1>12. r = Cells(p, z)
  <2>1. z + Len(p) <= NCtx
    BY <1>1, <1>2, <1>10, ContextSize
  <2> QED  BY <1>11, <2>1, HoldIsCells
<1> QED  BY <1>2, <1>3, <1>7, <1>10, <1>12

\* Storing tokens behind others.
LEMMA CellsConcat ==
    ASSUME NEW t \in Seq(Tokens), NEW v \in Seq(Tokens), Len(t) + Len(v) <= NCtx
    PROVE  Cells(t, 0) \o Cells(v, Len(t)) = Cells(t \o v, 0)
<1>1. PICK m \in Nat : m = Len(t)
  OBVIOUS
<1>2. PICK n \in Nat : n = Len(v)
  OBVIOUS
<1>3. PICK z \in Nat : z = 0
  OBVIOUS
<1>4. z + Len(t) <= NCtx /\ m + Len(v) <= NCtx
  BY <1>1, <1>2, <1>3, ContextSize
<1>5. PICK w : w = t \o v
  OBVIOUS
<1>6. w \in Seq(Tokens) /\ Len(w) = m + n
      /\ \A i \in 1 .. m + n : w[i] = IF i <= m THEN t[i] ELSE v[i - m]
  <2>1. t \o v \in Seq(Tokens) /\ Len(t \o v) = Len(t) + Len(v)
        /\ \A i \in 1 .. Len(t) + Len(v) :
             (t \o v)[i] = IF i <= Len(t) THEN t[i] ELSE v[i - Len(t)]
    BY ConcatProperties
  <2> QED  BY <1>1, <1>2, <1>5, <2>1
<1>7. PICK a : a = Cells(t, z)
  OBVIOUS
<1>8. PICK b : b = Cells(v, m)
  OBVIOUS
<1>9. Hold(a, t, z) /\ Hold(b, v, m)
  BY <1>4, <1>7, <1>8, CellsHold
<1>10. /\ a \in Seq(Cell) /\ b \in Seq(Cell) /\ Len(a) = m /\ Len(b) = n
       /\ \A i \in 1 .. m : a[i].pos = z + i - 1 /\ a[i].tok = t[i]
       /\ \A i \in 1 .. n : b[i].pos = m + i - 1 /\ b[i].tok = v[i]
  BY <1>1, <1>2, <1>9 DEF Hold
<1>11. PICK d : d = a \o b
  OBVIOUS
<1>12. d \in Seq(Cell) /\ Len(d) = m + n
       /\ \A i \in 1 .. m + n : d[i] = IF i <= m THEN a[i] ELSE b[i - m]
  <2>1. a \o b \in Seq(Cell) /\ Len(a \o b) = Len(a) + Len(b)
        /\ \A i \in 1 .. Len(a) + Len(b) :
             (a \o b)[i] = IF i <= Len(a) THEN a[i] ELSE b[i - Len(a)]
    BY <1>10, ConcatProperties
  <2> QED  BY <1>10, <1>11, <2>1
<1>13. ASSUME NEW i \in 1 .. m + n PROVE d[i].pos = z + i - 1 /\ d[i].tok = w[i]
  <2>1. CASE i <= m
    <3>1. i \in 1 .. m
      BY <1>1, <1>2, <2>1
    <3>2. d[i] = a[i] /\ w[i] = t[i]
      BY <1>6, <1>12, <2>1
    <3> QED  BY <1>10, <3>1, <3>2
  <2>2. CASE ~(i <= m)
    <3>1. i - m \in 1 .. n
      BY <1>1, <1>2, <2>2
    <3>2. PICK j \in 1 .. n : j = i - m
      BY <3>1
    <3>3. d[i] = b[j] /\ w[i] = v[j]
      BY <1>6, <1>12, <2>2, <3>2
    <3>4. m + j - 1 = z + i - 1
      BY <1>1, <1>2, <1>3, <3>2
    <3> QED  BY <1>10, <3>3, <3>4
  <2> QED  BY <2>1, <2>2
<1>14. Hold(d, w, z)
  BY <1>6, <1>12, <1>13 DEF Hold
<1>15. d = Cells(w, z)
  <2>1. z + Len(w) <= NCtx
    BY <1>1, <1>2, <1>3, <1>6, ContextSize
  <2> QED  BY <1>6, <1>14, <2>1, HoldIsCells
<1> QED  BY <1>1, <1>3, <1>5, <1>7, <1>8, <1>11, <1>15

\* Without tokens there are no cells.
LEMMA NoCells ==
    ASSUME NEW S, NEW s \in Seq(S)
    PROVE  Prefix(s, 0) = <<>> /\ Cells(<<>>, 0) = <<>>
<1>1. Prefix(s, 0) = <<>>
  BY SubSeqEmpty DEF Prefix
<1>2. Cells(<<>>, 0) = <<>>
  <2>1. <<>> \in Seq(Tokens) /\ Len(<<>>) <= NCtx /\ Len(<<>>) = 0
    BY EmptySeq, ContextSize
  <2>2. PICK e \in Seq(Tokens) : e = <<>>
    BY <2>1
  <2>3. PICK z \in Nat : z = 0
    OBVIOUS
  <2>4. Hold(Cells(e, z), e, z)
    <3>1. z + Len(e) <= NCtx
      BY <2>1, <2>2, <2>3, ContextSize
    <3> QED  BY <2>2, <2>3, <3>1, CellsHold
  <2>5. Cells(e, z) \in Seq(Cell) /\ Len(Cells(e, z)) = 0
    BY <2>1, <2>2, <2>4 DEF Hold
  <2> QED  BY <2>2, <2>3, <2>5, EmptySeq
<1> QED  BY <1>1, <1>2

\* A cache that holds the tokens of the cells agrees with them.
LEMMA AgreesSelf ==
    ASSUME NEW t \in Seq(Tokens), Len(t) <= NCtx
    PROVE  Agrees(t, Cells(t, 0))
BY RemoveTail DEF Agrees

\* A cache of zeros says nothing, and agrees with all cells.
LEMMA AgreesZero ==
    ASSUME NEW c \in Seq(Cached), Zeros(c), NEW k \in Seq(Cell)
    PROVE  Agrees(c, k)
<1> SUFFICES ASSUME NEW n \in 0 .. Len(c), \A i \in 1 .. n : c[i] # Zero
             PROVE  seq_rm(k, n, Infinity) = Cells(Prefix(c, n), 0)
  BY DEF Agrees
<1>1. n = 0
  <2>1. n # 0 => 1 \in 1 .. n /\ 1 \in 1 .. Len(c)
    OBVIOUS
  <2> QED  BY <2>1 DEF Zeros
<1> QED  BY <1>1, RemoveAll, NoCells

\* So does an empty one.
LEMMA AgreesEmpty ==
    ASSUME NEW k \in Seq(Cell)
    PROVE  Agrees(<<>>, k)
<1>1. <<>> \in Seq(Cached) /\ Zeros(<<>>)
  BY EmptySeq DEF Zeros
<1> QED  BY <1>1, AgreesZero

-----------------------------------------------------------------------------
(* What a round finds.                                                     *)

\* A cache that begins like the prompt.
LEMMA CommonPrefix ==
    ASSUME NEW c \in Seq(Cached), NEW p \in Seq(Tokens), NEW n \in 0 .. Len(p), n <= Len(c),
           \A i \in 1 .. n : c[i] = p[i]
    PROVE  Resized(c, n) = Prefix(p, n) /\ Prefix(c, n) = Prefix(p, n)
<1>1. n \in Nat /\ n \in 0 .. Len(c) /\ \A i \in 1 .. n : i <= Len(c)
  OBVIOUS
<1>2. PICK x : x = Prefix(p, n)
  OBVIOUS
<1>3. x \in Seq(Tokens) /\ Len(x) = n /\ \A i \in 1 .. n : x[i] = p[i]
  BY <1>2, PrefixIs
<1>4. x \in Seq(Cached)
  BY <1>3, SeqMonotonic DEF Cached
<1>5. PICK y : y = Prefix(c, n)
  OBVIOUS
<1>6. y \in Seq(Cached) /\ Len(y) = n /\ \A i \in 1 .. n : y[i] = c[i]
  BY <1>1, <1>5, PrefixIs
<1>7. PICK r : r = Resized(c, n)
  OBVIOUS
<1>8. r \in Seq(Cached) /\ Len(r) = n /\ \A i \in 1 .. n : r[i] = c[i]
  BY <1>1, <1>7, ResizedIs
<1>9. x = y /\ x = r
  BY <1>3, <1>4, <1>6, <1>8, SeqEqual
<1> QED  BY <1>2, <1>5, <1>7, <1>9

\* Resizing zeros gives zeros.
LEMMA ZerosResized ==
    ASSUME NEW c \in Seq(Cached), NEW n \in Nat, Zeros(c) \/ n = 0
    PROVE  Zeros(Resized(c, n))
<1>1. Len(Resized(c, n)) = n /\ \A i \in 1 .. n : Resized(c, n)[i] = IF i <= Len(c) THEN c[i] ELSE Zero
  BY ResizedIs
<1>2. \A i \in 1 .. n : i <= Len(c) => i \in 1 .. Len(c)
  OBVIOUS
<1> QED  BY <1>1, <1>2 DEF Zeros

\* What a round that works on a prompt leaves of the cache and of the cells: what
\* the prompt begins with.
Based(s, k) ==
    /\ s.cache_prompt => Resized(s.cache, s.n_past) = Prefix(s.prompt, s.n_past)
    /\ ~s.cache_prompt => Zeros(Resized(s.cache, s.n_past))
    /\ ~(dirty /\ s.n_past > 0) => seq_rm(k, s.n_past, Infinity) = Cells(Prefix(s.prompt, s.n_past), 0)

\* Nothing is left.
LEMMA BasedZero ==
    ASSUME NEW s, Working(s), s.n_past = 0, NEW k \in Seq(Cell)
    PROVE  Based(s, k)
<1>1. s.cache \in Seq(Cached) /\ s.prompt \in Seq(Tokens)
  BY DEF Working, SlotType
<1>2. Zeros(Resized(s.cache, 0))
  BY <1>1, ZerosResized
<1>3. Resized(s.cache, 0) = Prefix(s.prompt, 0)
  <2>1. PICK z \in Nat : z = 0
    OBVIOUS
  <2>2. z \in 0 .. Len(s.prompt) /\ z <= Len(s.cache) /\ \A i \in 1 .. z : s.cache[i] = s.prompt[i]
    BY <1>1, <2>1
  <2>3. Resized(s.cache, z) = Prefix(s.prompt, z)
    BY <1>1, <2>2, CommonPrefix
  <2> QED  BY <2>1, <2>3
<1>4. seq_rm(k, 0, Infinity) = Cells(Prefix(s.prompt, 0), 0)
  BY <1>1, RemoveAll, NoCells
<1> QED  BY <1>2, <1>3, <1>4 DEF Based

\* A prompt that is started: what is reused of the cache is also in the cells.
LEMMA BasedStarted ==
    ASSUME Plain, Bounded, Faithful, NEW s, Working(s), NEW k \in Seq(Cell),
           slot.state = "started", StartedOK(slot, kv, s, k), s.n_past > 0
    PROVE  Based(s, k)
<1>1. s.cache_prompt /\ k = kv /\ s.cache = slot.cache /\ s.n_past <= Len(s.cache)
      /\ \A i \in 1 .. s.n_past : s.cache[i] = s.prompt[i]
  BY DEF StartedOK, Plain, Working, SlotType
<1>2. s.cache \in Seq(Cached) /\ s.prompt \in Seq(Tokens) /\ s.n_past \in Nat /\ s.n_past < Len(s.prompt)
  BY DEF Working, SlotType, PromptOK
<1>3. PICK n \in Nat : n = s.n_past
  BY <1>2
<1>4. n \in 0 .. Len(s.prompt) /\ n \in 0 .. Len(s.cache) /\ n <= Len(s.cache)
  BY <1>1, <1>2, <1>3
<1>5. \A i \in 1 .. n : s.cache[i] = s.prompt[i] /\ i \in 1 .. Len(s.prompt)
  BY <1>1, <1>2, <1>3
<1>6. Resized(s.cache, n) = Prefix(s.prompt, n) /\ Prefix(s.cache, n) = Prefix(s.prompt, n)
  BY <1>2, <1>4, <1>5, CommonPrefix
<1>7. ASSUME ~dirty PROVE seq_rm(k, n, Infinity) = Cells(Prefix(s.prompt, n), 0)
  <2>1. Agrees(s.cache, k)
    BY <1>1, <1>7 DEF Faithful
  <2>2. \A i \in 1 .. n : s.cache[i] # Zero
    <3>1. \A i \in 1 .. n : s.prompt[i] \in Tokens
      BY <1>2, <1>5, ElementOfSeq
    <3> QED  BY <1>5, <3>1 DEF Plain
  <2>3. seq_rm(k, n, Infinity) = Cells(Prefix(s.cache, n), 0)
    BY <1>4, <2>1, <2>2 DEF Agrees
  <2> QED  BY <1>6, <2>3
<1> QED  BY <1>1, <1>3, <1>6, <1>7 DEF Based

\* A prompt that a round goes on with.
LEMMA BasedPrompt ==
    ASSUME Bounded, Faithful, slot.state = "prompt", slot.n_past > 0
    PROVE  Based(slot, kv)
<1>1. /\ slot \in SlotType /\ slot.n_past < Len(slot.prompt) /\ Len(slot.prompt) <= NCtx
      /\ slot.causal
  BY DEF Bounded, SlotOK, PromptOK, SlotType
<1>2. slot.prompt \in Seq(Tokens) /\ slot.n_past \in Nat /\ slot.cache \in Seq(Cached)
  BY <1>1 DEF SlotType
<1>3. PICK n \in Nat : n = slot.n_past
  BY <1>2
<1>4. n \in 0 .. Len(slot.prompt) /\ n <= NCtx
  BY <1>1, <1>2, <1>3, ContextSize
<1>5. PICK p : p = Prefix(slot.prompt, n)
  OBVIOUS
<1>6. p \in Seq(Tokens) /\ Len(p) = n /\ \A i \in 1 .. n : p[i] = slot.prompt[i]
  BY <1>2, <1>4, <1>5, PrefixIs
<1>7. seen = p
  BY <1>1, <1>3, <1>5 DEF Faithful, SeenOK
<1>8. ASSUME slot.cache_prompt PROVE Resized(slot.cache, n) = p
  <2>1. slot.cache = p
    BY <1>1, <1>7, <1>8 DEF Faithful, SeenOK
  <2>2. n <= Len(slot.cache) /\ \A i \in 1 .. n : slot.cache[i] = slot.prompt[i]
    BY <1>6, <2>1
  <2> QED  BY <1>2, <1>4, <1>5, <2>2, CommonPrefix
<1>9. ASSUME ~slot.cache_prompt PROVE Zeros(Resized(slot.cache, n))
  <2>1. Zeros(slot.cache)
    BY <1>1, <1>9 DEF Faithful, SeenOK
  <2> QED  BY <1>2, <2>1, ZerosResized
<1>10. ASSUME ~dirty PROVE seq_rm(kv, n, Infinity) = Cells(p, 0)
  <2>1. kv = Cells(p, 0)
    BY <1>1, <1>7, <1>10 DEF Faithful, ContextRight
  <2>2. n \in 0 .. Len(p) /\ Len(p) <= NCtx
    BY <1>4, <1>6
  <2>3. seq_rm(Cells(p, 0), n, Infinity) = Cells(Prefix(p, n), 0)
    BY <1>6, <2>2, RemoveTail
  <2>4. Prefix(p, n) = p
    BY <1>6, SubSeqFull DEF Prefix
  <2> QED  BY <2>1, <2>3, <2>4
<1> QED  BY <1>3, <1>5, <1>8, <1>9, <1>10 DEF Based

\* The slot as a round finds it.
LEMMA BegunBased ==
    ASSUME Plain, Bounded, Faithful, HasPrompt
    PROVE  Based(Begun.slot, Begun.kv)
<1>1. PICK s : s = Begun.slot
  OBVIOUS
<1>2. PICK k : k = Begun.kv
  OBVIOUS
<1>3. /\ Working(s) /\ k \in Seq(Cell)
      /\ slot.state # "started" => s = slot /\ k = kv
      /\ slot.state = "started" => StartedOK(slot, kv, s, k)
  BY <1>1, <1>2, BegunOK
<1>4. s.n_past \in Nat
  BY <1>3 DEF Working, SlotType
<1>5. CASE s.n_past = 0
  BY <1>1, <1>2, <1>3, <1>5, BasedZero
<1>6. CASE s.n_past > 0 /\ slot.state = "started"
  BY <1>1, <1>2, <1>3, <1>6, BasedStarted
<1>7. CASE s.n_past > 0 /\ slot.state # "started"
  BY <1>1, <1>2, <1>3, <1>7, BasedPrompt DEF HasPrompt
<1> QED  BY <1>4, <1>5, <1>6, <1>7

-----------------------------------------------------------------------------
(* What a round leaves.                                                    *)

\* A step after which the tokens p are those to predict the next one from: what
\* u has cached of them, and what is stored of them.
Stored(u, p) ==
    /\ p \in Seq(Tokens) /\ Len(p) = u.n_past /\ u.n_past <= NCtx
    /\ u.cache \in Seq(Cached) /\ u.cache_prompt \in BOOLEAN
    /\ u.cache_prompt => u.cache = p
    /\ ~u.cache_prompt => Zeros(u.cache)
    /\ slot' = release(u) \/ Continues(u, slot')
    /\ slot'.state = "prompt" => p = Prefix(slot'.prompt, slot'.n_past)
    /\ Seen(p) /\ kv' \in Seq(Cell) /\ file' = file
    /\ ~dirty' => kv' = Cells(p, 0)

\* Such a step leaves cache and cells alike.
LEMMA StoredFaithful ==
    ASSUME Faithful, NEW u, NEW p, Stored(u, p)
    PROVE  Faithful'
<1>1. slot'.cache = u.cache
  BY DEF Stored, Continues, release, IdleSlot
<1>2. ASSUME slot'.state # "idle" PROVE Continues(u, slot') /\ seen' = p
  <2>1. release(u).state = "idle"
    BY DEF release, IdleSlot
  <2> QED  BY <1>2, <2>1 DEF Stored, Seen
<1>3. SeenOK'
  BY <1>2 DEF SeenOK, Stored, Continues
<1>4. ContextRight'
  BY <1>2 DEF ContextRight, Stored
<1>5. ASSUME ~dirty' PROVE Agrees(u.cache, kv')
  <2>1. CASE u.cache_prompt
    <3>1. p \in Seq(Tokens) /\ Len(p) <= NCtx /\ u.cache = p /\ kv' = Cells(p, 0)
      BY <1>5, <2>1 DEF Stored
    <3>2. Agrees(p, Cells(p, 0))
      BY <3>1, AgreesSelf
    <3> QED  BY <3>1, <3>2
  <2>2. CASE ~u.cache_prompt
    <3>1. u.cache \in Seq(Cached) /\ Zeros(u.cache) /\ kv' \in Seq(Cell)
      BY <2>2 DEF Stored
    <3> QED  BY <3>1, AgreesZero
  <2> QED  BY <2>1, <2>2 DEF Stored
<1>6. ~dirty' => Agrees(slot'.cache, kv')
  BY <1>1, <1>5
<1>7. file' # Unset /\ ~file'.dirty => Agrees(file'.cache, file'.kv)
  BY DEF Stored, Faithful
<1>8. Faithful' = (SeenOK' /\ (~dirty' => Agrees(slot'.cache, kv')) /\ ContextRight'
                   /\ (file' # Unset /\ ~file'.dirty => Agrees(file'.cache, file'.kv)))
  BY DEF Faithful, Agrees
<1> QED  BY <1>3, <1>4, <1>6, <1>7, <1>8

\* A round with a prompt.
LEMMA FaithfulPrompt ==
    ASSUME Plain, Bounded, Faithful, NEW room \in 0 .. NBatch, NEW tok \in Vocab,
           NEW stop \in BOOLEAN, Prompt(room, tok, stop)
    PROVE  Faithful'
<1>1. HasPrompt /\ file' = file
  BY PromptRoundOK
<1>2. PICK s, n, u, t : PromptRound(s, n, u, t)
  BY PromptRoundOK
<1>3. s = Begun.slot /\ Working(s) /\ Begun.kv \in Seq(Cell)
  BY <1>1, <1>2, BegunOK DEF PromptRound
<1>4. Based(s, Begun.kv)
  BY <1>1, <1>3, BegunBased
<1>5. PromptAdded(s, n, u)
  BY <1>2 DEF PromptRound
<1>6. /\ s.prompt \in Seq(Tokens) /\ s.cache \in Seq(Cached) /\ s.cache_prompt \in BOOLEAN
      /\ s.n_past \in Nat /\ Len(s.prompt) <= NCtx
  BY <1>3 DEF Working, SlotType, PromptOK
<1>7. /\ n \in Nat /\ s.n_past + n <= Len(s.prompt) /\ CacheOK(u.cache) /\ u.n_past = s.n_past + n
      /\ u.prompt = s.prompt /\ u.cache_prompt = s.cache_prompt
  BY <1>5 DEF PromptAdded
<1>8. PICK m \in Nat : m = s.n_past
  BY <1>6
<1>9. PICK x \in Nat : x = s.n_past + n
  BY <1>6, <1>7
<1>10. x \in 0 .. Len(s.prompt) /\ m \in 0 .. Len(s.prompt) /\ m <= x /\ x <= NCtx
  BY <1>6, <1>7, <1>8, <1>9, ContextSize
<1>11. PICK b : b = Prefix(s.prompt, m)
  OBVIOUS
<1>12. PICK v : v = SubSeq(s.prompt, m + 1, x)
  OBVIOUS
<1>13. PICK p : p = Prefix(s.prompt, x)
  OBVIOUS
<1>14. b \in Seq(Tokens) /\ Len(b) = m /\ p \in Seq(Tokens) /\ Len(p) = x
  BY <1>6, <1>10, <1>11, <1>13, PrefixIs
<1>15. v \in Seq(Tokens) /\ Len(v) = x - m
  <2>1. m + 1 \in 1 .. Len(s.prompt) + 1 /\ x \in (m + 1) - 1 .. Len(s.prompt) /\ x - (m + 1) + 1 = x - m
    BY <1>6, <1>10
  <2>2. SubSeq(s.prompt, m + 1, x) \in Seq(Tokens)
        /\ Len(SubSeq(s.prompt, m + 1, x)) = x - (m + 1) + 1
    BY <1>6, <2>1, Slice
  <2> QED  BY <1>12, <2>1, <2>2
<1>16. p = b \o v
  <2>1. m \in (1 - 1) .. Len(s.prompt) /\ x \in m .. Len(s.prompt)
    BY <1>6, <1>10
  <2>2. SubSeq(s.prompt, 1, m) \o SubSeq(s.prompt, m + 1, x) = SubSeq(s.prompt, 1, x)
    BY <1>6, <2>1, ConcatAdjacentSubSeq
  <2> QED  BY <1>11, <1>12, <1>13, <2>2 DEF Prefix
<1>17. Cells(b, 0) \o Cells(v, m) = Cells(p, 0)
  <2>1. Len(b) + Len(v) <= NCtx
    BY <1>10, <1>14, <1>15, ContextSize
  <2> QED  BY <1>14, <1>15, <1>16, <2>1, CellsConcat
<1>18. PICK k : k = seq_rm(Begun.kv, m, Infinity)
  OBVIOUS
<1>19. k \in Seq(Cell)
  BY <1>3, <1>18, RemoveType
<1>20. ~(dirty /\ m > 0) => k = Cells(b, 0)
  BY <1>4, <1>8, <1>11, <1>18 DEF Based
<1>21. PICK w : w = Cells(v, m)
  OBVIOUS
<1>22. w \in Seq(Cell)
  <2>1. m + Len(v) <= NCtx
    BY <1>10, <1>15, ContextSize
  <2> QED  BY <1>15, <1>21, <2>1, CellsFit
<1>23. PICK d \in BOOLEAN : d = (dirty /\ m > 0)
  OBVIOUS
<1>24. Decode(u, t, k, w, d) /\ SlotOK(t) /\ (t = release(u) \/ Continues(u, t)) /\ Seen(p)
  BY <1>2, <1>7, <1>8, <1>9, <1>12, <1>13, <1>18, <1>21, <1>23 DEF PromptRound
<1>25. slot' \in {t, release(u)} /\ kv' \in Seq(Cell) /\ (~dirty' => ~d /\ kv' = k \o w)
  BY <1>7, <1>19, <1>22, <1>24, DecodeOK
<1>26. ~dirty' => kv' = Cells(p, 0)
  BY <1>17, <1>20, <1>21, <1>23, <1>25
<1>27. slot' = release(u) \/ Continues(u, slot')
  BY <1>24, <1>25
<1>28. slot'.state = "prompt" => p = Prefix(slot'.prompt, slot'.n_past)
  <2>1. release(u).state = "idle"
    BY DEF release, IdleSlot
  <2> QED  BY <1>7, <1>9, <1>13, <1>27, <2>1 DEF Continues
<1>29. u.cache \in Seq(Cached) /\ u.cache_prompt \in BOOLEAN /\ u.n_past <= NCtx /\ Len(p) = u.n_past
  BY <1>6, <1>7, <1>9, <1>10, <1>14 DEF CacheOK
<1>30. u.cache_prompt => u.cache = p
  BY <1>4, <1>5, <1>7, <1>8, <1>9, <1>11, <1>12, <1>16 DEF Based, PromptAdded
<1>31. ~u.cache_prompt => Zeros(u.cache)
  BY <1>4, <1>5, <1>7 DEF Based, PromptAdded
<1>32. Stored(u, p)
  BY <1>1, <1>14, <1>24, <1>25, <1>26, <1>27, <1>28, <1>29, <1>30, <1>31 DEF Stored
<1> QED  BY <1>32, StoredFaithful

-----------------------------------------------------------------------------
(* The context shift.                                                      *)

\* Cells that hold what was seen hold what is left of it after a shift.
LEMMA ShiftCells ==
    ASSUME Bounded, slot.state = "generating", Full, ~Unsafe, ~Overcut, kv = Cells(seen, 0)
    PROVE  ShiftedKv = Cells(Without(seen), 0)
<1>1. PICK a \in Nat : a = n_keep
  BY ShiftSizes
<1>2. PICK d \in Nat : d = n_discard
  BY ShiftSizes
<1>3. PICK m \in Nat : m = slot.n_past
  BY ShiftSizes, ContextSize
<1>4. PICK b \in Nat : b = a + d
  BY <1>1, <1>2
<1>5. d >= 1 /\ b <= m /\ m < NCtx
  BY <1>1, <1>2, <1>3, <1>4, ShiftSizes, ContextSize DEF Overcut
<1>6. seen \in Seq(Tokens) /\ Len(seen) = m
  BY <1>3 DEF Bounded, SeenFits
<1>7. PICK z \in Nat : z = 0
  OBVIOUS
<1>8. kv \in Seq(Cell) /\ Len(kv) = m /\ \A i \in 1 .. m : kv[i].pos = i - 1 /\ kv[i].tok = seen[i]
  <2>1. z + Len(seen) <= NCtx
    BY <1>5, <1>6, <1>7, ContextSize
  <2>2. Hold(kv, seen, z)
    BY <1>6, <1>7, <2>1, CellsHold
  <2>3. \A i \in 1 .. m : z + i - 1 = i - 1
    BY <1>7
  <2> QED  BY <1>6, <2>2, <2>3 DEF Hold
<1>9. IsGap(kv, a, b, a, b)
  <2>1. a \in 0 .. Len(kv) /\ b \in a .. Len(kv)
    BY <1>4, <1>5, <1>8
  <2>2. ASSUME NEW i \in 1 .. m PROVE i - 1 \in a .. b - 1 <=> i \in a + 1 .. b
    OBVIOUS
  <2>3. \A i \in 1 .. Len(kv) : kv[i].pos \in a .. b - 1 <=> i \in a + 1 .. b
    BY <1>8, <2>2
  <2> QED  BY <2>1, <2>3 DEF IsGap
<1>10. PICK r : r = seq_rm(kv, a, b)
  OBVIOUS
<1>11. r \in Seq(Cell) /\ Closed(r, kv, a, b)
  BY <1>8, <1>9, <1>10, RemoveGap
<1>12. b - a = d /\ m - d \in Nat
  BY <1>4, <1>5
<1>13. Len(r) = m - d /\ \A j \in 1 .. m - d : r[j] = IF j <= a THEN kv[j] ELSE kv[j + d]
  BY <1>8, <1>11, <1>12 DEF Closed
<1>14. PICK e \in Int : e = -d
  OBVIOUS
<1>15. PICK q : q = seq_add(r, b, m, e)
  OBVIOUS
<1>16. q \in Seq(Cell) /\ Len(q) = m - d
       /\ \A j \in 1 .. m - d :
            /\ q[j].tok = r[j].tok
            /\ r[j].pos \in b .. m - 1 => q[j].pos = r[j].pos + e
            /\ r[j].pos \notin b .. m - 1 => q[j].pos = r[j].pos
  <2>1. e <= 0 /\ b + e >= 0 /\ b \in Int /\ m \in Int
    BY <1>4, <1>14
  <2>2. /\ seq_add(r, b, m, e) \in Seq(Cell) /\ Len(seq_add(r, b, m, e)) = Len(r)
        /\ \A j \in 1 .. Len(r) :
             /\ seq_add(r, b, m, e)[j].tok = r[j].tok
             /\ r[j].pos \in b .. m - 1 => seq_add(r, b, m, e)[j].pos = r[j].pos + e
             /\ r[j].pos \notin b .. m - 1 => seq_add(r, b, m, e)[j].pos = r[j].pos
    <3>1. r \in Seq(Cell)
      BY <1>11
    <3> QED  BY <2>1, <3>1, AddFits
  <2> QED  BY <1>13, <1>15, <2>2
<1>17. PICK x : x = Without(seen)
  OBVIOUS
<1>18. x \in Seq(Tokens) /\ Len(x) = m - d
       /\ \A j \in 1 .. m - d : x[j] = IF j <= a THEN seen[j] ELSE seen[j + d]
  BY <1>1, <1>2, <1>3, <1>6, <1>17, WithoutIs
<1>19. ASSUME NEW j \in 1 .. m - d PROVE q[j].pos = z + j - 1 /\ q[j].tok = x[j]
  <2>1. j \in Nat /\ z + j - 1 = j - 1
    BY <1>7, <1>12
  <2>2. CASE j <= a
    <3>1. j \in 1 .. m /\ j - 1 \notin b .. m - 1
      BY <1>4, <1>5, <1>12, <2>2
    <3>2. r[j] = kv[j] /\ x[j] = seen[j]
      BY <1>13, <1>18, <2>2
    <3>3. r[j].pos = j - 1 /\ r[j].tok = seen[j]
      BY <1>8, <3>1, <3>2
    <3> QED  BY <1>16, <2>1, <3>1, <3>2, <3>3
  <2>3. CASE ~(j <= a)
    <3>1. j + d \in 1 .. m /\ (j + d) - 1 \in b .. m - 1 /\ (j + d) - 1 + e = j - 1
      BY <1>4, <1>5, <1>12, <1>14, <2>3
    <3>2. PICK i \in 1 .. m : i = j + d
      BY <3>1
    <3>3. r[j] = kv[i] /\ x[j] = seen[i]
      BY <1>13, <1>18, <2>3, <3>2
    <3>4. r[j].pos = i - 1 /\ r[j].tok = seen[i]
      BY <1>8, <3>3
    <3> QED  BY <1>16, <2>1, <3>1, <3>2, <3>3, <3>4
  <2> QED  BY <2>2, <2>3
<1>20. Hold(q, x, z)
  BY <1>16, <1>18, <1>19 DEF Hold
<1>21. q = Cells(x, z)
  <2>1. z + Len(x) <= NCtx
    BY <1>5, <1>7, <1>12, <1>18, ContextSize
  <2> QED  BY <1>18, <1>20, <2>1, HoldIsCells
<1>22. ShiftedKv = q
  BY <1>1, <1>2, <1>3, <1>4, <1>10, <1>14, <1>15 DEF ShiftedKv
<1> QED  BY <1>7, <1>17, <1>21, <1>22

\* After a shift, if there is one, cache and cells still hold what was seen.
LEMMA ShiftFaithful ==
    ASSUME Bounded, Faithful, slot.state = "generating", Full => ~Unsafe
    PROVE  /\ slot.cache_prompt => Shifted.slot.cache = Shifted.seen
           /\ ~slot.cache_prompt => Zeros(Shifted.slot.cache)
           /\ ~Shifted.dirty => Shifted.kv = Cells(Shifted.seen, 0)
<1>1. slot.causal
  BY DEF Bounded, SlotOK, GeneratingOK
<1>2. /\ slot.cache_prompt => slot.cache = seen
      /\ ~slot.cache_prompt => Zeros(slot.cache)
      /\ ~dirty => kv = Cells(seen, 0)
  BY <1>1 DEF Faithful, SeenOK, ContextRight
<1>3. CASE ~Full
  BY <1>2, <1>3, ShiftOK
<1>4. CASE Full
  <2>1. /\ Shifted.kv = ShiftedKv /\ Shifted.seen = Without(seen)
        /\ slot.cache_prompt => Shifted.slot.cache = Without(slot.cache)
        /\ ~slot.cache_prompt => Shifted.slot.cache = slot.cache
        /\ ~Shifted.dirty => ~dirty /\ ~Overcut
    BY <1>4, ShiftOK
  <2> QED  BY <1>2, <1>4, <2>1, ShiftCells
<1> QED  BY <1>3, <1>4

\* A round that decodes the sampled token.
LEMMA FaithfulGenerate ==
    ASSUME Bounded, Faithful, NEW tok \in Vocab, NEW stop \in BOOLEAN, Generate(tok, stop)
    PROVE  Faithful'
<1>1. slot.state = "generating" /\ (Full => ~Unsafe) /\ file' = file
  BY GenerateRoundOK
<1>2. PICK s, u, t : GenerateRound(s, u, t)
  BY GenerateRoundOK
<1>3. PICK b : b = Shifted.seen
  OBVIOUS
<1>4. PICK k, d : k = Shifted.kv /\ d = Shifted.dirty
  OBVIOUS
<1>5. s = Shifted.slot /\ Roomy(s)
  BY <1>2 DEF GenerateRound
<1>6. k \in Seq(Cell) /\ b \in Seq(Tokens) /\ Len(b) = s.n_past /\ s.cache_prompt = slot.cache_prompt
  BY <1>1, <1>3, <1>4, <1>5, ShiftOK
<1>7. /\ s.cache_prompt => s.cache = b
      /\ ~s.cache_prompt => Zeros(s.cache)
      /\ ~d => k = Cells(b, 0)
  BY <1>1, <1>3, <1>4, <1>5, <1>6, ShiftFaithful
<1>8. /\ s \in SlotType /\ s.sampled \in Vocab /\ s.n_past + 1 < NCtx /\ s.n_past \in Nat
      /\ s.cache_prompt \in BOOLEAN
  BY <1>5 DEF Roomy, SlotOK, GeneratingOK, SlotType
<1>9. PICK x \in Tokens : x = s.sampled
  BY <1>8 DEF Tokens
<1>10. <<x>> \in Seq(Tokens) /\ Len(<<x>>) = 1
  OBVIOUS
<1>11. PICK v : v = <<x>>
  OBVIOUS
<1>12. PICK p : p = Append(b, x)
  OBVIOUS
<1>13. p \in Seq(Tokens) /\ Len(p) = s.n_past + 1
  BY <1>6, <1>12, AppendProperties
<1>14. p = b \o v
  BY <1>6, <1>11, <1>12, AppendIsConcat
<1>15. Len(v) = 1 /\ v \in Seq(Tokens)
  BY <1>10, <1>11
<1>16. PICK w : w = Cells(v, s.n_past)
  OBVIOUS
<1>17. w \in Seq(Cell)
  <2>1. s.n_past + Len(v) <= NCtx
    BY <1>8, <1>15, ContextSize
  <2> QED  BY <1>8, <1>15, <1>16, <2>1, CellsFit
<1>18. Cells(b, 0) \o w = Cells(p, 0)
  <2>1. Len(b) + Len(v) <= NCtx
    BY <1>6, <1>8, <1>15, ContextSize
  <2>2. Cells(b, 0) \o Cells(v, Len(b)) = Cells(b \o v, 0)
    BY <1>6, <1>15, <2>1, CellsConcat
  <2> QED  BY <1>6, <1>14, <1>16, <2>2
<1>19. /\ u.n_past = s.n_past + 1 /\ u.cache_prompt = s.cache_prompt /\ CacheOK(u.cache)
       /\ s.cache_prompt => u.cache = Append(s.cache, s.sampled)
       /\ ~s.cache_prompt => u.cache = s.cache
       /\ SlotOK(t) /\ (t = release(u) \/ (Continues(u, t) /\ t.state = "generating"))
       /\ Decode(u, t, k, w, d) /\ Seen(p)
  BY <1>2, <1>3, <1>4, <1>9, <1>11, <1>12, <1>16 DEF GenerateRound
<1>20. slot' \in {t, release(u)} /\ kv' \in Seq(Cell) /\ (~dirty' => ~d /\ kv' = k \o w)
  <2>1. d \in BOOLEAN
    BY <1>1, <1>4, ShiftOK
  <2> QED  BY <1>6, <1>17, <1>19, <2>1, DecodeOK
<1>21. ~dirty' => kv' = Cells(p, 0)
  BY <1>7, <1>18, <1>20
<1>22. (slot' = release(u) \/ Continues(u, slot')) /\ slot'.state # "prompt"
  <2>1. release(u).state = "idle"
    BY DEF release, IdleSlot
  <2> QED  BY <1>19, <1>20, <2>1
<1>23. u.cache \in Seq(Cached) /\ u.cache_prompt \in BOOLEAN /\ u.n_past <= NCtx /\ Len(p) = u.n_past
  BY <1>8, <1>13, <1>19, ContextSize DEF CacheOK
<1>24. (u.cache_prompt => u.cache = p) /\ (~u.cache_prompt => Zeros(u.cache))
  BY <1>7, <1>9, <1>12, <1>19
<1>25. Stored(u, p)
  BY <1>1, <1>13, <1>19, <1>20, <1>21, <1>22, <1>23, <1>24 DEF Stored
<1> QED  BY <1>25, StoredFaithful

\* A round that leaves the slot out.
LEMMA FaithfulLeftOut ==
    ASSUME Bounded, Faithful, LeftOut
    PROVE  Faithful'
<1>1. /\ slot.state = "generating" /\ Full /\ ~Unsafe
      /\ slot' = Shifted.slot /\ kv' = Shifted.kv /\ seen' = Shifted.seen
      /\ file' = file /\ dirty' = Shifted.dirty
  BY DEF LeftOut
<1>2. /\ Roomy(slot') /\ slot'.cache_prompt = slot.cache_prompt
      /\ kv' \in Seq(Cell) /\ seen' \in Seq(Tokens) /\ Len(seen') = slot'.n_past
  BY <1>1, ShiftOK
<1>3. /\ slot.cache_prompt => slot'.cache = seen'
      /\ ~slot.cache_prompt => Zeros(slot'.cache)
      /\ ~dirty' => kv' = Cells(seen', 0)
  BY <1>1, ShiftFaithful
<1>4. slot' \in SlotType /\ slot'.state = "generating" /\ slot'.n_past + 1 < NCtx
  BY <1>2 DEF Roomy, SlotOK
<1>5. slot'.n_past \in Nat /\ slot'.cache \in Seq(Cached) /\ slot'.cache_prompt \in BOOLEAN
  BY <1>4 DEF SlotType
<1>6. slot'.n_past <= NCtx
  BY <1>4, <1>5, ContextSize
<1>7. Continues(slot', slot') /\ Seen(seen')
  BY <1>4 DEF Continues, Seen
<1>8. Stored(slot', seen')
  BY <1>1, <1>2, <1>3, <1>4, <1>5, <1>6, <1>7 DEF Stored
<1> QED  BY <1>8, StoredFaithful

-----------------------------------------------------------------------------
(* Drafts.                                                                 *)

\* The first of the cells of tokens are the cells of the first tokens.
LEMMA CellsPrefix ==
    ASSUME NEW t \in Seq(Tokens), NEW p \in Nat, p + Len(t) <= NCtx, NEW n \in 0 .. Len(t)
    PROVE  Prefix(Cells(t, p), n) = Cells(Prefix(t, n), p)
<1>1. PICK k : k = Cells(t, p)
  OBVIOUS
<1>2. k \in Seq(Cell) /\ Len(k) = Len(t) /\ \A i \in 1 .. Len(t) : k[i].pos = p + i - 1 /\ k[i].tok = t[i]
  BY <1>1, CellsHold DEF Hold
<1>3. PICK x : x = Prefix(t, n)
  OBVIOUS
<1>4. x \in Seq(Tokens) /\ Len(x) = n /\ \A i \in 1 .. n : x[i] = t[i]
  BY <1>3, PrefixIs
<1>5. n \in 0 .. Len(k) /\ \A i \in 1 .. n : i \in 1 .. Len(t)
  BY <1>2
<1>6. PICK q : q = Prefix(k, n)
  OBVIOUS
<1>7. q \in Seq(Cell) /\ Len(q) = n /\ \A i \in 1 .. n : q[i] = k[i]
  BY <1>2, <1>5, <1>6, PrefixIs
<1>8. Hold(q, x, p)
  BY <1>2, <1>4, <1>5, <1>7 DEF Hold
<1>9. q = Cells(x, p)
  <2>1. p + Len(x) <= NCtx
    BY <1>4, ContextSize
  <2> QED  BY <1>4, <1>8, <2>1, HoldIsCells
<1> QED  BY <1>1, <1>3, <1>6, <1>9

\* A beginning of a beginning that both sequences have.
LEMMA PrefixOfConcat ==
    ASSUME NEW S, NEW t \in Seq(S), NEW v \in Seq(S), NEW j \in 0 .. Len(v), NEW n \in 0 .. j
    PROVE  Prefix(t \o Prefix(v, j), Len(t) + n) = t \o Prefix(v, n)
<1>1. PICK m \in Nat : m = Len(t)
  OBVIOUS
<1>2. PICK x : x = Prefix(v, j)
  OBVIOUS
<1>3. x \in Seq(S) /\ Len(x) = j /\ \A i \in 1 .. j : x[i] = v[i]
  BY <1>2, PrefixIs
<1>4. n \in 0 .. Len(v)
  OBVIOUS
<1>5. PICK y : y = Prefix(v, n)
  OBVIOUS
<1>6. y \in Seq(S) /\ Len(y) = n /\ \A i \in 1 .. n : y[i] = v[i]
  BY <1>4, <1>5, PrefixIs
<1>7. PICK c : c = t \o x
  OBVIOUS
<1>8. c \in Seq(S) /\ Len(c) = m + j /\ \A i \in 1 .. m + j : c[i] = IF i <= m THEN t[i] ELSE x[i - m]
  <2>1. t \o x \in Seq(S) /\ Len(t \o x) = Len(t) + Len(x)
        /\ \A i \in 1 .. Len(t) + Len(x) : (t \o x)[i] = IF i <= Len(t) THEN t[i] ELSE x[i - Len(t)]
    BY <1>3, ConcatProperties
  <2> QED  BY <1>1, <1>3, <1>7, <2>1
<1>9. PICK e : e = t \o y
  OBVIOUS
<1>10. e \in Seq(S) /\ Len(e) = m + n /\ \A i \in 1 .. m + n : e[i] = IF i <= m THEN t[i] ELSE y[i - m]
  <2>1. t \o y \in Seq(S) /\ Len(t \o y) = Len(t) + Len(y)
        /\ \A i \in 1 .. Len(t) + Len(y) : (t \o y)[i] = IF i <= Len(t) THEN t[i] ELSE y[i - Len(t)]
    BY <1>6, ConcatProperties
  <2> QED  BY <1>1, <1>6, <1>9, <2>1
<1>11. PICK l \in Nat : l = m + n
  OBVIOUS
<1>12. l \in 0 .. Len(c)
  BY <1>8, <1>11
<1>13. PICK f : f = Prefix(c, l)
  OBVIOUS
<1>14. f \in Seq(S) /\ Len(f) = l /\ \A i \in 1 .. l : f[i] = c[i]
  BY <1>8, <1>12, <1>13, PrefixIs
<1>15. ASSUME NEW i \in 1 .. l PROVE f[i] = e[i]
  <2>1. i \in 1 .. m + j /\ i \in 1 .. m + n
    BY <1>11
  <2>2. f[i] = IF i <= m THEN t[i] ELSE x[i - m]
    BY <1>8, <1>14, <2>1
  <2>3. e[i] = IF i <= m THEN t[i] ELSE y[i - m]
    BY <1>10, <2>1
  <2>4. CASE i <= m
    BY <2>2, <2>3, <2>4
  <2>5. CASE ~(i <= m)
    <3>1. i - m \in 1 .. n /\ i - m \in 1 .. j
      BY <1>11, <2>1, <2>5
    <3>2. x[i - m] = y[i - m]
      BY <1>3, <1>6, <3>1
    <3> QED  BY <2>2, <2>3, <2>5, <3>2
  <2> QED  BY <2>4, <2>5
<1>16. f = e
  BY <1>10, <1>11, <1>14, <1>15, SeqEqual
<1> QED  BY <1>1, <1>2, <1>5, <1>7, <1>9, <1>11, <1>13, <1>16

\* A round that decodes a draft: what is accepted of it stays.
LEMMA FaithfulSpeculate ==
    ASSUME Bounded, Faithful, NEW draft \in Drafts, NEW a \in 0 .. SpecMax, NEW tok \in Vocab,
           NEW stop \in BOOLEAN, Speculate(draft, a, tok, stop), kv' \in Seq(Cell)
    PROVE  Faithful'
<1>1. file' = file
  BY SpeculateRoundOK
<1>2. PICK u : SpeculateRound(draft, a, u)
  BY SpeculateRoundOK
<1>3. /\ slot.state = "generating" /\ slot.cache_prompt /\ slot.sampled \in Vocab
      /\ draft \in Seq(Vocab) /\ a \in 0 .. Len(draft) /\ slot.n_past + Len(draft) + 1 < NCtx
  BY <1>2 DEF SpeculateRound
<1>4. /\ slot.causal /\ slot.n_past \in Nat /\ seen \in Seq(Tokens) /\ Len(seen) = slot.n_past
      /\ slot.cache \in Seq(Cached) /\ dirty \in BOOLEAN
  BY <1>3 DEF Bounded, SlotOK, GeneratingOK, SeenFits, SlotType
<1>5. slot.cache = seen /\ (~dirty => kv = Cells(seen, 0))
  BY <1>3, <1>4 DEF Faithful, SeenOK, ContextRight
<1>5a. PICK b \in Seq(Tokens) : b = seen /\ Len(b) = slot.n_past
  BY <1>4
<1>6. PICK x \in Tokens : x = slot.sampled
  BY <1>3 DEF Tokens
<1>7. PICK o : o = <<x>>
  OBVIOUS
<1>8. o \in Seq(Tokens) /\ Len(o) = 1
  <2>1. <<x>> \in Seq(Tokens) /\ Len(<<x>>) = 1
    OBVIOUS
  <2> QED  BY <1>7, <2>1
<1>9. draft \in Seq(Tokens)
  BY <1>3, SeqMonotonic DEF Tokens
<1>10. PICK w : w = o \o draft
  OBVIOUS
<1>11. PICK v : v = o \o Prefix(draft, a)
  OBVIOUS
<1>12. w \in Seq(Tokens) /\ Len(w) = Len(draft) + 1
  <2>1. o \o draft \in Seq(Tokens) /\ Len(o \o draft) = Len(o) + Len(draft)
    BY <1>8, <1>9, ConcatProperties
  <2>2. Len(draft) \in Nat
    BY <1>9
  <2> QED  BY <1>8, <1>10, <2>1, <2>2
<1>13. v \in Seq(Tokens) /\ Len(v) = a + 1
  BY <1>2, <1>6, <1>7, <1>11 DEF SpeculateRound
<1>14. PICK l \in Nat : l = Len(draft)
  BY <1>9
<1>15. a \in Nat /\ a <= l
  BY <1>3, <1>14
<1>16. v = Prefix(w, a + 1)
  <2>1. Prefix(draft, l) = draft
    BY <1>9, <1>14, SubSeqFull DEF Prefix
  <2>2. l \in 0 .. Len(draft) /\ a \in 0 .. l
    BY <1>14, <1>15
  <2>3. Prefix(o \o Prefix(draft, l), Len(o) + a) = o \o Prefix(draft, a)
    BY <1>8, <1>9, <2>2, PrefixOfConcat
  <2>4. Len(o) + a = a + 1
    BY <1>8, <1>15
  <2> QED  BY <1>10, <1>11, <2>1, <2>3, <2>4
<1>17. PICK n \in Nat : n = slot.n_past
  BY <1>4
<1>18. PICK p : p = b \o v
  OBVIOUS
<1>19. p \in Seq(Tokens) /\ Len(p) = n + a + 1
  <2>1. b \o v \in Seq(Tokens) /\ Len(b \o v) = Len(b) + Len(v)
    BY <1>13, ConcatProperties
  <2>2. n + (a + 1) = n + a + 1
    BY <1>15
  <2> QED  BY <1>5a, <1>13, <1>17, <1>18, <2>1, <2>2
<1>20. /\ u.n_past = n + a + 1 /\ u.cache = b \o v /\ u.cache_prompt = slot.cache_prompt
       /\ slot' = release(u) \/ (Continues(u, slot') /\ slot'.state = "generating")
       /\ Seen(b \o v)
       /\ \E j \in 0 .. l + 1 :
            /\ kv' = seq_rm(kv \o Prefix(Cells(w, n), j), n + a + 1, Infinity)
            /\ dirty' = (dirty \/ j <= a)
  <2>1. u.n_past = slot.n_past + a + 1 /\ u.cache = slot.cache \o v /\ Seen(seen \o v)
    BY <1>2, <1>6, <1>7, <1>11 DEF SpeculateRound
  <2>2. slot' = release(u) \/ (Continues(u, slot') /\ slot'.state = "generating")
    BY <1>2 DEF SpeculateRound
  <2>3. u.cache_prompt = TRUE /\ slot.cache_prompt = TRUE
    BY <1>2, <1>3 DEF SpeculateRound, Bounded, SlotOK, SlotType
  <2>4. \E j \in 0 .. Len(draft) + 1 :
            /\ kv' = seq_rm(kv \o Prefix(Cells(w, slot.n_past), j), u.n_past, Infinity)
            /\ dirty' = (dirty \/ j <= a)
    BY <1>2, <1>6, <1>7, <1>10 DEF SpeculateRound
  <2> QED  BY <1>5, <1>5a, <1>14, <1>17, <2>1, <2>2, <2>3, <2>4
<1>21. ASSUME ~dirty' PROVE kv' = Cells(p, 0)
  <2>1. PICK j \in 0 .. l + 1 :
            /\ kv' = seq_rm(kv \o Prefix(Cells(w, n), j), n + a + 1, Infinity)
            /\ dirty' = (dirty \/ j <= a)
    BY <1>20
  <2>2. ~dirty /\ ~(j <= a)
    BY <1>4, <1>21, <2>1
  <2>3. j \in 0 .. Len(w) /\ a + 1 \in 0 .. j
    BY <1>12, <1>14, <1>15, <2>2
  <2>4. PICK y : y = Prefix(w, j)
    OBVIOUS
  <2>5. y \in Seq(Tokens) /\ Len(y) = j
    BY <1>12, <2>3, <2>4, PrefixIs
  <2>6. n + Len(w) <= NCtx /\ n + j <= NCtx
    BY <1>3, <1>12, <1>14, <1>17, <2>3, ContextSize
  <2>7. Prefix(Cells(w, n), j) = Cells(y, n)
    BY <1>12, <2>3, <2>4, <2>6, CellsPrefix
  <2>8. PICK q : q = b \o y
    OBVIOUS
  <2>9. kv \o Cells(y, n) = Cells(q, 0)
    <3>1. Len(b) + Len(y) <= NCtx
      BY <1>5a, <1>17, <2>5, <2>6
    <3>2. Cells(b, 0) \o Cells(y, Len(b)) = Cells(b \o y, 0)
      BY <2>5, <3>1, CellsConcat
    <3> QED  BY <1>5, <1>5a, <1>17, <2>2, <2>8, <3>2
  <2>10. q \in Seq(Tokens) /\ Len(q) = n + j
    <3>1. b \o y \in Seq(Tokens) /\ Len(b \o y) = Len(b) + Len(y)
      BY <2>5, ConcatProperties
    <3> QED  BY <1>5a, <1>17, <2>5, <2>8, <3>1
  <2>11. PICK i \in Nat : i = n + a + 1
    BY <1>15
  <2>12. i \in 0 .. Len(q) /\ Len(q) <= NCtx
    BY <1>15, <2>2, <2>6, <2>10, <2>11
  <2>13. seq_rm(Cells(q, 0), i, Infinity) = Cells(Prefix(q, i), 0)
    BY <2>10, <2>12, RemoveTail
  <2>14. Prefix(q, i) = p
    <3>1. PICK g \in Nat : g = a + 1
      BY <1>15
    <3>2. g \in 0 .. j
      BY <2>3, <3>1
    <3>3. Prefix(b \o Prefix(w, j), Len(b) + g) = b \o Prefix(w, g)
      BY <1>12, <2>3, <3>2, PrefixOfConcat
    <3>4. Len(b) + g = i
      BY <1>5a, <1>15, <1>17, <2>11, <3>1
    <3> QED  BY <1>16, <1>18, <2>4, <2>8, <3>1, <3>3, <3>4
  <2> QED  BY <2>1, <2>7, <2>9, <2>11, <2>13, <2>14
<1>22. slot'.state # "prompt" /\ (slot' = release(u) \/ Continues(u, slot'))
  <2>1. release(u).state = "idle"
    BY DEF release, IdleSlot
  <2> QED  BY <1>20, <2>1
<1>23. u.n_past <= NCtx /\ Len(p) = u.n_past
  BY <1>3, <1>14, <1>15, <1>17, <1>19, <1>20, ContextSize
<1>24. u.cache = p /\ u.cache \in Seq(Cached) /\ u.cache_prompt /\ u.cache_prompt \in BOOLEAN
  <2>1. p \in Seq(Cached)
    BY <1>19, SeqMonotonic DEF Cached
  <2>2. slot.cache_prompt \in BOOLEAN
    BY DEF Bounded, SlotOK, SlotType
  <2> QED  BY <1>3, <1>18, <1>20, <2>1, <2>2
<1>25. Stored(u, p)
  BY <1>1, <1>18, <1>19, <1>20, <1>21, <1>22, <1>23, <1>24 DEF Stored
<1> QED  BY <1>25, StoredFaithful

-----------------------------------------------------------------------------
(* Every step keeps cache and cells alike.                                 *)

\* A step after which no prompt is worked on and nothing is generated, except
\* for an embedding.
LEMMA FaithfulAside ==
    ASSUME slot'.state \in {"idle", "started"} \/ ~slot'.causal,
           ~dirty' => Agrees(slot'.cache, kv'),
           file' # Unset /\ ~file'.dirty => Agrees(file'.cache, file'.kv)
    PROVE  Faithful'
<1>1. SeenOK' /\ ContextRight'
  BY DEF SeenOK, ContextRight
<1>2. Faithful' = (SeenOK' /\ (~dirty' => Agrees(slot'.cache, kv')) /\ ContextRight'
                   /\ (file' # Unset /\ ~file'.dirty => Agrees(file'.cache, file'.kv)))
  BY DEF Faithful, Agrees
<1> QED  BY <1>1, <1>2

\* The server starts without cells.
LEMMA FaithfulInit == Init => Faithful
<1> SUFFICES ASSUME Init PROVE Faithful
  OBVIOUS
<1>1. slot.cache = <<>> /\ slot.state = "idle" /\ kv = <<>> /\ file = Unset
  BY DEF Init, IdleSlot
<1>2. Agrees(slot.cache, kv)
  <2>1. <<>> \in Seq(Cell)
    BY EmptySeq
  <2> QED  BY <1>1, <2>1, AgreesEmpty
<1> QED  BY <1>1, <1>2 DEF Faithful, SeenOK, ContextRight

\* A release keeps the cache for the next request.
LEMMA FaithfulReleased ==
    ASSUME Faithful, slot' = release(slot), UNCHANGED <<kv, file, dirty>>
    PROVE  Faithful'
<1>1. slot'.state = "idle" /\ slot'.cache = slot.cache
  BY DEF release, IdleSlot
<1> QED  BY <1>1, FaithfulAside DEF Faithful

\* Requests.
LEMMA FaithfulLaunch ==
    ASSUME Bounded, Faithful, NEW prompt \in Prompts, NEW keep \in Keeps, NEW discard \in Discards,
           NEW cache_prompt \in BOOLEAN, NEW causal \in BOOLEAN, NEW new_lora \in BOOLEAN,
           NEW ok \in BOOLEAN, Launch(prompt, cache_prompt, causal, keep, discard, new_lora, ok)
    PROVE  Faithful'
<1>1. UNCHANGED <<kv, file, dirty>>
  BY DEF Launch
<1>2. PICK c : c = IF new_lora THEN <<>> ELSE slot.cache
  OBVIOUS
<1>3. slot'.state \in {"idle", "started"} /\ slot'.cache = c
  BY <1>2 DEF Launch, IdleSlot
<1>4. kv \in Seq(Cell)
  BY DEF Bounded
<1>5. ~dirty => Agrees(c, kv)
  <2>1. CASE new_lora
    BY <1>2, <1>4, <2>1, AgreesEmpty
  <2>2. CASE ~new_lora
    BY <1>2, <2>2 DEF Faithful
  <2> QED  BY <2>1, <2>2
<1> QED  BY <1>1, <1>3, <1>5, FaithfulAside DEF Faithful

\* Save, restore and erase.
LEMMA FaithfulSlotTask ==
    ASSUME Bounded, Faithful, SlotTask
    PROVE  Faithful'
<1>1. CASE Cancel
  BY <1>1, FaithfulReleased DEF Cancel
<1>2. ASSUME Idle, NEW c, slot' = [slot EXCEPT !.cache = c]
      PROVE  slot'.state = "idle" /\ slot'.cache = c
  BY <1>2 DEF Bounded, SlotOK, SlotType, Idle
<1>3. \A k \in Seq(Cell) : Agrees(<<>>, k)
  BY AgreesEmpty
<1>4. kv \in Seq(Cell) /\ <<>> \in Seq(Cell)
  BY EmptySeq DEF Bounded
<1>5. CASE SlotSave
  <2>1. UNCHANGED <<slot, kv, dirty>> /\ slot.state = "idle"
    BY <1>5 DEF SlotSave, Idle
  <2>2. file'.cache = slot.cache /\ file'.kv = kv /\ file'.dirty = dirty
    BY <1>5 DEF SlotSave
  <2> QED  BY <2>1, <2>2, FaithfulAside DEF Faithful
<1>6. CASE SlotRestoreFail
  <2>1. slot'.state = "idle" /\ slot'.cache = <<>>
    BY <1>2, <1>6 DEF SlotRestoreFail
  <2>2. kv' \in Seq(Cell) /\ file' = file
    BY <1>4, <1>6 DEF SlotRestoreFail
  <2>3. Agrees(slot'.cache, kv')
    BY <1>3, <2>1, <2>2
  <2> QED  BY <2>1, <2>2, <2>3, FaithfulAside DEF Faithful
<1>7. CASE SlotRestore
  <2>1. slot'.state = "idle" /\ slot'.cache = file.cache
    BY <1>2, <1>7 DEF SlotRestore
  <2>2. kv' = file.kv /\ dirty' = file.dirty /\ file' = file /\ file # Unset
    BY <1>7 DEF SlotRestore
  <2> QED  BY <2>1, <2>2, FaithfulAside DEF Faithful
<1>8. CASE SlotErase
  <2>1. slot'.state = "idle" /\ slot'.cache = <<>>
    BY <1>2, <1>8 DEF SlotErase
  <2>2. kv' \in Seq(Cell) /\ file' = file
    BY <1>4, <1>8 DEF SlotErase
  <2>3. Agrees(slot'.cache, kv')
    BY <1>3, <2>1, <2>2
  <2> QED  BY <2>1, <2>2, <2>3, FaithfulAside DEF Faithful
<1> QED  BY <1>1, <1>5, <1>6, <1>7, <1>8 DEF SlotTask

\* An embedding that waits.
LEMMA FaithfulPostpone ==
    ASSUME Bounded, Faithful, NEW room \in 0 .. NBatch, Postpone(room)
    PROVE  Faithful'
<1>1. HasPrompt /\ ~slot.causal /\ slot' = Begun.slot /\ UNCHANGED <<kv, file, dirty>>
  BY DEF Postpone
<1>2. /\ Begun.slot.causal = slot.causal
      /\ slot.state # "started" => Begun.slot = slot
      /\ slot.state = "started" => StartedOK(slot, kv, Begun.slot, Begun.kv)
  BY <1>1, BegunOK
<1>3. ~slot'.causal /\ slot'.cache = slot.cache
  BY <1>1, <1>2 DEF StartedOK
<1> QED  BY <1>1, <1>3, FaithfulAside DEF Faithful

\* Every step.
LEMMA FaithfulNext == Plain /\ Bounded /\ Bounded' /\ Faithful /\ [Next]_vars => Faithful'
<1> SUFFICES ASSUME Plain, Bounded, Bounded', Faithful, [Next]_vars PROVE Faithful'
  OBVIOUS
<1>1. CASE LaunchAny
  BY <1>1, FaithfulLaunch DEF LaunchAny
<1>2. CASE SlotTask
  BY <1>2, FaithfulSlotTask
<1>3. CASE RefusePrompt \/ ContextLimit
  BY <1>3, FaithfulReleased DEF RefusePrompt, ContextLimit
<1>4. CASE LeftOut
  BY <1>4, FaithfulLeftOut
<1>5. CASE NoDraft \/ ShiftFails
  BY <1>5 DEF NoDraft, ShiftFails, Faithful, SeenOK, ContextRight, Agrees
<1>6. ASSUME NEW room \in 0 .. NBatch, Postpone(room) PROVE Faithful'
  BY <1>6, FaithfulPostpone
<1>7. ASSUME NEW tok \in Vocab, NEW stop \in BOOLEAN,
             \/ \E room \in 0 .. NBatch : Prompt(room, tok, stop)
             \/ Generate(tok, stop)
             \/ \E draft \in Drafts, a \in 0 .. SpecMax : Speculate(draft, a, tok, stop)
      PROVE  Faithful'
  <2>1. kv' \in Seq(Cell)
    BY DEF Bounded
  <2> QED  BY <1>7, <2>1, FaithfulPrompt, FaithfulGenerate, FaithfulSpeculate
<1>8. CASE UNCHANGED vars
  BY <1>8 DEF vars, Faithful, SeenOK, ContextRight, Agrees
<1> QED  BY <1>1, <1>2, <1>3, <1>4, <1>5, <1>6, <1>7, <1>8 DEF Next, UpdateSlots

\* Without chunk reuse, and with token number 0 in no prompt and never sampled,
\* the slot's part of the KV cache holds exactly the tokens that the next one is
\* to be predicted from, in their places, through prefix reuse, cancelled
\* requests, save, restore and erase, context shifts and drafts; the exception is
\* what a failed decode leaves behind, or a shift by a client's n_discard that is
\* more than the tokens behind those to keep, until a request that shares nothing
\* with it.  With chunk reuse the code breaks this (run chunk_reuse), and with token 0
\* in a prompt too (see the README).
THEOREM ContextIsRight ==
    ASSUME NCacheReuse = 0, Zero \notin Tokens
    PROVE  Spec => []ContextRight
<1>1. Plain
  BY DEF Plain
<1>2. Bounded /\ Bounded' /\ Faithful /\ [Next]_vars => Faithful'
  BY <1>1, FaithfulNext
<1>3. Faithful => ContextRight
  BY DEF Faithful
<1> QED  BY <1>2, <1>3, FaithfulInit, AlwaysBounded, PTL DEF Spec

=============================================================================
