---------------------------- MODULE KvCacheProofs ----------------------------
(***************************************************************************)
(* Theorems about KvCache, for caches of every size, any number of         *)
(* sequences and every limit on pieces and moves.                          *)
(***************************************************************************)
EXTENDS KvCache, FiniteSetTheorems, SequenceTheorems, WellFoundedInduction, TLAPS

-----------------------------------------------------------------------------
(* The inductive invariant.                                                *)

Cell == [pos : Int, delta : Int, seq_id : SUBSET SeqId, tok : Nat \cup {None}, rope : Int,
         stray : Int]

\* A cell has a position if and only if it belongs to a sequence, and then its
\* keys are rotated to that position but for the pending delta and for the one
\* its token found there when it was loaded.
CellOK(x) ==
    /\ x \in Cell
    /\ x.pos >= 0 <=> x.seq_id # {}
    /\ x.seq_id # {} => x.rope + x.delta = x.pos + x.stray

IsCache(c) ==
    /\ DOMAIN c = {"size", "cells", "head", "used", "has_shift", "do_defrag"}
    /\ c.size \in Nat \ {0}
    /\ c.cells \in [Cells(c) -> Cell]
    /\ c.head \in 0 .. c.size
    /\ c.has_shift \in BOOLEAN /\ c.do_defrag \in BOOLEAN

Occupied(c) == {i \in Cells(c) : c.cells[i].seq_id # {}}

\* What every function that takes a cache keeps: a delta is pending only where
\* has_shift says so, also in the cells that are empty and will be used again.
Sound(c) ==
    /\ IsCache(c)
    /\ \A i \in Cells(c) : CellOK(c.cells[i])
    /\ ~c.has_shift => \A i \in Cells(c) : c.cells[i].delta = 0
    /\ c.used = Cardinality(Occupied(c))

\* The occupied cells are finitely many.
LEMMA OccupiedFinite ==
    ASSUME NEW c, IsCache(c), NEW S \in SUBSET Cells(c)
    PROVE  IsFiniteSet(S) /\ Cardinality(S) \in Nat /\ Cardinality(S) <= c.size
<1>0. PICK n \in Nat : n = c.size /\ n # 0
  BY DEF IsCache
<1>1. PICK m \in Int : m = n - 1 /\ ~(0 > m) /\ m - 0 + 1 = n
  BY <1>0
<1>2. IsFiniteSet(0 .. m) /\ Cardinality(0 .. m) = n
  BY <1>1, 0 \in Int, FS_Interval
<1>3. IsFiniteSet(Cells(c)) /\ Cardinality(Cells(c)) = c.size
  BY <1>0, <1>1, <1>2 DEF Cells
<1> QED  BY <1>0, <1>3, FS_Subset, FS_CardinalityType

\* A cache whose cells were replaced, with the count to match.
LEMMA Rebuilt ==
    ASSUME NEW c, Sound(c), NEW d, DOMAIN d = DOMAIN c, d.size = c.size,
           DOMAIN d.cells = Cells(c), d.cells = [i \in Cells(c) |-> d.cells[i]],
           \A i \in Cells(c) : CellOK(d.cells[i]),
           d.head \in 0 .. c.size, d.has_shift \in BOOLEAN, d.do_defrag \in BOOLEAN,
           ~d.has_shift => \A i \in Cells(c) : d.cells[i].delta = 0,
           d.used = Cardinality({i \in Cells(c) : d.cells[i].seq_id # {}})
    PROVE  Sound(d)
<1>1. Cells(d) = Cells(c)
  BY DEF Cells
<1>2. d.cells \in [Cells(c) -> Cell]
  BY DEF CellOK
<1>3. IsCache(d)
  BY <1>1, <1>2 DEF IsCache, Sound
<1> QED  BY <1>1, <1>3 DEF Sound, Occupied

\* What emptying a cell leaves.
LEMMA EmptiedCell ==
    ASSUME NEW x \in Cell
    PROVE  /\ CellOK(Emptied(x)) /\ Emptied(x).seq_id = {} /\ Emptied(x).delta = x.delta
           /\ Emptied(x).tok = None
           /\ CellOK(NewCell) /\ NewCell.seq_id = {} /\ NewCell.delta = 0
BY DEF Emptied, NewCell, Cell, CellOK

\* A set of numbers that is not empty has a least one.
LEMMA HasLeast ==
    ASSUME NEW S \in SUBSET Nat, S # {}
    PROVE  \E s \in S : \A x \in S : s <= x
<1> DEFINE R == StrictSubsetOrdering(Nat)
           T == {0 .. k : k \in S}
<1>1. IsWellFoundedOn(R, FiniteSubsetsOf(Nat))
  BY FS_StrictSubsetOrderingWellFounded
<1>2. T \subseteq FiniteSubsetsOf(Nat) /\ T # {}
  <2>1. \A k \in S : 0 .. k \in SUBSET Nat /\ IsFiniteSet(0 .. k)
    BY FS_Interval
  <2> QED  BY <2>1 DEF FiniteSubsetsOf
<1> HIDE DEF R
<1>3. \E x \in T : \A y \in T : ~(<<y, x>> \in R)
  BY <1>1, <1>2, WFMin
<1>4. PICK m \in S : \A k \in S : ~(<<0 .. k, 0 .. m>> \in R)
  BY <1>3
<1>5. ASSUME NEW k \in S, k < m PROVE <<0 .. k, 0 .. m>> \in R
  BY <1>5, 0 .. k \subseteq 0 .. m, m \in 0 .. m, m \notin 0 .. k DEF R, StrictSubsetOrdering
<1>6. \A k \in S : ~(k < m)
  BY <1>4, <1>5
<1>7. \A k \in S : m <= k
  BY <1>6
<1> QED  BY <1>7

\* Min is that number.
LEMMA LeastOf ==
    ASSUME NEW S \in SUBSET Nat, S # {}
    PROVE  Min(S) \in S /\ \A x \in S : Min(S) <= x
<1>1. \E s \in S : \A x \in S : s <= x
  BY HasLeast
<1> QED  BY <1>1 DEF Min

\* head stays on the ring when it is lowered.
LEMMA LoweredHead ==
    ASSUME NEW c, IsCache(c), NEW freed \in SUBSET Cells(c)
    PROVE  Lowered(c.head, freed) \in 0 .. c.size
<1>1. CASE freed = {}
  BY <1>1 DEF Lowered, IsCache
<1>2. CASE freed # {}
  <2>1. freed \in SUBSET Nat /\ freed \subseteq 0 .. c.size
    BY DEF IsCache, Cells
  <2>2. Min(freed) \in 0 .. c.size
    BY <1>2, <2>1, LeastOf
  <2> QED  BY <1>2, <2>2 DEF Lowered, IsCache
<1> QED  BY <1>1, <1>2

-----------------------------------------------------------------------------
(* The functions on caches.                                                *)

\* Cells that are freed leave the count.
LEMMA Uncounted ==
    ASSUME NEW c, Sound(c), NEW freed \in SUBSET Occupied(c)
    PROVE  c.used - Cardinality(freed) = Cardinality(Occupied(c) \ freed)
<1>1. IsFiniteSet(Occupied(c)) /\ Cardinality(Occupied(c)) \in Nat
  BY OccupiedFinite DEF Sound, Occupied
<1>2. Occupied(c) \cap freed = freed
  OBVIOUS
<1>3. Cardinality(Occupied(c) \ freed) = Cardinality(Occupied(c)) - Cardinality(Occupied(c) \cap freed)
  BY <1>1, FS_Difference
<1> QED  BY <1>2, <1>3 DEF Sound

\* Erasing positions: the cells concerned, and what becomes of each cell.
Hit(c, S, P)   == {i \in Cells(c) : c.cells[i].seq_id \cap S # {} /\ c.cells[i].pos \in P}
Freed(c, S, P) == {i \in Hit(c, S, P) : c.cells[i].seq_id \subseteq S}

\* ... field by field.
LEMMA ErasedCells ==
    ASSUME NEW c, Sound(c), NEW S \in SUBSET SeqId, NEW P
    PROVE  /\ DOMAIN Erased(c, S, P) = DOMAIN c /\ Erased(c, S, P).size = c.size
           /\ Erased(c, S, P).has_shift = c.has_shift /\ Erased(c, S, P).do_defrag = c.do_defrag
           /\ Erased(c, S, P).used = c.used - Cardinality(Freed(c, S, P))
           /\ Erased(c, S, P).head = Lowered(c.head, Freed(c, S, P))
           /\ Erased(c, S, P).cells = [i \in Cells(c) |->
                     IF i \notin Hit(c, S, P) THEN c.cells[i]
                     ELSE IF i \in Freed(c, S, P) THEN Emptied(c.cells[i])
                     ELSE [c.cells[i] EXCEPT !.seq_id = @ \ S]]
<1> DEFINE cells == [i \in Cells(c) |->
                     IF i \in Hit(c, S, P)
                     THEN (IF c.cells[i].seq_id \subseteq S THEN Emptied(c.cells[i])
                           ELSE [c.cells[i] EXCEPT !.seq_id = @ \ S])
                     ELSE c.cells[i]]
           d == Erased(c, S, P)
<1>1. d = [c EXCEPT !.cells = cells, !.used = @ - Cardinality(Freed(c, S, P)),
                    !.head = Lowered(@, Freed(c, S, P))]
  BY DEF Erased, Mapped, Hit, Freed
<1>2. cells = [i \in Cells(c) |-> IF i \notin Hit(c, S, P) THEN c.cells[i]
                                  ELSE IF i \in Freed(c, S, P) THEN Emptied(c.cells[i])
                                  ELSE [c.cells[i] EXCEPT !.seq_id = @ \ S]]
  BY DEF Freed
<1> HIDE DEF cells, d
<1>3. /\ DOMAIN d = DOMAIN c /\ d.size = c.size
      /\ d.has_shift = c.has_shift /\ d.do_defrag = c.do_defrag
      /\ d.used = c.used - Cardinality(Freed(c, S, P)) /\ d.head = Lowered(c.head, Freed(c, S, P))
      /\ d.cells = cells
  BY <1>1 DEF Sound, IsCache
<1> QED  BY <1>2, <1>3 DEF d

\* seq_rm and the rollback keep the cache sound.
LEMMA ErasedSound ==
    ASSUME NEW c, Sound(c), NEW S \in SUBSET SeqId, NEW P
    PROVE  Sound(Erased(c, S, P)) /\ Erased(c, S, P).size = c.size
<1> DEFINE d     == Erased(c, S, P)
           hit   == Hit(c, S, P)
           freed == Freed(c, S, P)
<1>1. /\ DOMAIN d = DOMAIN c /\ d.size = c.size
      /\ d.has_shift = c.has_shift /\ d.do_defrag = c.do_defrag
      /\ d.used = c.used - Cardinality(freed) /\ d.head = Lowered(c.head, freed)
      /\ d.cells = [i \in Cells(c) |->
                     IF i \notin hit THEN c.cells[i]
                     ELSE IF i \in freed THEN Emptied(c.cells[i])
                     ELSE [c.cells[i] EXCEPT !.seq_id = @ \ S]]
  BY ErasedCells
<1> HIDE DEF d, hit, freed
<1>2. ASSUME NEW i \in Cells(c)
      PROVE  /\ CellOK(d.cells[i]) /\ d.cells[i].delta = c.cells[i].delta
             /\ d.cells[i].seq_id # {} <=> i \in Occupied(c) \ freed
  <2>1. CellOK(c.cells[i]) /\ c.cells[i] \in Cell
    BY DEF Sound, CellOK
  <2>2. CASE i \notin hit
    BY <1>1, <2>1, <2>2 DEF Occupied, freed, hit, Freed
  <2>3. CASE i \in freed
    BY <1>1, <2>1, <2>3, EmptiedCell DEF Occupied, freed, hit, Freed, Hit
  <2>4. CASE i \in hit \ freed
    <3>1. d.cells[i] = [c.cells[i] EXCEPT !.seq_id = @ \ S]
      BY <1>1, <2>4
    <3>2. c.cells[i].seq_id \ S # {} /\ c.cells[i].seq_id # {}
      BY <2>4 DEF freed, hit, Freed, Hit
    <3> QED  BY <2>1, <2>4, <3>1, <3>2 DEF CellOK, Cell, Occupied
  <2> QED  BY <2>2, <2>3, <2>4
<1>3. {i \in Cells(c) : d.cells[i].seq_id # {}} = Occupied(c) \ freed
  BY <1>2 DEF Occupied
<1>4. freed \in SUBSET Occupied(c) /\ freed \in SUBSET Cells(c)
  BY DEF Occupied, freed, Freed, Hit
<1>5. d.used = Cardinality({i \in Cells(c) : d.cells[i].seq_id # {}})
  BY <1>1, <1>3, <1>4, Uncounted
<1>6. d.head \in 0 .. c.size
  BY <1>1, <1>4, LoweredHead DEF Sound
<1>7. Sound(d)
  <2>1. DOMAIN d.cells = Cells(c) /\ d.cells = [i \in Cells(c) |-> d.cells[i]]
    BY <1>1
  <2>2. ~d.has_shift => \A i \in Cells(c) : d.cells[i].delta = 0
    BY <1>1, <1>2 DEF Sound
  <2>3. d.has_shift \in BOOLEAN /\ d.do_defrag \in BOOLEAN
    BY <1>1 DEF Sound, IsCache
  <2> QED  BY <1>1, <1>2, <1>5, <1>6, <2>1, <2>2, <2>3, Rebuilt
<1> QED  BY <1>1, <1>7 DEF d

\* The cells of a sequence within a range are occupied cells.
LEMMA MatchingCells ==
    ASSUME NEW c, NEW s, NEW p0, NEW p1
    PROVE  Matching(c, s, p0, p1) \in SUBSET Occupied(c) /\ Occupied(c) \in SUBSET Cells(c)
BY DEF Matching, Occupied

\* A step that replaces the cells and leaves the count alone, because no cell is
\* freed or taken.
LEMMA SameCount ==
    ASSUME NEW c, Sound(c), NEW d, DOMAIN d = DOMAIN c, d.size = c.size,
           DOMAIN d.cells = Cells(c), d.cells = [i \in Cells(c) |-> d.cells[i]],
           \A i \in Cells(c) : CellOK(d.cells[i]) /\ (d.cells[i].seq_id = {} <=> c.cells[i].seq_id = {}),
           d.head \in 0 .. c.size, d.has_shift \in BOOLEAN, d.do_defrag \in BOOLEAN,
           ~d.has_shift => \A i \in Cells(c) : d.cells[i].delta = 0,
           d.used = c.used
    PROVE  Sound(d)
<1>1. {i \in Cells(c) : d.cells[i].seq_id # {}} = Occupied(c)
  BY DEF Occupied
<1>2. d.used = Cardinality({i \in Cells(c) : d.cells[i].seq_id # {}})
  BY <1>1 DEF Sound
<1> QED  BY <1>2, Rebuilt

\* seq_cp, field by field.
LEMMA CopiedCells ==
    ASSUME NEW c, Sound(c), NEW src, NEW dst, NEW p0, NEW p1, NEW d, d = seq_cp(c, src, dst, p0, p1)
    PROVE  /\ DOMAIN d = DOMAIN c /\ d.size = c.size /\ d.has_shift = c.has_shift
           /\ d.do_defrag = c.do_defrag /\ d.used = c.used /\ d.head = 0
           /\ d.cells = [i \in Cells(c) |-> IF i \in Matching(c, src, p0, p1)
                                            THEN [c.cells[i] EXCEPT !.seq_id = @ \cup {dst}]
                                            ELSE c.cells[i]]
<1> DEFINE cells == [i \in Cells(c) |-> IF i \in Matching(c, src, p0, p1)
                                        THEN [c.cells[i] EXCEPT !.seq_id = @ \cup {dst}]
                                        ELSE c.cells[i]]
<1>1. d = [c EXCEPT !.cells = cells, !.head = 0]
  BY DEF seq_cp, Mapped
<1> HIDE DEF cells
<1>2. /\ DOMAIN d = DOMAIN c /\ d.size = c.size /\ d.has_shift = c.has_shift
      /\ d.do_defrag = c.do_defrag /\ d.used = c.used /\ d.head = 0 /\ d.cells = cells
  BY <1>1 DEF Sound, IsCache
<1> QED  BY <1>2 DEF cells

\* seq_cp keeps the cache sound.
LEMMA CopiedSound ==
    ASSUME NEW c, Sound(c), NEW src, NEW dst \in SeqId, NEW p0, NEW p1
    PROVE  Sound(seq_cp(c, src, dst, p0, p1)) /\ seq_cp(c, src, dst, p0, p1).size = c.size
<1> SUFFICES ASSUME NEW d, d = seq_cp(c, src, dst, p0, p1)
             PROVE  Sound(d) /\ d.size = c.size
  OBVIOUS
<1>1. /\ DOMAIN d = DOMAIN c /\ d.size = c.size /\ d.has_shift = c.has_shift
      /\ d.do_defrag = c.do_defrag /\ d.used = c.used /\ d.head = 0
      /\ d.cells = [i \in Cells(c) |-> IF i \in Matching(c, src, p0, p1)
                                       THEN [c.cells[i] EXCEPT !.seq_id = @ \cup {dst}]
                                       ELSE c.cells[i]]
  BY CopiedCells
<1>2. ASSUME NEW i \in Cells(c)
      PROVE  /\ CellOK(d.cells[i]) /\ (d.cells[i].seq_id = {} <=> c.cells[i].seq_id = {})
             /\ d.cells[i].delta = c.cells[i].delta
  <2>1. CellOK(c.cells[i])
    BY DEF Sound
  <2>2. CASE i \in Matching(c, src, p0, p1)
    <3>1. c.cells[i].seq_id # {} /\ d.cells[i] = [c.cells[i] EXCEPT !.seq_id = @ \cup {dst}]
      BY <1>1, <2>2, MatchingCells DEF Occupied
    <3> QED  BY <2>1, <3>1 DEF CellOK, Cell
  <2>3. CASE i \notin Matching(c, src, p0, p1)
    BY <1>1, <2>1, <2>3
  <2> QED  BY <2>2, <2>3
<1>3. DOMAIN d.cells = Cells(c) /\ d.cells = [i \in Cells(c) |-> d.cells[i]]
  BY <1>1
<1>4. /\ d.head \in 0 .. c.size /\ d.has_shift \in BOOLEAN /\ d.do_defrag \in BOOLEAN
      /\ ~d.has_shift => \A i \in Cells(c) : d.cells[i].delta = 0
  BY <1>1, <1>2 DEF Sound, IsCache
<1> QED  BY <1>1, <1>2, <1>3, <1>4, SameCount

\* seq_keep, field by field.
Dropped(c, s) == {i \in Occupied(c) : s \notin c.cells[i].seq_id}

\* The cells that no other sequence keeps are freed.
LEMMA KeptCells ==
    ASSUME NEW c, Sound(c), NEW s, NEW d, d = seq_keep(c, s)
    PROVE  /\ DOMAIN d = DOMAIN c /\ d.size = c.size /\ d.has_shift = c.has_shift
           /\ d.do_defrag = c.do_defrag
           /\ d.used = c.used - Cardinality(Dropped(c, s))
           /\ d.head \in 0 .. c.size
           /\ d.cells = [i \in Cells(c) |-> IF s \notin c.cells[i].seq_id THEN Emptied(c.cells[i])
                                            ELSE [c.cells[i] EXCEPT !.seq_id = {s}]]
<1> DEFINE others == {i \in Cells(c) : s \notin c.cells[i].seq_id}
           freed == {i \in others : c.cells[i].pos >= 0}
           cells == [i \in Cells(c) |-> IF i \in others THEN Emptied(c.cells[i])
                                        ELSE [c.cells[i] EXCEPT !.seq_id = {s}]]
<1>1. d = [c EXCEPT !.cells = cells, !.used = @ - Cardinality(freed), !.head = Lowered(@, others)]
  BY DEF seq_keep
<1>2. freed = Dropped(c, s)
  BY DEF Dropped, Occupied, Sound, CellOK
<1>3. cells = [i \in Cells(c) |-> IF s \notin c.cells[i].seq_id THEN Emptied(c.cells[i])
                                  ELSE [c.cells[i] EXCEPT !.seq_id = {s}]]
  OBVIOUS
<1>4. Lowered(c.head, others) \in 0 .. c.size
  BY LoweredHead DEF Sound
<1> HIDE DEF cells, others, freed
<1>5. /\ DOMAIN d = DOMAIN c /\ d.size = c.size /\ d.has_shift = c.has_shift
      /\ d.do_defrag = c.do_defrag /\ d.used = c.used - Cardinality(freed)
      /\ d.head = Lowered(c.head, others) /\ d.cells = cells
  BY <1>1 DEF Sound, IsCache
<1> QED  BY <1>2, <1>3, <1>4, <1>5

\* seq_keep keeps the cache sound.
LEMMA KeptSound ==
    ASSUME NEW c, Sound(c), NEW s \in SeqId
    PROVE  Sound(seq_keep(c, s)) /\ seq_keep(c, s).size = c.size
<1> SUFFICES ASSUME NEW d, d = seq_keep(c, s) PROVE Sound(d) /\ d.size = c.size
  OBVIOUS
<1> DEFINE freed == Dropped(c, s)
<1>1. /\ DOMAIN d = DOMAIN c /\ d.size = c.size /\ d.has_shift = c.has_shift
      /\ d.do_defrag = c.do_defrag
      /\ d.used = c.used - Cardinality(freed) /\ d.head \in 0 .. c.size
      /\ d.cells = [i \in Cells(c) |-> IF s \notin c.cells[i].seq_id THEN Emptied(c.cells[i])
                                       ELSE [c.cells[i] EXCEPT !.seq_id = {s}]]
  BY KeptCells
<1> HIDE DEF freed
<1>2. ASSUME NEW i \in Cells(c)
      PROVE  /\ CellOK(d.cells[i]) /\ d.cells[i].delta = c.cells[i].delta
             /\ d.cells[i].seq_id # {} <=> i \in Occupied(c) \ freed
  <2>1. CellOK(c.cells[i]) /\ c.cells[i] \in Cell
    BY DEF Sound, CellOK
  <2>2. CASE s \notin c.cells[i].seq_id
    BY <1>1, <2>1, <2>2, EmptiedCell DEF Occupied, freed, Dropped
  <2>3. CASE s \in c.cells[i].seq_id
    <3>1. d.cells[i] = [c.cells[i] EXCEPT !.seq_id = {s}]
      BY <1>1, <2>3
    <3>2. i \in Occupied(c) /\ i \notin freed /\ c.cells[i].seq_id # {}
      BY <2>3 DEF Occupied, freed, Dropped
    <3> QED  BY <2>1, <3>1, <3>2 DEF CellOK, Cell
  <2> QED  BY <2>2, <2>3
<1>3. {i \in Cells(c) : d.cells[i].seq_id # {}} = Occupied(c) \ freed
  BY <1>2 DEF Occupied
<1>4. freed \in SUBSET Occupied(c)
  BY DEF freed, Dropped
<1>5. d.used = Cardinality({i \in Cells(c) : d.cells[i].seq_id # {}})
  <2>1. d.used = c.used - Cardinality(freed)
    BY <1>1
  <2>2. c.used - Cardinality(freed) = Cardinality(Occupied(c) \ freed)
    BY <1>4, Uncounted
  <2> QED  BY <1>3, <2>1, <2>2
<1>6. DOMAIN d.cells = Cells(c) /\ d.cells = [i \in Cells(c) |-> d.cells[i]]
  BY <1>1
<1>7. /\ d.has_shift \in BOOLEAN /\ d.do_defrag \in BOOLEAN
      /\ ~d.has_shift => \A i \in Cells(c) : d.cells[i].delta = 0
  BY <1>1, <1>2 DEF Sound, IsCache
<1> QED  BY <1>1, <1>2, <1>5, <1>6, <1>7, Rebuilt

\* seq_add: the cells that are moved, those that leave the range of positions,
\* and the cache field by field.
Negative(c, s, p0, p1, delta) == {i \in Matching(c, s, p0, p1) : c.cells[i].pos + delta < 0}
MovedCell(x, delta) == [x EXCEPT !.pos = @ + delta, !.delta = @ + delta]

\* A cell that is moved and keeps a position stays well formed.
LEMMA MovedCellOK ==
    ASSUME NEW x, CellOK(x), x.seq_id # {}, NEW delta \in Int
    PROVE  /\ MovedCell(x, delta) \in Cell /\ MovedCell(x, delta).seq_id = x.seq_id
           /\ ~(x.pos + delta < 0) => CellOK(MovedCell(x, delta))
<1> SUFFICES ASSUME NEW y, y = MovedCell(x, delta)
             PROVE  y \in Cell /\ y.seq_id = x.seq_id /\ (~(x.pos + delta < 0) => CellOK(y))
  OBVIOUS
<1>1. x \in Cell /\ x.rope + x.delta = x.pos + x.stray
  BY DEF CellOK
<1>2. PICK p \in Int, e \in Int : p = x.pos + delta /\ e = x.delta + delta
  BY <1>1 DEF Cell
<1>3. y = [x EXCEPT !.pos = p, !.delta = e]
  BY <1>2 DEF MovedCell
<1>4. /\ y \in Cell /\ y.seq_id = x.seq_id /\ y.pos = p /\ y.delta = e
      /\ y.rope = x.rope /\ y.stray = x.stray
  BY <1>1, <1>3 DEF Cell
<1>5. x.pos \in Int /\ x.delta \in Int /\ x.rope \in Int /\ x.stray \in Int
  BY <1>1 DEF Cell
<1>6. y.rope + y.delta = y.pos + y.stray
  BY <1>1, <1>2, <1>4, <1>5
<1> QED  BY <1>2, <1>4, <1>6 DEF CellOK

\* ... of which the negative ones are emptied.
LEMMA AddedCells ==
    ASSUME NEW c, Sound(c), NEW s, NEW p0, NEW p1, NEW delta \in Int,
           NEW d, d = seq_add(c, s, p0, p1, delta)
    PROVE  /\ DOMAIN d = DOMAIN c /\ d.size = c.size
           /\ d.has_shift = (c.has_shift \/ Matching(c, s, p0, p1) # {})
           /\ d.do_defrag = c.do_defrag
           /\ d.used = c.used - Cardinality(Negative(c, s, p0, p1, delta))
           /\ d.head \in 0 .. c.size
           /\ d.cells = [i \in Cells(c) |->
                 IF i \notin Matching(c, s, p0, p1) THEN c.cells[i]
                 ELSE IF i \in Negative(c, s, p0, p1, delta)
                      THEN Emptied(MovedCell(c.cells[i], delta))
                      ELSE MovedCell(c.cells[i], delta)]
<1> DEFINE hit   == Matching(c, s, p0, p1)
           freed == {i \in hit : c.cells[i].pos + delta < 0}
           first == IF freed = {} THEN 0 ELSE Min(freed)
           shift == c.has_shift \/ hit # {}
           cells == [i \in Cells(c) |->
                       IF i \in hit
                       THEN (IF MovedCell(c.cells[i], delta).pos < 0
                             THEN Emptied(MovedCell(c.cells[i], delta))
                             ELSE MovedCell(c.cells[i], delta))
                       ELSE c.cells[i]]
<1>1. d = [c EXCEPT !.cells = cells, !.has_shift = shift, !.used = @ - Cardinality(freed),
                    !.head = first]
  BY DEF seq_add, Mapped, MovedCell
<1>2. freed = Negative(c, s, p0, p1, delta)
  BY DEF Negative
<1>3. cells = [i \in Cells(c) |->
                 IF i \notin hit THEN c.cells[i]
                 ELSE IF i \in freed THEN Emptied(MovedCell(c.cells[i], delta))
                      ELSE MovedCell(c.cells[i], delta)]
  <2>1. \A i \in Cells(c) : c.cells[i] \in Cell
    BY DEF Sound, CellOK
  <2>2. \A i \in Cells(c) : MovedCell(c.cells[i], delta).pos = c.cells[i].pos + delta
    BY <2>1 DEF MovedCell, Cell
  <2> QED  BY <2>2
<1>4. first \in 0 .. c.size
  <2>1. freed \in SUBSET Nat /\ freed \subseteq 0 .. c.size /\ 0 \in 0 .. c.size
    BY DEF Sound, IsCache, Cells, Matching
  <2>2. CASE freed = {}
    BY <2>1, <2>2
  <2>3. CASE freed # {}
    BY <2>1, <2>3, LeastOf
  <2> QED  BY <2>2, <2>3
<1> HIDE DEF cells, freed, first, shift
<1>5. /\ DOMAIN d = DOMAIN c /\ d.size = c.size /\ d.has_shift = shift
      /\ d.do_defrag = c.do_defrag /\ d.used = c.used - Cardinality(freed)
      /\ d.head = first /\ d.cells = cells
  BY <1>1 DEF Sound, IsCache
<1> QED  BY <1>2, <1>3, <1>4, <1>5 DEF shift

\* seq_add keeps the cache sound.
LEMMA AddedSound ==
    ASSUME NEW c, Sound(c), NEW s, NEW p0, NEW p1, NEW delta \in Int
    PROVE  Sound(seq_add(c, s, p0, p1, delta)) /\ seq_add(c, s, p0, p1, delta).size = c.size
<1> SUFFICES ASSUME NEW d, d = seq_add(c, s, p0, p1, delta) PROVE Sound(d) /\ d.size = c.size
  OBVIOUS
<1> DEFINE hit   == Matching(c, s, p0, p1)
           freed == Negative(c, s, p0, p1, delta)
<1>1. /\ DOMAIN d = DOMAIN c /\ d.size = c.size /\ d.has_shift = (c.has_shift \/ hit # {})
      /\ d.do_defrag = c.do_defrag
      /\ d.used = c.used - Cardinality(freed) /\ d.head \in 0 .. c.size
      /\ d.cells = [i \in Cells(c) |->
                 IF i \notin hit THEN c.cells[i]
                 ELSE IF i \in freed THEN Emptied(MovedCell(c.cells[i], delta))
                      ELSE MovedCell(c.cells[i], delta)]
  BY AddedCells
<1>2. hit \in SUBSET Occupied(c) /\ freed \in SUBSET hit /\ Occupied(c) \in SUBSET Cells(c)
  BY MatchingCells DEF Negative
<1>3. \A i \in hit : i \notin freed => ~(c.cells[i].pos + delta < 0)
  BY DEF Negative
<1> HIDE DEF hit, freed
<1>4. ASSUME NEW i \in Cells(c)
      PROVE  /\ CellOK(d.cells[i])
             /\ d.cells[i].seq_id # {} <=> i \in Occupied(c) \ freed
             /\ i \notin hit => d.cells[i].delta = c.cells[i].delta
  <2>1. CellOK(c.cells[i]) /\ c.cells[i] \in Cell
    BY DEF Sound, CellOK
  <2>2. ASSUME i \in hit
        PROVE  /\ c.cells[i].seq_id # {} /\ i \in Occupied(c)
               /\ MovedCell(c.cells[i], delta) \in Cell
               /\ MovedCell(c.cells[i], delta).seq_id = c.cells[i].seq_id
               /\ ~(c.cells[i].pos + delta < 0) => CellOK(MovedCell(c.cells[i], delta))
    <3>1. c.cells[i].seq_id # {} /\ i \in Occupied(c)
      BY <1>2, <2>2 DEF Occupied
    <3> QED  BY <2>1, <3>1, MovedCellOK
  <2>3. CASE i \notin hit
    BY <1>1, <1>2, <2>1, <2>3 DEF Occupied
  <2>4. CASE i \in freed
    <3>1. i \in hit /\ d.cells[i] = Emptied(MovedCell(c.cells[i], delta))
      BY <1>1, <1>2, <2>4
    <3> QED  BY <2>2, <2>4, <3>1, EmptiedCell
  <2>5. CASE i \in hit \ freed
    <3>1. d.cells[i] = MovedCell(c.cells[i], delta)
      BY <1>1, <2>5
    <3>2. ~(c.cells[i].pos + delta < 0)
      BY <1>3, <2>5
    <3> QED  BY <2>2, <2>5, <3>1, <3>2
  <2> QED  BY <1>2, <2>3, <2>4, <2>5
<1>5. {i \in Cells(c) : d.cells[i].seq_id # {}} = Occupied(c) \ freed
  BY <1>4 DEF Occupied
<1>6. d.used = Cardinality({i \in Cells(c) : d.cells[i].seq_id # {}})
  <2>1. d.used = c.used - Cardinality(freed)
    BY <1>1
  <2>2. c.used - Cardinality(freed) = Cardinality(Occupied(c) \ freed)
    BY <1>2, Uncounted
  <2> QED  BY <1>5, <2>1, <2>2
<1>7. DOMAIN d.cells = Cells(c) /\ d.cells = [i \in Cells(c) |-> d.cells[i]]
  BY <1>1
<1>8. d.has_shift \in BOOLEAN /\ d.do_defrag \in BOOLEAN
  BY <1>1 DEF Sound, IsCache
<1>9. ~d.has_shift => \A i \in Cells(c) : d.cells[i].delta = 0
  <2>1. ~d.has_shift => ~c.has_shift /\ hit = {}
    BY <1>1
  <2> QED  BY <1>4, <2>1 DEF Sound
<1>10. d.head \in 0 .. c.size /\ DOMAIN d = DOMAIN c /\ d.size = c.size
  BY <1>1
<1> QED  BY <1>4, <1>6, <1>7, <1>8, <1>9, <1>10, Rebuilt

\* seq_div, field by field.
DividedCell(x, n) == [x EXCEPT !.pos = @ \div n, !.delta = @ + x.pos \div n - x.pos]

\* A cell that is divided stays well formed.
LEMMA DividedCellOK ==
    ASSUME NEW x, CellOK(x), x.seq_id # {}
    PROVE  CellOK(DividedCell(x, 2)) /\ DividedCell(x, 2).seq_id = x.seq_id
<1>1. PICK p \in Nat : p = x.pos
  BY DEF CellOK, Cell
<1>2. PICK q \in Nat : q = p \div 2
  OBVIOUS
<1>3. /\ x \in Cell /\ x.rope + x.delta = x.pos + x.stray
      /\ x.delta \in Int /\ x.rope \in Int /\ x.stray \in Int
  BY DEF CellOK, Cell
<1>4. PICK y : y = DividedCell(x, 2)
  OBVIOUS
<1>5. PICK e \in Int : e = x.delta + q - p
  BY <1>3
<1>6. y = [x EXCEPT !.pos = q, !.delta = e]
  <2>1. x.pos \div 2 = q /\ x.delta + x.pos \div 2 - x.pos = e
    BY <1>1, <1>2, <1>5
  <2>2. y = [x EXCEPT !.pos = x.pos \div 2, !.delta = x.delta + x.pos \div 2 - x.pos]
    BY <1>4, Zenon DEF DividedCell
  <2> QED  BY <2>1, <2>2, Zenon
<1>7. /\ y \in Cell /\ y.seq_id = x.seq_id /\ y.pos = q /\ y.delta = e
      /\ y.rope = x.rope /\ y.stray = x.stray
  <2>1. x \in Cell /\ q \in Int
    BY <1>3
  <2> QED  BY <1>6, <2>1 DEF Cell
<1>8. y.rope + y.delta = y.pos + y.stray
  BY <1>1, <1>3, <1>5, <1>7
<1> QED  BY <1>4, <1>7, <1>8 DEF CellOK

\* No cell is freed.
LEMMA DividedCells ==
    ASSUME NEW c, Sound(c), NEW s, NEW p0, NEW p1, NEW n, NEW d, d = seq_div(c, s, p0, p1, n)
    PROVE  /\ DOMAIN d = DOMAIN c /\ d.size = c.size
           /\ d.has_shift = (c.has_shift \/ Matching(c, s, p0, p1) # {})
           /\ d.do_defrag = c.do_defrag /\ d.used = c.used /\ d.head = c.head
           /\ d.cells = [i \in Cells(c) |-> IF i \in Matching(c, s, p0, p1)
                                            THEN DividedCell(c.cells[i], n) ELSE c.cells[i]]
<1> DEFINE shift == c.has_shift \/ Matching(c, s, p0, p1) # {}
           cells == [i \in Cells(c) |-> IF i \in Matching(c, s, p0, p1)
                                        THEN DividedCell(c.cells[i], n) ELSE c.cells[i]]
<1>1. d = [c EXCEPT !.cells = cells, !.has_shift = shift]
  BY DEF seq_div, Mapped, DividedCell
<1> HIDE DEF cells, shift
<1>2. /\ DOMAIN d = DOMAIN c /\ d.size = c.size /\ d.has_shift = shift
      /\ d.do_defrag = c.do_defrag /\ d.used = c.used /\ d.head = c.head /\ d.cells = cells
  BY <1>1 DEF Sound, IsCache
<1> QED  BY <1>2 DEF shift, cells

\* seq_div keeps the cache sound.
LEMMA DividedSound ==
    ASSUME NEW c, Sound(c), NEW s, NEW p0, NEW p1
    PROVE  Sound(seq_div(c, s, p0, p1, 2)) /\ seq_div(c, s, p0, p1, 2).size = c.size
<1> SUFFICES ASSUME NEW d, d = seq_div(c, s, p0, p1, 2) PROVE Sound(d) /\ d.size = c.size
  OBVIOUS
<1> DEFINE hit == Matching(c, s, p0, p1)
<1>1. /\ DOMAIN d = DOMAIN c /\ d.size = c.size /\ d.has_shift = (c.has_shift \/ hit # {})
      /\ d.do_defrag = c.do_defrag /\ d.used = c.used /\ d.head = c.head
      /\ d.cells = [i \in Cells(c) |-> IF i \in hit THEN DividedCell(c.cells[i], 2)
                                       ELSE c.cells[i]]
  BY DividedCells
<1>2. hit \in SUBSET Occupied(c)
  BY MatchingCells
<1> HIDE DEF hit
<1>3. ASSUME NEW i \in Cells(c)
      PROVE  /\ CellOK(d.cells[i]) /\ (d.cells[i].seq_id = {} <=> c.cells[i].seq_id = {})
             /\ i \notin hit => d.cells[i].delta = c.cells[i].delta
  <2>1. CellOK(c.cells[i])
    BY DEF Sound
  <2>2. CASE i \in hit
    <3>1. c.cells[i].seq_id # {} /\ d.cells[i] = DividedCell(c.cells[i], 2)
      BY <1>1, <1>2, <2>2 DEF Occupied
    <3> QED  BY <2>1, <2>2, <3>1, DividedCellOK
  <2>3. CASE i \notin hit
    BY <1>1, <2>1, <2>3
  <2> QED  BY <2>2, <2>3
<1>4. DOMAIN d.cells = Cells(c) /\ d.cells = [i \in Cells(c) |-> d.cells[i]]
  BY <1>1
<1>5. d.head \in 0 .. c.size /\ d.has_shift \in BOOLEAN /\ d.do_defrag \in BOOLEAN
  BY <1>1 DEF Sound, IsCache
<1>6. ~d.has_shift => \A i \in Cells(c) : d.cells[i].delta = 0
  <2>1. ~d.has_shift => ~c.has_shift /\ hit = {}
    BY <1>1
  <2> QED  BY <1>3, <2>1 DEF Sound
<1>7. d.used = c.used /\ DOMAIN d = DOMAIN c /\ d.size = c.size
  BY <1>1
<1> QED  BY <1>3, <1>4, <1>5, <1>6, <1>7, SameCount

\* clear keeps the cache sound.
LEMMA ClearedSound ==
    ASSUME NEW c, Sound(c)
    PROVE  Sound(clear(c)) /\ clear(c).size = c.size
<1> SUFFICES ASSUME NEW d, d = clear(c) PROVE Sound(d) /\ d.size = c.size
  OBVIOUS
<1> DEFINE cells == [i \in Cells(c) |-> Emptied(c.cells[i])]
<1>1. d = [c EXCEPT !.cells = cells, !.head = 0, !.used = 0]
  BY DEF clear
<1> HIDE DEF cells
<1>2. /\ DOMAIN d = DOMAIN c /\ d.size = c.size /\ d.has_shift = c.has_shift
      /\ d.do_defrag = c.do_defrag /\ d.used = 0 /\ d.head = 0 /\ d.cells = cells
  BY <1>1 DEF Sound, IsCache
<1>3. ASSUME NEW i \in Cells(c)
      PROVE  CellOK(d.cells[i]) /\ d.cells[i].seq_id = {} /\ d.cells[i].delta = c.cells[i].delta
  <2>1. c.cells[i] \in Cell /\ d.cells[i] = Emptied(c.cells[i])
    BY <1>2 DEF cells, Sound, CellOK
  <2> QED  BY <2>1, EmptiedCell
<1>4. DOMAIN d.cells = Cells(c) /\ d.cells = [i \in Cells(c) |-> d.cells[i]]
  BY <1>2 DEF cells
<1>5. {i \in Cells(c) : d.cells[i].seq_id # {}} = {}
  BY <1>3
<1>6. d.used = Cardinality({i \in Cells(c) : d.cells[i].seq_id # {}})
  BY <1>2, <1>5, FS_EmptySet
<1>7. /\ d.head \in 0 .. c.size /\ d.has_shift \in BOOLEAN /\ d.do_defrag \in BOOLEAN
      /\ ~d.has_shift => \A i \in Cells(c) : d.cells[i].delta = 0
  BY <1>2, <1>3 DEF Sound, IsCache
<1> QED  BY <1>2, <1>3, <1>4, <1>6, <1>7, Rebuilt

\* A rotation: what it makes of a cell.
RotatedCell(x) == [x EXCEPT !.rope = @ + x.delta, !.delta = 0]

\* The keys are at the position of the cell then.
LEMMA RotatedCellOK ==
    ASSUME NEW x, CellOK(x), x.seq_id # {}
    PROVE  CellOK(RotatedCell(x)) /\ RotatedCell(x).seq_id = x.seq_id /\ RotatedCell(x).delta = 0
<1>1. /\ x \in Cell /\ x.delta \in Int /\ x.rope \in Int /\ x.pos \in Int
      /\ x.stray \in Int
  BY DEF CellOK, Cell
<1>2. PICK r \in Int : r = x.rope + x.delta
  BY <1>1
<1>3. PICK y : y = RotatedCell(x)
  OBVIOUS
<1>4. y = [x EXCEPT !.rope = r, !.delta = 0]
  BY <1>2, <1>3 DEF RotatedCell
<1>5. /\ y \in Cell /\ y.seq_id = x.seq_id /\ y.delta = 0 /\ y.rope = r
      /\ y.pos = x.pos /\ y.tok = x.tok /\ y.stray = x.stray
  <2>1. x \in Cell /\ 0 \in Int
    BY <1>1
  <2> QED  BY <1>4, <2>1 DEF Cell
<1>6. y.rope + y.delta = y.pos + y.stray
  BY <1>1, <1>2, <1>5 DEF CellOK
<1> QED  BY <1>3, <1>5, <1>6 DEF CellOK

\* After the rotation no delta is pending.
LEMMA ShiftedSound ==
    ASSUME NEW c, Sound(c)
    PROVE  Sound(Shifted(c)) /\ Shifted(c).size = c.size /\ ~Shifted(c).has_shift
<1> SUFFICES ASSUME NEW d, d = Shifted(c) PROVE Sound(d) /\ d.size = c.size /\ ~d.has_shift
  OBVIOUS
<1>1. CASE ~c.has_shift
  BY <1>1 DEF Shifted
<1>2. CASE c.has_shift
  <2> DEFINE cells == [i \in Cells(c) |-> IF c.cells[i].seq_id = {} THEN NewCell
                                          ELSE RotatedCell(c.cells[i])]
  <2>1. d = [c EXCEPT !.has_shift = FALSE, !.cells = cells]
    BY <1>2 DEF Shifted, RotatedCell, is_empty
  <2> HIDE DEF cells
  <2>2. /\ DOMAIN d = DOMAIN c /\ d.size = c.size /\ d.has_shift = FALSE
        /\ d.do_defrag = c.do_defrag /\ d.used = c.used /\ d.head = c.head /\ d.cells = cells
    BY <2>1 DEF Sound, IsCache
  <2>3. ASSUME NEW i \in Cells(c)
        PROVE  /\ CellOK(d.cells[i]) /\ (d.cells[i].seq_id = {} <=> c.cells[i].seq_id = {})
               /\ d.cells[i].delta = 0
    <3>1. CellOK(c.cells[i]) /\ c.cells[i] \in Cell
      BY DEF Sound, CellOK
    <3>2. CASE c.cells[i].seq_id = {}
      <4>1. d.cells[i] = NewCell
        BY <2>2, <3>2 DEF cells
      <4> QED  BY <3>1, <3>2, <4>1, EmptiedCell
    <3>3. CASE c.cells[i].seq_id # {}
      <4>1. d.cells[i] = RotatedCell(c.cells[i])
        BY <2>2, <3>3 DEF cells
      <4> QED  BY <3>1, <3>3, <4>1, RotatedCellOK
    <3> QED  BY <3>2, <3>3
  <2>4. DOMAIN d.cells = Cells(c) /\ d.cells = [i \in Cells(c) |-> d.cells[i]]
    BY <2>2 DEF cells
  <2>5. d.head \in 0 .. c.size /\ d.has_shift \in BOOLEAN /\ d.do_defrag \in BOOLEAN
    BY <2>2 DEF Sound, IsCache
  <2> QED  BY <2>2, <2>3, <2>4, <2>5, SameCount
<1>3. c.has_shift \in BOOLEAN
  BY DEF Sound, IsCache
<1> QED  BY <1>1, <1>2, <1>3

\* Entering a token: what it makes of a cell.
EnteredCell(x, S, p, t, file) ==
    [x EXCEPT !.pos = p, !.seq_id = @ \cup S, !.tok = t, !.rope = p,
              !.stray = IF file THEN x.delta ELSE 0]

\* The cell is well formed when it was empty, and had no delta or the token is
\* loaded from a file.
LEMMA EnteredCellOK ==
    ASSUME NEW x, CellOK(x), x.seq_id = {}, NEW file \in BOOLEAN, file \/ x.delta = 0,
           NEW S \in SUBSET SeqId, S # {}, NEW p \in Nat, NEW t \in Nat
    PROVE  /\ CellOK(EnteredCell(x, S, p, t, file)) /\ EnteredCell(x, S, p, t, file).seq_id = S
           /\ EnteredCell(x, S, p, t, file).delta = x.delta
<1>1. x \in Cell /\ x.delta \in Int
  BY DEF CellOK, Cell
<1>2. PICK y : y = EnteredCell(x, S, p, t, file)
  OBVIOUS
<1>3. PICK r \in Int : r = (IF file THEN x.delta ELSE 0) /\ r = x.delta
  BY <1>1
<1>4. y = [x EXCEPT !.pos = p, !.seq_id = S, !.tok = t, !.rope = p, !.stray = r]
  BY <1>2, <1>3 DEF EnteredCell
<1>5. /\ y \in Cell /\ y.seq_id = S /\ y.delta = x.delta /\ y.rope = p /\ y.pos = p
      /\ y.stray = r
  <2>1. x \in Cell /\ p \in Int /\ t \in Nat \cup {None} /\ r \in Int
    BY <1>1
  <2> QED  BY <1>1, <1>4, <2>1 DEF Cell
<1>6. y.rope + y.delta = y.pos + y.stray /\ y.pos >= 0
  BY <1>1, <1>3, <1>5
<1> QED  BY <1>2, <1>5, <1>6 DEF CellOK

\* n cells in a row from h on are free, and no rotation is pending or the tokens
\* are loaded from a file: the tokens from t on may be entered for the sequences
\* S at the positions from p on.
CanStore(c, h, S, p, n, t, file) ==
    /\ Sound(c) /\ file \in BOOLEAN /\ (file \/ c.has_shift = FALSE)
    /\ h \in Nat /\ n \in Nat /\ h + n <= c.size
    /\ \A i \in h .. h + n - 1 : c.cells[i].seq_id = {}
    /\ S \in SUBSET SeqId /\ S # {} /\ p \in Nat /\ t \in Nat

\* Then they are, and the cache stays sound.
LEMMA StoredSound ==
    ASSUME NEW c, NEW h, NEW S, NEW p, NEW n, NEW t, NEW file,
           CanStore(c, h, S, p, n, t, file)
    PROVE  /\ Sound(Stored(c, h, S, p, n, t, file))
           /\ Stored(c, h, S, p, n, t, file).size = c.size
           /\ Stored(c, h, S, p, n, t, file).head = h
<1>0. /\ Sound(c) /\ file \in BOOLEAN /\ (file \/ c.has_shift = FALSE)
      /\ h \in Nat /\ n \in Nat /\ h + n <= c.size
      /\ \A i \in h .. h + n - 1 : c.cells[i].seq_id = {}
      /\ S \in SUBSET SeqId /\ S # {} /\ p \in Nat /\ t \in Nat
  BY DEF CanStore
<1> USE <1>0
<1> SUFFICES ASSUME NEW d, d = Stored(c, h, S, p, n, t, file)
             PROVE  Sound(d) /\ d.size = c.size /\ d.head = h
  OBVIOUS
<1> DEFINE taken == h .. h + n - 1
           cells == [i \in Cells(c) |->
                       IF i \in taken
                       THEN EnteredCell(c.cells[i], S, p + i - h, t + i - h, file)
                       ELSE c.cells[i]]
<1>1. d = [c EXCEPT !.head = h, !.used = @ + n, !.cells = cells]
  BY DEF Stored, EnteredCell
<1>2. PICK m \in Int : m = h + n - 1
  OBVIOUS
<1>3. taken = h .. m
  BY <1>2
<1>4. /\ taken \in SUBSET Cells(c)
      /\ \A i \in taken : i \in Int /\ h <= i /\ i < h + n /\ c.cells[i].seq_id = {}
  <2>1. c.size \in Nat
    BY DEF Sound, IsCache
  <2>2. \A i \in taken : i \in Int /\ h <= i /\ i < h + n
    OBVIOUS
  <2>3. \A i \in taken : i \in Cells(c)
    BY <2>1, <2>2 DEF Cells
  <2> QED  BY <2>2, <2>3
<1>5. IsFiniteSet(taken) /\ Cardinality(taken) = n
  <2>1. IsFiniteSet(h .. m) /\ Cardinality(h .. m) = IF h > m THEN 0 ELSE m - h + 1
    BY h \in Int, FS_Interval
  <2>2. (IF h > m THEN 0 ELSE m - h + 1) = n
    BY <1>2
  <2> HIDE DEF taken
  <2> QED  BY <1>3, <2>1, <2>2
<1> HIDE DEF cells, taken
<1>6. /\ DOMAIN d = DOMAIN c /\ d.size = c.size /\ d.has_shift = c.has_shift
      /\ d.do_defrag = c.do_defrag /\ d.used = c.used + n /\ d.head = h /\ d.cells = cells
  BY <1>1 DEF Sound, IsCache
<1>7. ASSUME NEW i \in Cells(c)
      PROVE  /\ CellOK(d.cells[i]) /\ d.cells[i].delta = c.cells[i].delta
             /\ d.cells[i].seq_id # {} <=> i \in Occupied(c) \cup taken
  <2>1. CellOK(c.cells[i]) /\ (file \/ c.cells[i].delta = 0)
    BY DEF Sound
  <2>2. CASE i \in taken
    <3>1. PICK q \in Nat, u \in Nat : q = p + i - h /\ u = t + i - h
      BY <1>4, <2>2
    <3>2. d.cells[i] = EnteredCell(c.cells[i], S, q, u, file)
      BY <1>6, <2>2, <3>1 DEF cells
    <3> QED  BY <1>4, <2>1, <2>2, <3>2, EnteredCellOK
  <2>3. CASE i \notin taken
    <3>1. d.cells[i] = c.cells[i]
      BY <1>6, <2>3 DEF cells
    <3> QED  BY <2>1, <2>3, <3>1 DEF Occupied
  <2> QED  BY <2>2, <2>3
<1>8. {i \in Cells(c) : d.cells[i].seq_id # {}} = Occupied(c) \cup taken
  BY <1>4, <1>7 DEF Occupied
<1>9. d.used = Cardinality({i \in Cells(c) : d.cells[i].seq_id # {}})
  <2>1. IsFiniteSet(Occupied(c)) /\ c.used = Cardinality(Occupied(c)) /\ c.used \in Nat
    BY OccupiedFinite DEF Sound, Occupied
  <2>2. Occupied(c) \cap taken = {}
    BY <1>4 DEF Occupied
  <2>3. Cardinality(Occupied(c) \cup taken) = Cardinality(Occupied(c)) + Cardinality(taken)
    <3>1. Cardinality(Occupied(c) \cup taken)
            = Cardinality(Occupied(c)) + Cardinality(taken) - Cardinality(Occupied(c) \cap taken)
      BY <1>5, <2>1, FS_Union
    <3>2. Cardinality(Occupied(c) \cap taken) = 0
      BY <2>2, FS_EmptySet
    <3> QED  BY <1>5, <2>1, <3>1, <3>2
  <2> QED  BY <1>5, <1>6, <1>8, <2>1, <2>3
<1>10. DOMAIN d.cells = Cells(c) /\ d.cells = [i \in Cells(c) |-> d.cells[i]]
  BY <1>6 DEF cells
<1>11. h \in 0 .. c.size
  BY DEF Sound, IsCache
<1>12. d.head \in 0 .. c.size /\ d.has_shift \in BOOLEAN /\ d.do_defrag \in BOOLEAN
  BY <1>6, <1>11 DEF Sound, IsCache
<1>13. ~d.has_shift => \A i \in Cells(c) : d.cells[i].delta = 0
  BY <1>6, <1>7 DEF Sound
<1> QED  BY <1>6, <1>7, <1>9, <1>10, <1>12, <1>13, Rebuilt

-----------------------------------------------------------------------------
(* The search.                                                             *)

\* A run of rounds of the search.
IsSearch(c, n, m, f) ==
    f = [k \in 0 .. m |-> IF k = 0 THEN StartSearch(c, n) ELSE SearchRound(c, n, f[k - 1])]

\* The search can go on for any number of rounds.
LEMMA SearchExists ==
    ASSUME NEW c, NEW n, NEW M \in Nat
    PROVE  \E f : IsSearch(c, n, M, f)
<1> DEFINE Claim(m) == \E f : IsSearch(c, n, m, f)
           Bad == {m \in Nat : ~Claim(m)}
<1>1. SUFFICES ASSUME Bad # {} PROVE FALSE
  OBVIOUS
<1>2. PICK m \in Bad : \A x \in Bad : m <= x
  <2>1. Bad \in SUBSET Nat
    OBVIOUS
  <2> HIDE DEF Bad
  <2> QED  BY <1>1, <2>1, HasLeast
<1>3. m # 0
  <2>1. IsSearch(c, n, 0, [k \in 0 .. 0 |-> StartSearch(c, n)])
    BY DEF IsSearch
  <2> QED  BY <2>1
<1>4. PICK j \in Nat : j = m - 1
  BY <1>3
<1>5. j \notin Bad
  BY <1>2, <1>4
<1>6. PICK f : IsSearch(c, n, j, f)
  BY <1>5
<1> DEFINE g == [k \in 0 .. m |-> IF k = m THEN SearchRound(c, n, f[j]) ELSE f[k]]
<1>7. ASSUME NEW k \in 0 .. m
      PROVE  g[k] = IF k = 0 THEN StartSearch(c, n) ELSE SearchRound(c, n, g[k - 1])
  <2>1. \A i \in 0 .. j : g[i] = f[i]
    BY <1>4
  <2>2. \A i \in 0 .. j : f[i] = IF i = 0 THEN StartSearch(c, n) ELSE SearchRound(c, n, f[i - 1])
    BY <1>6 DEF IsSearch
  <2>3. CASE k = m
    <3>1. g[k] = SearchRound(c, n, f[j]) /\ k - 1 = j /\ k # 0 /\ j \in 0 .. j
      BY <1>3, <1>4, <2>3
    <3> HIDE DEF g
    <3> QED  BY <2>1, <3>1
  <2>4. CASE k # m
    <3>1. k \in 0 .. j /\ (k # 0 => k - 1 \in 0 .. j)
      BY <1>4, <2>4
    <3> HIDE DEF g
    <3> QED  BY <2>1, <2>2, <3>1
  <2> QED  BY <2>3, <2>4
<1>8. IsSearch(c, n, m, g)
  <2>1. g = [k \in 0 .. m |-> g[k]]
    OBVIOUS
  <2> HIDE DEF g
  <2> QED  BY <1>7, <2>1 DEF IsSearch
<1> QED  BY <1>8

\* Search is that run.
LEMMA SearchRecursion ==
    ASSUME NEW c, c.size \in Nat, NEW n
    PROVE  /\ MaxRounds(c) \in Nat
           /\ Search(c, n)[0] = StartSearch(c, n)
           /\ \A k \in 0 .. MaxRounds(c) :
                 k # 0 => Search(c, n)[k] = SearchRound(c, n, Search(c, n)[k - 1])
<1>1. MaxRounds(c) \in Nat
  BY DEF MaxRounds
<1>2. \E f : IsSearch(c, n, MaxRounds(c), f)
  BY <1>1, SearchExists
<1>3. Search(c, n) = CHOOSE f : IsSearch(c, n, MaxRounds(c), f)
  BY DEF Search, IsSearch
<1>4. PICK f : f = Search(c, n)
  OBVIOUS
<1>5. IsSearch(c, n, MaxRounds(c), f)
  BY <1>2, <1>3, <1>4
<1>6. f[0] = StartSearch(c, n)
  BY <1>1, <1>5 DEF IsSearch
<1>7. \A k \in 0 .. MaxRounds(c) : k # 0 => f[k] = SearchRound(c, n, f[k - 1])
  BY <1>1, <1>5 DEF IsSearch
<1> QED  BY <1>1, <1>4, <1>6, <1>7

\* No n free cells in a row begin in H.
NoneFree(c, n, H) == \A h \in 0 .. c.size - n : h \in H => Busy(c, n, h) # {}

\* Where the search is when it has found nothing yet: on its way to the end of
\* the ring, on its way to where it started, or beyond that.
Underway(c, n, s) ==
    \/ /\ c.head <= s.head /\ s.tested = s.head - c.head
       /\ NoneFree(c, n, c.head .. s.head - 1)
    \/ /\ s.tested = c.size - c.head + s.head
       /\ NoneFree(c, n, c.head .. c.size) /\ NoneFree(c, n, 0 .. s.head - 1)
    \/ s.tested >= c.size /\ NoneFree(c, n, 0 .. c.size)

\* What holds after k rounds.  The count of tested cells grows in every second
\* round at least, and is limited.
SearchInv(c, n, s, k) ==
    /\ DOMAIN s = {"head", "tested", "done", "found"}
    /\ s.head \in 0 .. c.size /\ s.tested \in Nat
    /\ s.done \in BOOLEAN /\ s.found \in BOOLEAN
    /\ s.found => s.done /\ s.head + n <= c.size /\ Busy(c, n, s.head) = {}
    /\ ~s.found => Underway(c, n, s)
    /\ s.done /\ ~s.found => NoneFree(c, n, 0 .. c.size)
    /\ ~s.done => /\ s.tested < c.size \/ s.head = 0
                  /\ s.tested <= 2 * c.size
                  /\ 2 * s.tested + (IF s.head + n > c.size THEN 0 ELSE 1) >= k

\* Cells that are skipped: no free cells in a row begin before the first busy
\* one and contain it.
LEMMA SkippedNotFree ==
    ASSUME NEW c, IsCache(c), NEW n \in Nat, NEW h \in Nat, h + n <= c.size, Busy(c, n, h) # {}
    PROVE  /\ Min(Busy(c, n, h)) \in 0 .. n - 1
           /\ NoneFree(c, n, h .. h + Min(Busy(c, n, h)))
<1>1. Busy(c, n, h) \in SUBSET Nat /\ Busy(c, n, h) \subseteq 0 .. n - 1
  BY DEF Busy
<1>2. PICK m \in 0 .. n - 1 : m = Min(Busy(c, n, h)) /\ m \in Busy(c, n, h)
  BY <1>1, LeastOf
<1>3. c.cells[h + m].pos >= 0
  BY <1>2 DEF Busy
<1>4. ASSUME NEW x \in 0 .. c.size - n, x \in h .. h + m PROVE Busy(c, n, x) # {}
  <2>1. c.size \in Nat
    BY DEF IsCache
  <2>2. PICK i \in 0 .. n - 1 : x + i = h + m
    <3>1. h + m - x \in 0 .. n - 1 /\ x + (h + m - x) = h + m
      BY <1>4, <2>1
    <3> QED  BY <3>1
  <2> QED  BY <1>3, <2>2 DEF Busy
<1>5. NoneFree(c, n, h .. h + m)
  BY <1>4 DEF NoneFree
<1> QED  BY <1>2, <1>5

\* The search begins where head is.
LEMMA SearchStarts ==
    ASSUME NEW c, IsCache(c), NEW n \in Nat, n <= c.size
    PROVE  SearchInv(c, n, StartSearch(c, n), 0)
<1>1. c.size \in Nat /\ c.size # 0 /\ c.head \in 0 .. c.size
  BY DEF IsCache
<1>2. PICK s : s = StartSearch(c, n)
  OBVIOUS
<1>3. /\ DOMAIN s = {"head", "tested", "done", "found"}
      /\ s.head = c.head /\ s.tested = 0 /\ s.done = FALSE /\ s.found = FALSE
  <2>1. (n > c.size) = FALSE
    BY <1>1
  <2>2. s = [head |-> c.head, tested |-> 0, done |-> FALSE, found |-> FALSE]
    BY <1>2, <2>1, Zenon DEF StartSearch
  <2> QED  BY <2>2
<1>4. Underway(c, n, s)
  <2>1. c.head <= s.head /\ s.tested = s.head - c.head
    BY <1>1, <1>3
  <2>2. \A h \in c.head .. s.head - 1 : FALSE
    BY <1>1, <1>3
  <2>3. NoneFree(c, n, c.head .. s.head - 1)
    BY <2>2 DEF NoneFree
  <2> QED  BY <2>1, <2>3 DEF Underway
<1>5. /\ s.tested < c.size /\ s.tested <= 2 * c.size
      /\ 2 * s.tested + (IF s.head + n > c.size THEN 0 ELSE 1) >= 0
  BY <1>1, <1>3
<1>6. SearchInv(c, n, s, 0)
  <2>1. s.head \in 0 .. c.size /\ s.tested \in Nat
    BY <1>1, <1>3
  <2>2. s.done \in BOOLEAN /\ s.found \in BOOLEAN /\ ~s.done /\ ~s.found
    BY <1>3
  <2>3. DOMAIN s = {"head", "tested", "done", "found"}
    BY <1>3
  <2> QED  BY <1>4, <1>5, <2>1, <2>2, <2>3 DEF SearchInv
<1> QED  BY <1>2, <1>6

\* At the end of the ring the search goes on at its beginning.
LEMMA SearchWraps ==
    ASSUME NEW c, IsCache(c), NEW n \in Nat, n <= c.size, NEW k \in Nat,
           NEW s, SearchInv(c, n, s, k), ~s.done, s.head + n > c.size,
           NEW d, d = [s EXCEPT !.head = 0, !.tested = @ + c.size - s.head]
    PROVE  SearchInv(c, n, d, k + 1)
<1>1. c.size \in Nat /\ c.size # 0 /\ c.head \in 0 .. c.size
  BY DEF IsCache
<1>2. /\ DOMAIN s = {"head", "tested", "done", "found"} /\ s.head \in 0 .. c.size
      /\ s.tested \in Nat /\ s.done = FALSE /\ s.found = FALSE
      /\ s.tested < c.size \/ s.head = 0
      /\ 2 * s.tested >= k
  BY DEF SearchInv
<1>3. /\ DOMAIN d = {"head", "tested", "done", "found"} /\ d.head = 0
      /\ d.tested = s.tested + c.size - s.head /\ d.done = FALSE /\ d.found = FALSE
  BY <1>2
<1>4. s.head # 0
  BY <1>1
<1>5. d.tested \in Nat /\ d.tested <= 2 * c.size /\ 2 * d.tested + 1 >= k + 1
  BY <1>1, <1>2, <1>3, <1>4
<1>6. Underway(c, n, s)
  BY <1>2 DEF SearchInv
<1>7. \A h \in 0 .. c.size - n : h < s.head
  BY <1>1, <1>2
<1>8. Underway(c, n, d)
  <2>1. CASE /\ c.head <= s.head /\ s.tested = s.head - c.head
             /\ NoneFree(c, n, c.head .. s.head - 1)
    <3>1. d.tested = c.size - c.head + d.head
      BY <1>1, <1>2, <1>3, <2>1
    <3>2. NoneFree(c, n, c.head .. c.size) /\ NoneFree(c, n, 0 .. d.head - 1)
      BY <1>1, <1>2, <1>3, <1>7, <2>1 DEF NoneFree
    <3> QED  BY <3>1, <3>2 DEF Underway
  <2>2. CASE NoneFree(c, n, 0 .. s.head - 1)
    <3>1. NoneFree(c, n, 0 .. c.size)
      BY <1>1, <1>2, <1>7, <2>2 DEF NoneFree
    <3>2. CASE d.tested >= c.size
      BY <3>1, <3>2 DEF Underway
    <3>3. CASE d.tested < c.size
      <4>1. s.tested < s.head
        BY <1>1, <1>2, <1>3, <3>3
      <4> QED  BY <1>1, <1>2, <1>3, <1>6, <3>1, <4>1 DEF Underway, NoneFree
    <3> QED  BY <1>1, <1>5, <3>2, <3>3
  <2>3. CASE s.tested >= c.size /\ NoneFree(c, n, 0 .. c.size)
    BY <1>1, <1>2, <1>3, <2>3 DEF Underway
  <2> QED  BY <1>6, <2>1, <2>2, <2>3 DEF Underway
<1> QED  BY <1>1, <1>3, <1>5, <1>8 DEF SearchInv

\* Busy cells are skipped up to the first of them.
LEMMA SearchSkips ==
    ASSUME NEW c, IsCache(c), NEW n \in Nat, n <= c.size, NEW k \in Nat,
           NEW s, SearchInv(c, n, s, k), ~s.done, s.head + n <= c.size,
           Busy(c, n, s.head) # {}, NEW skip, skip = Min(Busy(c, n, s.head)) + 1,
           NEW d, d = [s EXCEPT !.head = @ + skip, !.tested = @ + skip,
                                !.done = s.tested + skip >= c.size]
    PROVE  SearchInv(c, n, d, k + 1)
<1>1. c.size \in Nat /\ c.size # 0 /\ c.head \in 0 .. c.size
  BY DEF IsCache
<1>2. /\ DOMAIN s = {"head", "tested", "done", "found"} /\ s.head \in 0 .. c.size
      /\ s.tested \in Nat /\ s.done = FALSE /\ s.found = FALSE
      /\ s.tested < c.size \/ s.head = 0
      /\ s.tested <= 2 * c.size /\ 2 * s.tested + 1 >= k
  BY <1>1 DEF SearchInv
<1>3. /\ skip \in 1 .. n /\ s.head \in Nat
      /\ NoneFree(c, n, s.head .. s.head + skip - 1)
  <2>1. s.head \in Nat
    BY <1>2
  <2>2. PICK m \in 0 .. n - 1 : /\ m = Min(Busy(c, n, s.head))
                                /\ NoneFree(c, n, s.head .. s.head + m)
    BY <2>1, SkippedNotFree
  <2>3. skip = m + 1 /\ s.head + skip - 1 = s.head + m
    BY <2>1, <2>2
  <2> QED  BY <2>1, <2>2, <2>3
<1>4. PICK b \in BOOLEAN : b <=> s.tested + skip >= c.size
  OBVIOUS
<1>5. d = [s EXCEPT !.head = s.head + skip, !.tested = s.tested + skip, !.done = b]
  <2>1. b = (s.tested + skip >= c.size)
    BY <1>4
  <2> QED  BY <2>1, Zenon
<1>6. /\ DOMAIN d = {"head", "tested", "done", "found"} /\ d.head = s.head + skip
      /\ d.tested = s.tested + skip /\ d.done = b /\ d.found = FALSE
  BY <1>2, <1>5
<1>7. d.head \in 0 .. c.size /\ d.tested \in Nat
  BY <1>1, <1>2, <1>3, <1>6
<1>8. Underway(c, n, s)
  BY <1>2 DEF SearchInv
<1>9. Underway(c, n, d) /\ (d.tested >= c.size => NoneFree(c, n, 0 .. c.size))
  <2>1. CASE /\ c.head <= s.head /\ s.tested = s.head - c.head
             /\ NoneFree(c, n, c.head .. s.head - 1)
    <3>1. c.head <= d.head /\ d.tested = d.head - c.head
      BY <1>1, <1>2, <1>3, <1>6, <2>1
    <3>2. NoneFree(c, n, c.head .. d.head - 1)
      BY <1>1, <1>2, <1>3, <1>6, <2>1 DEF NoneFree
    <3>3. d.tested >= c.size => c.head = 0 /\ d.head = c.size
      BY <1>1, <1>7, <3>1
    <3>4. ASSUME d.tested >= c.size PROVE NoneFree(c, n, 0 .. c.size)
      <4>1. NoneFree(c, n, 0 .. c.size - 1)
        BY <3>2, <3>3, <3>4
      <4>2. n # 0
        BY <1>3
      <4> QED  BY <1>1, <4>1, <4>2 DEF NoneFree
    <3> QED  BY <3>1, <3>2, <3>4 DEF Underway
  <2>2. CASE /\ s.tested = c.size - c.head + s.head
             /\ NoneFree(c, n, c.head .. c.size) /\ NoneFree(c, n, 0 .. s.head - 1)
    <3>1. d.tested = c.size - c.head + d.head
      BY <1>1, <1>2, <1>3, <1>6, <2>2
    <3>2. NoneFree(c, n, 0 .. d.head - 1)
      BY <1>1, <1>2, <1>3, <1>6, <2>2 DEF NoneFree
    <3>3. d.tested >= c.size => d.head >= c.head
      BY <1>1, <1>7, <3>1
    <3>4. ASSUME d.tested >= c.size PROVE NoneFree(c, n, 0 .. c.size)
      BY <1>1, <1>7, <2>2, <3>2, <3>3, <3>4 DEF NoneFree
    <3> QED  BY <2>2, <3>1, <3>2, <3>4 DEF Underway
  <2>3. CASE s.tested >= c.size /\ NoneFree(c, n, 0 .. c.size)
    BY <1>1, <1>2, <1>3, <1>6, <2>3 DEF Underway
  <2> QED  BY <1>8, <2>1, <2>2, <2>3 DEF Underway
<1>10. ~d.done => /\ d.tested < c.size /\ d.tested <= 2 * c.size
                  /\ 2 * d.tested + (IF d.head + n > c.size THEN 0 ELSE 1) >= k + 1
  <2>1. ~d.done => d.tested < c.size
    BY <1>1, <1>2, <1>3, <1>4, <1>6, <1>7
  <2>2. d.tested >= s.tested + 1
    BY <1>2, <1>3, <1>6
  <2>3. 2 * d.tested >= k + 1
    BY <1>2, <1>7, <2>2
  <2>4. (IF d.head + n > c.size THEN 0 ELSE 1) \in {0, 1}
    OBVIOUS
  <2> QED  BY <1>1, <1>7, <2>1, <2>3, <2>4
<1>11. d.done \in BOOLEAN /\ d.found \in BOOLEAN /\ ~d.found /\ (d.done => d.tested >= c.size)
  BY <1>4, <1>6
<1>12. DOMAIN d = {"head", "tested", "done", "found"}
  BY <1>6
<1> QED  BY <1>7, <1>9, <1>10, <1>11, <1>12 DEF SearchInv

\* One round keeps the invariant of the search.
LEMMA SearchSteps ==
    ASSUME NEW c, IsCache(c), NEW n \in Nat, n <= c.size, NEW k \in Nat,
           NEW s, SearchInv(c, n, s, k)
    PROVE  SearchInv(c, n, SearchRound(c, n, s), k + 1)
<1> SUFFICES ASSUME NEW d, d = SearchRound(c, n, s) PROVE SearchInv(c, n, d, k + 1)
  OBVIOUS
<1>1. c.size \in Nat /\ s.head \in 0 .. c.size /\ s.done \in BOOLEAN
  BY DEF IsCache, SearchInv
<1>2. CASE s.done
  <2>1. d = s
    BY <1>2 DEF SearchRound
  <2> QED  BY <1>2, <2>1 DEF SearchInv
<1>3. CASE ~s.done /\ s.head + n > c.size
  <2>1. d = [s EXCEPT !.head = 0, !.tested = @ + c.size - s.head]
    BY <1>3 DEF SearchRound
  <2> QED  BY <1>3, <2>1, SearchWraps
<1>4. CASE ~s.done /\ ~(s.head + n > c.size) /\ Busy(c, n, s.head) = {}
  <2>1. d = [s EXCEPT !.done = TRUE, !.found = TRUE]
    BY <1>4 DEF SearchRound
  <2>2. DOMAIN s = {"head", "tested", "done", "found"} /\ s.tested \in Nat
    BY DEF SearchInv
  <2>3. /\ DOMAIN d = {"head", "tested", "done", "found"} /\ d.head = s.head
        /\ d.tested = s.tested /\ d.done = TRUE /\ d.found = TRUE
    BY <2>1, <2>2
  <2>4. d.head + n <= c.size /\ d.head \in 0 .. c.size /\ Busy(c, n, d.head) = {}
    BY <1>1, <1>4, <2>3
  <2>5. d.done \in BOOLEAN /\ d.found \in BOOLEAN /\ d.done /\ d.found /\ d.tested \in Nat
    BY <2>2, <2>3
  <2> QED  BY <2>3, <2>4, <2>5 DEF SearchInv
<1>5. CASE ~s.done /\ ~(s.head + n > c.size) /\ Busy(c, n, s.head) # {}
  <2>1. PICK skip : skip = Min(Busy(c, n, s.head)) + 1
    OBVIOUS
  <2>2. d = [s EXCEPT !.head = @ + skip, !.tested = @ + skip,
                      !.done = s.tested + skip >= c.size]
    BY <1>5, <2>1 DEF SearchRound
  <2>3. s.head + n <= c.size
    BY <1>1, <1>5
  <2> QED  BY <1>5, <2>1, <2>2, <2>3, SearchSkips
<1> QED  BY <1>1, <1>2, <1>3, <1>4, <1>5

\* What the search returns: n free cells in a row, or the answer that there are
\* none.
LEMMA FindSlot ==
    ASSUME NEW c, IsCache(c), NEW n \in Nat, NEW s, s = find_slot(c, n)
    PROVE  /\ s.head \in 0 .. c.size /\ s.found \in BOOLEAN
           /\ s.found => s.head + n <= c.size /\ Busy(c, n, s.head) = {}
           /\ ~s.found => NoneFree(c, n, 0 .. c.size)
<1> DEFINE f == Search(c, n)
           M == MaxRounds(c)
<1>1. c.size \in Nat /\ c.size # 0 /\ c.head \in 0 .. c.size
  BY DEF IsCache
<1>2. /\ M \in Nat /\ f[0] = StartSearch(c, n)
      /\ \A k \in 0 .. M : k # 0 => f[k] = SearchRound(c, n, f[k - 1])
  BY <1>1, SearchRecursion
<1>3. s = f[M]
  BY DEF find_slot
<1>4. M = 4 * c.size + 2
  BY DEF MaxRounds
<1> HIDE DEF f, M
<1>5. CASE n <= c.size
  <2> DEFINE Bad == {k \in 0 .. M : ~SearchInv(c, n, f[k], k)}
  <2>1. Bad = {}
    <3>1. SUFFICES ASSUME Bad # {} PROVE FALSE
      OBVIOUS
    <3>2. PICK m \in Bad : \A x \in Bad : m <= x
      <4>1. Bad \in SUBSET Nat
        BY <1>2
      <4> HIDE DEF Bad
      <4> QED  BY <3>1, <4>1, HasLeast
    <3>3. m # 0
      BY <1>2, <1>5, <3>2, SearchStarts
    <3>4. PICK j \in Nat : j = m - 1 /\ j \in 0 .. M /\ m = j + 1
      BY <1>2, <3>2, <3>3
    <3>5. SearchInv(c, n, f[j], j)
      BY <3>2, <3>4
    <3>6. f[m] = SearchRound(c, n, f[j])
      BY <1>2, <3>2, <3>3, <3>4
    <3>7. SearchInv(c, n, f[m], j + 1)
      BY <1>5, <3>5, <3>6, SearchSteps
    <3> QED  BY <3>2, <3>4, <3>7
  <2>2. M \in 0 .. M
    BY <1>2
  <2>3. SearchInv(c, n, s, M)
    BY <1>3, <2>1, <2>2
  <2>4. s.done
    <3>1. SUFFICES ASSUME ~s.done PROVE FALSE
      OBVIOUS
    <3>2. /\ s.tested \in Nat /\ s.tested <= 2 * c.size
          /\ 2 * s.tested + (IF s.head + n > c.size THEN 0 ELSE 1) >= M
      BY <2>3, <3>1 DEF SearchInv
    <3>3. (IF s.head + n > c.size THEN 0 ELSE 1) \in {0, 1}
      OBVIOUS
    <3>4. 2 * s.tested + 1 >= M
      BY <1>2, <3>2, <3>3
    <3> QED  BY <1>1, <1>4, <3>2, <3>4
  <2> QED  BY <2>3, <2>4 DEF SearchInv
<1>6. CASE ~(n <= c.size)
  <2> DEFINE r == [head |-> c.head, tested |-> 0, done |-> TRUE, found |-> FALSE]
             Bad == {k \in 0 .. M : f[k] # r}
  <2>1. StartSearch(c, n) = r
    <3>1. (n > c.size) = TRUE
      BY <1>1, <1>6
    <3> QED  BY <3>1, Zenon DEF StartSearch
  <2>2. SearchRound(c, n, r) = r
    <3>1. r.done
      OBVIOUS
    <3> HIDE DEF r
    <3> QED  BY <3>1 DEF SearchRound
  <2> HIDE DEF r
  <2>3. Bad = {}
    <3>1. SUFFICES ASSUME Bad # {} PROVE FALSE
      OBVIOUS
    <3>2. PICK m \in Bad : \A x \in Bad : m <= x
      <4>1. Bad \in SUBSET Nat
        BY <1>2
      <4> HIDE DEF Bad
      <4> QED  BY <3>1, <4>1, HasLeast
    <3>3. m # 0
      BY <1>2, <2>1, <3>2
    <3>4. PICK j \in Nat : j = m - 1 /\ j \in 0 .. M /\ m = j + 1
      BY <1>2, <3>2, <3>3
    <3>5. f[j] = r
      BY <3>2, <3>4
    <3>6. f[m] = SearchRound(c, n, f[j])
      BY <1>2, <3>2, <3>3, <3>4
    <3> QED  BY <2>2, <3>2, <3>5, <3>6
  <2>4. M \in 0 .. M
    BY <1>2
  <2>5. s = r
    BY <1>3, <2>3, <2>4
  <2>6. s.head \in 0 .. c.size /\ s.found = FALSE
    BY <1>1, <2>5 DEF r
  <2>7. \A h \in 0 .. c.size - n : FALSE
    BY <1>1, <1>6
  <2> QED  BY <2>6, <2>7 DEF NoneFree
<1> QED  BY <1>5, <1>6

-----------------------------------------------------------------------------
(* The defragmentation.                                                    *)

\* The holes and the cells that are to fill them are numbers, and as many.
LEMMA AsManyHoles ==
    ASSUME NEW c, Sound(c)
    PROVE  /\ c.used \in 0 .. c.size
           /\ Holes(c) \in SUBSET Nat /\ IsFiniteSet(Holes(c)) /\ Holes(c) \in SUBSET Cells(c)
           /\ Sources(c) \in SUBSET Nat /\ IsFiniteSet(Sources(c))
           /\ Sources(c) \in SUBSET Occupied(c) /\ Holes(c) \cap Occupied(c) = {}
           /\ Cardinality(Holes(c)) = Cardinality(Sources(c))
<1>1. c.size \in Nat /\ IsCache(c) /\ Occupied(c) \in SUBSET Cells(c)
  BY DEF Sound, IsCache, Occupied
<1>2. /\ c.used = Cardinality(Occupied(c)) /\ IsFiniteSet(Occupied(c))
      /\ c.used \in Nat /\ c.used <= c.size
  BY <1>1, OccupiedFinite DEF Sound
<1>3. PICK u \in Nat : u = c.used
  BY <1>2
<1> DEFINE low == 0 .. u - 1
           kept == {i \in low : c.cells[i].seq_id # {}}
<1>4. low \in SUBSET Cells(c)
  BY <1>1, <1>2, <1>3 DEF Cells
<1>5. IsFiniteSet(low) /\ Cardinality(low) = u
  <2>1. PICK m \in Int : m = u - 1
    OBVIOUS
  <2>2. IsFiniteSet(0 .. m) /\ Cardinality(0 .. m) = IF 0 > m THEN 0 ELSE m - 0 + 1
    BY 0 \in Int, FS_Interval
  <2>3. (IF 0 > m THEN 0 ELSE m - 0 + 1) = u
    BY <2>1
  <2> QED  BY <2>1, <2>2, <2>3
<1>6. Holes(c) = low \ kept /\ kept \in SUBSET low
  BY <1>3 DEF Holes, is_empty
<1>7. /\ Sources(c) = Occupied(c) \ kept /\ kept \in SUBSET Occupied(c)
      /\ Sources(c) \in SUBSET Cells(c)
  <2>1. ASSUME NEW i PROVE i \in Sources(c) <=> i \in Occupied(c) \ kept
    <3>1. i \in Sources(c) <=> i \in Int /\ u <= i /\ i < c.size /\ c.cells[i].seq_id # {}
      BY <1>1, <1>3 DEF Sources, is_empty
    <3>2. i \in Occupied(c) <=> i \in Int /\ 0 <= i /\ i < c.size /\ c.cells[i].seq_id # {}
      BY <1>1 DEF Occupied, Cells
    <3>3. i \in kept <=> i \in Int /\ 0 <= i /\ i < u /\ c.cells[i].seq_id # {}
      OBVIOUS
    <3> QED  BY <3>1, <3>2, <3>3
  <2>2. kept \in SUBSET Occupied(c)
    BY <1>4 DEF Occupied
  <2> QED  BY <1>1, <2>1, <2>2
<1>8. Holes(c) \cap Occupied(c) = {}
  BY DEF Holes, Occupied, is_empty
<1>9. Cells(c) \in SUBSET Nat
  BY <1>1 DEF Cells
<1>10. Cardinality(Holes(c)) = Cardinality(Sources(c))
  <2> HIDE DEF low, kept
  <2>1. low \cap kept = kept /\ Occupied(c) \cap kept = kept
    BY <1>6, <1>7
  <2>2. Cardinality(low \ kept) = Cardinality(low) - Cardinality(low \cap kept)
    BY <1>5, FS_Difference
  <2>3. Cardinality(Occupied(c) \ kept) = Cardinality(Occupied(c)) - Cardinality(Occupied(c) \cap kept)
    BY <1>2, FS_Difference
  <2> QED  BY <1>2, <1>3, <1>5, <1>6, <1>7, <2>1, <2>2, <2>3
<1>11. IsFiniteSet(Holes(c)) /\ IsFiniteSet(Sources(c))
  <2> HIDE DEF low, kept
  <2> QED  BY <1>1, <1>4, <1>6, <1>7, OccupiedFinite
<1>12. Holes(c) \in SUBSET Cells(c) /\ Sources(c) \in SUBSET Occupied(c)
  <2> HIDE DEF low, kept
  <2> QED  BY <1>4, <1>6, <1>7
<1>13. c.used \in 0 .. c.size
  BY <1>1, <1>2
<1> QED  BY <1>1, <1>7, <1>8, <1>9, <1>10, <1>11, <1>12, <1>13

\* Every hole is in a run of holes that ends on both sides.
LEMMA RunBounds ==
    ASSUME NEW c, Sound(c), NEW d \in Holes(c)
    PROVE  /\ RunStart(c, d) \in Holes(c) /\ RunStart(c, d) <= d
           /\ RunStart(c, d) .. d \subseteq Holes(c) /\ RunStart(c, d) - 1 \notin Holes(c)
           /\ RunEnd(c, d) \in Holes(c) /\ d <= RunEnd(c, d)
           /\ d .. RunEnd(c, d) \subseteq Holes(c) /\ RunEnd(c, d) + 1 \notin Holes(c)
<1>1. /\ c.used \in Nat /\ Holes(c) \in SUBSET Nat
      /\ \A i \in Holes(c) : i < c.used
  <2>1. c.used \in Nat
    BY AsManyHoles DEF Sound, IsCache
  <2> QED  BY <2>1, AsManyHoles DEF Holes
<1>2. \E a \in Holes(c) : a <= d /\ a .. d \subseteq Holes(c) /\ a - 1 \notin Holes(c)
  <2> DEFINE A == {a \in Holes(c) : a <= d /\ a .. d \subseteq Holes(c)}
  <2>1. A \in SUBSET Nat /\ A # {}
    <3>1. d \in A
      BY <1>1
    <3> QED  BY <1>1, <3>1
  <2>2. PICK a \in A : \A x \in A : a <= x
    <3> HIDE DEF A
    <3> QED  BY <2>1, HasLeast
  <2>3. a - 1 \notin Holes(c)
    <3>1. SUFFICES ASSUME a - 1 \in Holes(c) PROVE FALSE
      OBVIOUS
    <3>2. \A i \in a - 1 .. d : i = a - 1 \/ i \in a .. d
      BY <1>1, <2>2
    <3>3. a - 1 \in A
      BY <1>1, <2>2, <3>1, <3>2
    <3> QED  BY <1>1, <2>2, <3>3
  <2> QED  BY <2>2, <2>3
<1>3. \E b \in Holes(c) : d <= b /\ d .. b \subseteq Holes(c) /\ b + 1 \notin Holes(c)
  <2> DEFINE N == {n \in Nat : n > d /\ n \notin Holes(c)}
  <2>1. c.used \in N
    BY <1>1
  <2>2. PICK n \in N : \A x \in N : n <= x
    <3>1. N \in SUBSET Nat /\ N # {}
      BY <2>1
    <3> HIDE DEF N
    <3> QED  BY <3>1, HasLeast
  <2>3. PICK b \in Nat : b = n - 1 /\ b + 1 = n /\ d <= b
    BY <1>1, <2>2
  <2>4. ASSUME NEW i \in d .. b PROVE i \in Holes(c)
    <3>1. i = d \/ (i \in Nat /\ i > d /\ i < n)
      BY <1>1, <2>3
    <3>2. i \notin N
      BY <1>1, <2>2, <2>3
    <3> QED  BY <3>1, <3>2
  <2>5. b \in d .. b
    BY <1>1, <2>3
  <2> QED  BY <2>2, <2>3, <2>4, <2>5
<1>4. /\ RunStart(c, d) \in Holes(c) /\ RunStart(c, d) <= d
      /\ RunStart(c, d) .. d \subseteq Holes(c) /\ RunStart(c, d) - 1 \notin Holes(c)
  BY <1>2 DEF RunStart
<1>5. /\ RunEnd(c, d) \in Holes(c) /\ d <= RunEnd(c, d)
      /\ d .. RunEnd(c, d) \subseteq Holes(c) /\ RunEnd(c, d) + 1 \notin Holes(c)
  BY <1>3 DEF RunEnd
<1> QED  BY <1>4, <1>5

\* The holes that are filled before hole d: those of the runs before, and those
\* behind d in its run.
Before(c, d) == {h \in Holes(c) : h < RunStart(c, d)} \cup (d + 1 .. RunEnd(c, d))

\* SourceOf counts them.
LEMMA BeforeCount ==
    ASSUME NEW c, Sound(c), NEW d \in Holes(c)
    PROVE  /\ Before(c, d) \in SUBSET (Holes(c) \ {d}) /\ IsFiniteSet(Before(c, d))
           /\ Cardinality(Before(c, d))
                = Cardinality({h \in Holes(c) : h < RunStart(c, d)}) + RunEnd(c, d) - d
           /\ Cardinality(Before(c, d)) \in 0 .. Cardinality(Holes(c)) - 1
<1>1. Holes(c) \in SUBSET Nat /\ IsFiniteSet(Holes(c))
  BY AsManyHoles
<1>2. PICK a \in Nat : a = RunStart(c, d) /\ a \in Holes(c) /\ a <= d
  BY <1>1, RunBounds
<1>3. PICK b \in Nat : b = RunEnd(c, d) /\ b \in Holes(c) /\ d <= b /\ d .. b \subseteq Holes(c)
  BY <1>1, RunBounds
<1> DEFINE L == {h \in Holes(c) : h < a}
           R == d + 1 .. b
<1>4. /\ L \in SUBSET Holes(c) /\ R \in SUBSET Holes(c) /\ L \cap R = {}
      /\ d \notin L /\ d \notin R
  BY <1>1, <1>2, <1>3
<1>5. IsFiniteSet(L) /\ Cardinality(L) \in Nat
  BY <1>1, <1>4, FS_Subset, FS_CardinalityType
<1>6. IsFiniteSet(R) /\ Cardinality(R) = b - d
  <2>1. PICK e \in Int : e = d + 1
    BY <1>1
  <2>2. IsFiniteSet(e .. b) /\ Cardinality(e .. b) = IF e > b THEN 0 ELSE b - e + 1
    BY b \in Int, FS_Interval
  <2>3. (IF e > b THEN 0 ELSE b - e + 1) = b - d
    BY <1>1, <1>3, <2>1
  <2> QED  BY <2>1, <2>2, <2>3
<1> HIDE DEF L, R
<1>7. Before(c, d) = L \cup R
  BY <1>2, <1>3 DEF Before, L, R
<1>8. IsFiniteSet(L \cup R) /\ Cardinality(L \cup R) = Cardinality(L) + Cardinality(R)
  <2>1. /\ IsFiniteSet(L \cup R)
        /\ Cardinality(L \cup R) = Cardinality(L) + Cardinality(R) - Cardinality(L \cap R)
    BY <1>5, <1>6, FS_Union
  <2>2. Cardinality(L \cap R) = 0
    BY <1>4, FS_EmptySet
  <2> QED  BY <1>1, <1>3, <1>5, <1>6, <2>1, <2>2
<1>9. L \cup R \in SUBSET (Holes(c) \ {d})
  BY <1>4
<1>10. Cardinality(L \cup R) \in 0 .. Cardinality(Holes(c)) - 1
  <2>1. IsFiniteSet(Holes(c) \ {d}) /\ Cardinality(Holes(c) \ {d}) = Cardinality(Holes(c)) - 1
    BY <1>1, FS_RemoveElement
  <2>2. Cardinality(L \cup R) <= Cardinality(Holes(c) \ {d})
    BY <1>9, <2>1, FS_Subset
  <2>3. Cardinality(L \cup R) \in Nat /\ Cardinality(Holes(c)) \in Nat
    BY <1>1, <1>8, FS_CardinalityType
  <2> QED  BY <2>1, <2>2, <2>3
<1>11. Cardinality(L) + Cardinality(R)
         = Cardinality({h \in Holes(c) : h < RunStart(c, d)}) + RunEnd(c, d) - d
  <2>1. L = {h \in Holes(c) : h < RunStart(c, d)}
    BY <1>2 DEF L
  <2> QED  BY <1>1, <1>3, <1>5, <1>6, <2>1
<1> QED  BY <1>7, <1>8, <1>9, <1>10, <1>11

\* The holes are filled one after the other.
LEMMA FillOrder ==
    ASSUME NEW c, Sound(c), NEW d \in Holes(c), NEW e \in Holes(c), d < e
    PROVE  \/ Before(c, e) \cup {e} \subseteq Before(c, d)
           \/ Before(c, d) \cup {d} \subseteq Before(c, e)
<1>1. Holes(c) \in SUBSET Nat
  BY AsManyHoles
<1>2. PICK a \in Nat, b \in Nat :
        /\ a = RunStart(c, d) /\ b = RunEnd(c, d) /\ a <= d /\ d <= b
        /\ a .. d \subseteq Holes(c) /\ d .. b \subseteq Holes(c)
        /\ a - 1 \notin Holes(c) /\ b + 1 \notin Holes(c)
  BY <1>1, RunBounds
<1>3. PICK p \in Nat, q \in Nat :
        /\ p = RunStart(c, e) /\ q = RunEnd(c, e) /\ p <= e /\ e <= q
        /\ p .. e \subseteq Holes(c) /\ e .. q \subseteq Holes(c)
        /\ p - 1 \notin Holes(c) /\ q + 1 \notin Holes(c)
  BY <1>1, RunBounds
<1>4. d \in Nat /\ e \in Nat
  BY <1>1
<1>5. /\ Before(c, d) = {h \in Holes(c) : h < a} \cup (d + 1 .. b)
      /\ Before(c, e) = {h \in Holes(c) : h < p} \cup (e + 1 .. q)
  BY <1>2, <1>3 DEF Before
<1>6. CASE e <= b
  <2>1. p <= a
    <3>1. SUFFICES ASSUME p > a PROVE FALSE
      BY <1>2, <1>3
    <3>2. p - 1 \in a .. d \/ p - 1 \in d .. b
      BY <1>2, <1>3, <1>4, <1>6, <3>1
    <3> QED  BY <1>2, <1>3, <3>2
  <2>2. q <= b
    <3>1. SUFFICES ASSUME q > b PROVE FALSE
      BY <1>2, <1>3
    <3>2. b + 1 \in e .. q
      BY <1>2, <1>3, <1>4, <1>6, <3>1
    <3> QED  BY <1>2, <1>3, <3>2
  <2>3. ASSUME NEW x \in Before(c, e) \cup {e} PROVE x \in Before(c, d)
    <3>1. CASE x \in Holes(c) /\ x < p
      BY <1>1, <1>2, <1>3, <1>5, <2>1, <3>1
    <3>2. CASE x \in e + 1 .. q \/ x = e
      <4>1. x \in d + 1 .. b
        BY <1>2, <1>3, <1>4, <1>6, <2>2, <3>2
      <4> QED  BY <1>5, <4>1
    <3> QED  BY <1>5, <3>1, <3>2
  <2> QED  BY <2>3
<1>7. CASE e > b
  <2>1. p > b
    <3>1. SUFFICES ASSUME p <= b PROVE FALSE
      BY <1>2, <1>3
    <3>2. b + 1 \in p .. e
      BY <1>2, <1>3, <1>4, <1>7, <3>1
    <3> QED  BY <1>2, <1>3, <3>2
  <2>2. ASSUME NEW x \in Before(c, d) \cup {d} PROVE x \in Before(c, e)
    <3>1. x \in Holes(c) /\ x < p
      <4>1. CASE x \in Holes(c) /\ x < a
        BY <1>1, <1>2, <1>3, <2>1, <4>1
      <4>2. CASE x \in d + 1 .. b \/ x = d
        <5>1. x \in d .. b
          BY <1>2, <1>4, <4>2
        <5> QED  BY <1>2, <1>3, <1>4, <2>1, <5>1
      <4> QED  BY <1>5, <4>1, <4>2
    <3> QED  BY <1>5, <3>1
  <2> QED  BY <2>2
<1> QED  BY <1>2, <1>4, <1>6, <1>7

\* No two holes have as many before them.
LEMMA BeforeDistinct ==
    ASSUME NEW c, Sound(c), NEW d \in Holes(c), NEW e \in Holes(c), d < e
    PROVE  Cardinality(Before(c, d)) # Cardinality(Before(c, e))
<1>1. /\ IsFiniteSet(Before(c, d)) /\ IsFiniteSet(Before(c, e))
      /\ d \notin Before(c, d) /\ e \notin Before(c, e)
  BY BeforeCount
<1>2. ASSUME NEW A, NEW B, NEW x, IsFiniteSet(A), IsFiniteSet(B), x \notin A, A \cup {x} \subseteq B
      PROVE  Cardinality(A) # Cardinality(B)
  <2>1. IsFiniteSet(A \cup {x}) /\ Cardinality(A \cup {x}) = Cardinality(A) + 1
    BY <1>2, FS_AddElement
  <2>2. Cardinality(A \cup {x}) <= Cardinality(B)
    BY <1>2, <2>1, FS_Subset
  <2>3. Cardinality(A) \in Nat /\ Cardinality(B) \in Nat
    BY <1>2, FS_CardinalityType
  <2> QED  BY <2>1, <2>2, <2>3
<1> QED  BY <1>1, <1>2, FillOrder

\* In a finite set of numbers there is one with k above it, for every k less
\* than the size of the set.
LEMMA RankFromAbove ==
    ASSUME NEW S \in SUBSET Nat, IsFiniteSet(S), NEW k \in 0 .. Cardinality(S) - 1
    PROVE  \E s \in S : Cardinality({x \in S : x > s}) = k
<1>1. PICK N \in Nat : N = Cardinality(S)
  BY FS_CardinalityType
<1> DEFINE above(s) == {x \in S : x > s}
           T == 0 .. N - 1
           f == [s \in S |-> Cardinality(above(s))]
<1>2. ASSUME NEW s \in S
      PROVE  IsFiniteSet(above(s)) /\ Cardinality(above(s)) \in T
  <2>1. above(s) \in SUBSET (S \ {s})
    OBVIOUS
  <2> HIDE DEF above
  <2>2. IsFiniteSet(S \ {s}) /\ Cardinality(S \ {s}) = N - 1
    BY <1>1, FS_RemoveElement
  <2>3. IsFiniteSet(above(s)) /\ Cardinality(above(s)) <= N - 1 /\ Cardinality(above(s)) \in Nat
    BY <2>1, <2>2, FS_Subset, FS_CardinalityType
  <2> QED  BY <1>1, <2>3
<1>3. ASSUME NEW s \in S, NEW t \in S, s < t PROVE Cardinality(above(s)) # Cardinality(above(t))
  <2>1. above(t) \cup {t} \in SUBSET above(s) /\ t \notin above(t)
    <3>1. s \in Nat /\ t \in Nat /\ ~(t > t) /\ t > s
      BY <1>3
    <3>2. \A x \in S : x > t => x > s
      BY <1>3, <3>1
    <3> QED  BY <3>1, <3>2
  <2>2. IsFiniteSet(above(s)) /\ IsFiniteSet(above(t))
    BY <1>2
  <2> HIDE DEF above
  <2>3. IsFiniteSet(above(t) \cup {t}) /\ Cardinality(above(t) \cup {t}) = Cardinality(above(t)) + 1
    BY <2>1, <2>2, FS_AddElement
  <2>4. Cardinality(above(t) \cup {t}) <= Cardinality(above(s))
    BY <2>1, <2>2, FS_Subset
  <2>5. Cardinality(above(t)) \in Nat /\ Cardinality(above(s)) \in Nat
    BY <2>2, FS_CardinalityType
  <2> QED  BY <2>3, <2>4, <2>5
<1> HIDE DEF above
<1>4. ASSUME NEW s \in S, NEW t \in S, s # t PROVE Cardinality(above(s)) # Cardinality(above(t))
  <2>1. s < t \/ t < s
    BY <1>4
  <2> QED  BY <1>3, <2>1
<1>5. f \in Injection(S, T)
  <2>1. f \in [S -> T] /\ \A s \in S : f[s] = Cardinality(above(s))
    BY <1>2
  <2>2. \A s \in S, t \in S : f[s] = f[t] => s = t
    BY <1>4, <2>1
  <2> HIDE DEF f, T
  <2> QED  BY <2>1, <2>2 DEF Injection, IsInjective
<1>6. IsFiniteSet(T) /\ Cardinality(T) = N
  <2>1. PICK m \in Int : m = N - 1
    OBVIOUS
  <2>2. IsFiniteSet(0 .. m) /\ Cardinality(0 .. m) = IF 0 > m THEN 0 ELSE m - 0 + 1
    BY 0 \in Int, FS_Interval
  <2>3. (IF 0 > m THEN 0 ELSE m - 0 + 1) = N
    BY <2>1
  <2> QED  BY <2>1, <2>2, <2>3
<1>7. k \in T
  BY <1>1
<1>8. f \in Surjection(S, T)
  <2> HIDE DEF f, T
  <2> QED  BY <1>1, <1>5, <1>6, FS_Injection
<1>9. PICK s \in S : f[s] = k
  BY <1>7, <1>8 DEF Surjection
<1> QED  BY <1>9 DEF above

\* Every hole has its own cell to be filled from.
LEMMA SourceDistinct ==
    ASSUME NEW c, Sound(c)
    PROVE  /\ \A d \in Holes(c) : SourceOf(c, d) \in Sources(c)
           /\ \A d, e \in Holes(c) : SourceOf(c, d) = SourceOf(c, e) => d = e
<1> DEFINE above(s) == {x \in Sources(c) : x > s}
<1>1. ASSUME NEW d \in Holes(c)
      PROVE  /\ SourceOf(c, d) \in Sources(c)
             /\ Cardinality(above(SourceOf(c, d))) = Cardinality(Before(c, d))
  <2>1. PICK k : /\ k = Cardinality(Before(c, d))
                 /\ k = Cardinality({h \in Holes(c) : h < RunStart(c, d)}) + RunEnd(c, d) - d
                 /\ k \in 0 .. Cardinality(Sources(c)) - 1
    BY BeforeCount, AsManyHoles
  <2>2. \E s \in Sources(c) : Cardinality(above(s)) = k
    BY <2>1, AsManyHoles, RankFromAbove
  <2>3. SourceOf(c, d) = CHOOSE s \in Sources(c) : Cardinality(above(s)) = k
    BY <2>1 DEF SourceOf
  <2> HIDE DEF above
  <2> QED  BY <2>1, <2>2, <2>3
<1> HIDE DEF above
<1>2. ASSUME NEW d \in Holes(c), NEW e \in Holes(c), SourceOf(c, d) = SourceOf(c, e)
      PROVE  d = e
  <2>1. Cardinality(Before(c, d)) = Cardinality(Before(c, e))
    BY <1>1, <1>2
  <2>2. d \in Nat /\ e \in Nat
    BY AsManyHoles
  <2>3. ~(d < e) /\ ~(e < d)
    BY <2>1, BeforeDistinct
  <2> QED  BY <2>2, <2>3
<1> QED  BY <1>1, <1>2

\* The defragmentation, field by field.
Emptying(c) == {SourceOf(c, d) : d \in Filled(c)}

\* d is c with the filled holes given the cells that are emptied.
MovedIn(c, d) ==
    /\ DOMAIN d = DOMAIN c /\ d.size = c.size /\ d.has_shift = c.has_shift
    /\ d.do_defrag = FALSE /\ d.used = c.used /\ d.head \in 0 .. c.size
    /\ DOMAIN d.cells = Cells(c) /\ d.cells = [i \in Cells(c) |-> d.cells[i]]
    /\ \A i \in Filled(c) : d.cells[i] = c.cells[SourceOf(c, i)]
    /\ \A i \in Cells(c) : i \notin Filled(c) =>
          d.cells[i] = IF i \in Emptying(c) THEN NewCell ELSE c.cells[i]

\* What the defragmentation does when it is requested.
LEMMA DefraggedCells ==
    ASSUME NEW c, Sound(c), c.do_defrag = TRUE
    PROVE  MovedIn(c, Defragged(c))
<1> SUFFICES ASSUME NEW d, d = Defragged(c) PROVE MovedIn(c, d)
  OBVIOUS
<1> DEFINE filled == Filled(c)
           from   == [h \in filled |-> SourceOf(c, h)]
           first  == IF filled = {} THEN c.head ELSE c.used
           cells  == [i \in Cells(c) |-> IF i \in filled THEN c.cells[from[i]]
                                         ELSE IF \E h \in filled : from[h] = i THEN NewCell
                                         ELSE c.cells[i]]
<1>1. d = [c EXCEPT !.do_defrag = FALSE, !.head = first, !.cells = cells]
  BY DEF Defragged
<1>2. filled \in SUBSET Cells(c)
  BY AsManyHoles DEF Filled
<1>3. first \in 0 .. c.size
  BY AsManyHoles DEF Sound, IsCache
<1>4. \A i \in filled : cells[i] = c.cells[SourceOf(c, i)]
  BY <1>2
<1>5. ASSUME NEW i \in Cells(c), i \notin filled
      PROVE  cells[i] = IF i \in Emptying(c) THEN NewCell ELSE c.cells[i]
  <2>1. (\E h \in filled : from[h] = i) <=> i \in Emptying(c)
    BY DEF Emptying
  <2> QED  BY <1>5, <2>1
<1>6. DOMAIN cells = Cells(c) /\ cells = [i \in Cells(c) |-> cells[i]]
  OBVIOUS
<1> HIDE DEF cells, from, first, filled
<1>7. /\ DOMAIN d = DOMAIN c /\ d.size = c.size /\ d.has_shift = c.has_shift
      /\ d.do_defrag = FALSE /\ d.used = c.used /\ d.head = first /\ d.cells = cells
  BY <1>1 DEF Sound, IsCache
<1> QED  BY <1>3, <1>4, <1>5, <1>6, <1>7 DEF filled, MovedIn

\* The defragmentation keeps the cache sound: no cell is lost.
LEMMA DefraggedSound ==
    ASSUME NEW c, Sound(c)
    PROVE  /\ Sound(Defragged(c)) /\ Defragged(c).size = c.size
           /\ Defragged(c).has_shift = c.has_shift
<1> SUFFICES ASSUME NEW d, d = Defragged(c)
             PROVE  Sound(d) /\ d.size = c.size /\ d.has_shift = c.has_shift
  OBVIOUS
<1>1. c.do_defrag \in BOOLEAN /\ IsCache(c) /\ Occupied(c) \in SUBSET Cells(c)
  BY DEF Sound, IsCache, Occupied
<1>2. CASE ~c.do_defrag
  BY <1>2 DEF Defragged
<1>3. CASE c.do_defrag = TRUE
  <2> DEFINE filled == Filled(c)
             moved  == Emptying(c)
  <2>1. /\ DOMAIN d = DOMAIN c /\ d.size = c.size /\ d.has_shift = c.has_shift
        /\ d.do_defrag = FALSE /\ d.used = c.used /\ d.head \in 0 .. c.size
        /\ DOMAIN d.cells = Cells(c) /\ d.cells = [i \in Cells(c) |-> d.cells[i]]
        /\ \A i \in filled : d.cells[i] = c.cells[SourceOf(c, i)]
        /\ \A i \in Cells(c) : i \notin filled =>
              d.cells[i] = IF i \in moved THEN NewCell ELSE c.cells[i]
    <3>1. MovedIn(c, d)
      BY <1>3, DefraggedCells
    <3> QED  BY <3>1 DEF MovedIn
  <2>2. filled \in SUBSET Holes(c)
    BY DEF Filled
  <2>3. /\ filled \in SUBSET Cells(c) /\ filled \cap Occupied(c) = {}
        /\ moved \in SUBSET Occupied(c)
        /\ \A i \in filled : SourceOf(c, i) \in Occupied(c) /\ SourceOf(c, i) \in Cells(c)
    BY <1>1, <2>2, AsManyHoles, SourceDistinct DEF Emptying
  <2>4. Cardinality(filled) = Cardinality(moved) /\ IsFiniteSet(filled) /\ IsFiniteSet(moved)
    <3> DEFINE f == [h \in filled |-> SourceOf(c, h)]
    <3>1. \A h \in filled : f[h] = SourceOf(c, h) /\ f[h] \in moved
      BY DEF Emptying
    <3>2. \A m \in moved : \E h \in filled : f[h] = m
      BY DEF Emptying
    <3>3. \A g, h \in filled : f[g] = f[h] => g = h
      BY <2>2, SourceDistinct
    <3>4. f \in [filled -> moved]
      BY <3>1
    <3>5. IsFiniteSet(filled) /\ IsFiniteSet(moved)
      BY <1>1, <2>3, OccupiedFinite
    <3> HIDE DEF f, filled, moved
    <3>6. f \in Injection(filled, moved) /\ f \in Surjection(filled, moved)
      BY <3>2, <3>3, <3>4 DEF Injection, IsInjective, Surjection
    <3> QED  BY <3>5, <3>6, FS_Injection
  <2> HIDE DEF filled, moved
  <2>5. ASSUME NEW i \in Cells(c)
        PROVE  /\ CellOK(d.cells[i])
               /\ ~c.has_shift => d.cells[i].delta = 0
               /\ d.cells[i].seq_id # {} <=> i \in (Occupied(c) \ moved) \cup filled
    <3>1. \A j \in Cells(c) : CellOK(c.cells[j]) /\ (~c.has_shift => c.cells[j].delta = 0)
      BY DEF Sound
    <3>2. CASE i \in filled
      <4>1. PICK j \in Cells(c) : j = SourceOf(c, i) /\ j \in Occupied(c)
        BY <2>3, <3>2
      <4>2. d.cells[i] = c.cells[j] /\ c.cells[j].seq_id # {}
        BY <2>1, <3>2, <4>1 DEF Occupied
      <4> QED  BY <3>1, <3>2, <4>2
    <3>3. CASE i \notin filled /\ i \in moved
      <4>1. d.cells[i] = NewCell /\ c.cells[i] \in Cell
        BY <2>1, <3>1, <3>3 DEF CellOK
      <4> QED  BY <3>3, <4>1, EmptiedCell
    <3>4. CASE i \notin filled /\ i \notin moved
      <4>1. d.cells[i] = c.cells[i]
        BY <2>1, <3>4
      <4> QED  BY <3>1, <3>4, <4>1 DEF Occupied
    <3> QED  BY <3>2, <3>3, <3>4
  <2>6. {i \in Cells(c) : d.cells[i].seq_id # {}} = (Occupied(c) \ moved) \cup filled
    BY <1>1, <2>3, <2>5
  <2>7. Cardinality((Occupied(c) \ moved) \cup filled) = Cardinality(Occupied(c))
    <3>1. IsFiniteSet(Occupied(c)) /\ Occupied(c) \cap moved = moved
      BY <1>1, <2>3, OccupiedFinite
    <3>2. /\ IsFiniteSet(Occupied(c) \ moved)
          /\ Cardinality(Occupied(c) \ moved) = Cardinality(Occupied(c)) - Cardinality(moved)
      BY <3>1, FS_Difference
    <3>3. (Occupied(c) \ moved) \cap filled = {}
      BY <2>3
    <3>4. Cardinality((Occupied(c) \ moved) \cup filled)
            = Cardinality(Occupied(c) \ moved) + Cardinality(filled)
                - Cardinality((Occupied(c) \ moved) \cap filled)
      BY <2>4, <3>2, FS_Union
    <3>5. Cardinality((Occupied(c) \ moved) \cap filled) = 0
      BY <3>3, FS_EmptySet
    <3>6. Cardinality(Occupied(c)) \in Nat /\ Cardinality(moved) \in Nat
      BY <2>4, <3>1, FS_CardinalityType
    <3> QED  BY <2>4, <3>2, <3>4, <3>5, <3>6
  <2>8. d.used = Cardinality({i \in Cells(c) : d.cells[i].seq_id # {}})
    BY <2>1, <2>6, <2>7 DEF Sound
  <2>9. /\ d.has_shift \in BOOLEAN /\ d.do_defrag \in BOOLEAN
        /\ ~d.has_shift => \A i \in Cells(c) : d.cells[i].delta = 0
    BY <2>1, <2>5 DEF Sound, IsCache
  <2>10. Sound(d)
    BY <2>1, <2>5, <2>8, <2>9, Rebuilt
  <2> QED  BY <2>1, <2>10
<1> QED  BY <1>1, <1>2, <1>3

-----------------------------------------------------------------------------
(* llama_decode.                                                           *)

\* The cells decide whether a cache is sound, not head or a request for a
\* defragmentation.
LEMMA SameCells ==
    ASSUME NEW c, Sound(c), NEW d, DOMAIN d = DOMAIN c, d.size = c.size, d.cells = c.cells,
           d.head \in 0 .. c.size, d.used = c.used, d.has_shift = c.has_shift,
           d.do_defrag \in BOOLEAN
    PROVE  Sound(d)
<1>1. /\ DOMAIN c.cells = Cells(c) /\ c.cells = [i \in Cells(c) |-> c.cells[i]]
      /\ c.has_shift \in BOOLEAN
      /\ \A i \in Cells(c) : CellOK(c.cells[i])
      /\ ~c.has_shift => \A i \in Cells(c) : c.cells[i].delta = 0
  BY DEF Sound, IsCache
<1> QED  BY <1>1, SameCount

\* head is set.
LEMMA Reheaded ==
    ASSUME NEW c, Sound(c), NEW h \in 0 .. c.size
    PROVE  /\ Sound([c EXCEPT !.head = h]) /\ [c EXCEPT !.head = h].size = c.size
           /\ [c EXCEPT !.head = h].has_shift = c.has_shift
           /\ [c EXCEPT !.head = h].cells = c.cells
<1>1. PICK d : d = [c EXCEPT !.head = h]
  OBVIOUS
<1>2. /\ DOMAIN d = DOMAIN c /\ d.size = c.size /\ d.cells = c.cells /\ d.head = h
      /\ d.used = c.used /\ d.has_shift = c.has_shift /\ d.do_defrag = c.do_defrag
      /\ c.do_defrag \in BOOLEAN
  BY <1>1 DEF Sound, IsCache
<1>3. Sound(d)
  BY <1>2, SameCells
<1> QED  BY <1>1, <1>2, <1>3

\* head and the request are set.
LEMMA Requested ==
    ASSUME NEW c, Sound(c), NEW h \in 0 .. c.size, NEW b \in BOOLEAN
    PROVE  /\ Sound([c EXCEPT !.head = h, !.do_defrag = b])
           /\ [c EXCEPT !.head = h, !.do_defrag = b].size = c.size
           /\ [c EXCEPT !.head = h, !.do_defrag = b].cells = c.cells
<1>1. PICK d : d = [c EXCEPT !.head = h, !.do_defrag = b]
  OBVIOUS
<1>2. /\ DOMAIN d = DOMAIN c /\ d.size = c.size /\ d.cells = c.cells /\ d.head = h
      /\ d.used = c.used /\ d.has_shift = c.has_shift /\ d.do_defrag = b
  BY <1>1 DEF Sound, IsCache
<1>3. Sound(d)
  BY <1>2, SameCells
<1> QED  BY <1>1, <1>2, <1>3

\* llama_kv_cache_update leaves no rotation pending.
LEMMA UpdatedSound ==
    ASSUME NEW c, Sound(c)
    PROVE  Sound(update(c)) /\ update(c).size = c.size /\ ~update(c).has_shift
<1>1. PICK d : d = Shifted(c)
  OBVIOUS
<1>2. Sound(d) /\ d.size = c.size /\ ~d.has_shift
  BY <1>1, ShiftedSound
<1>3. update(c) = Defragged(d)
  BY <1>1 DEF update
<1> QED  BY <1>2, <1>3, DefraggedSound

\* The cells a search hands out are free.
LEMMA FoundFree ==
    ASSUME NEW c, Sound(c), NEW n \in Nat, NEW h \in 0 .. c.size, h + n <= c.size
    PROVE  Busy(c, n, h) = {} <=> \A i \in h .. h + n - 1 : c.cells[i].seq_id = {}
<1>1. c.size \in Nat
  BY DEF Sound, IsCache
<1>2. \A i \in h .. h + n - 1 : i \in Cells(c)
  BY <1>1 DEF Cells
<1>3. \A i \in h .. h + n - 1 : c.cells[i].pos >= 0 <=> c.cells[i].seq_id # {}
  BY <1>2 DEF Sound, CellOK
<1>4. ASSUME Busy(c, n, h) = {}, NEW i \in h .. h + n - 1 PROVE c.cells[i].seq_id = {}
  <2>1. PICK j \in 0 .. n - 1 : h + j = i
    <3>1. i - h \in 0 .. n - 1 /\ h + (i - h) = i
      OBVIOUS
    <3> QED  BY <3>1
  <2>2. ~(c.cells[h + j].pos >= 0)
    BY <1>4 DEF Busy
  <2> QED  BY <1>3, <2>1, <2>2
<1>5. ASSUME \A i \in h .. h + n - 1 : c.cells[i].seq_id = {} PROVE Busy(c, n, h) = {}
  <2>1. ASSUME NEW j \in 0 .. n - 1 PROVE ~(c.cells[h + j].pos >= 0)
    <3>1. h + j \in h .. h + n - 1
      OBVIOUS
    <3> QED  BY <1>3, <1>5, <3>1
  <2> QED  BY <2>1 DEF Busy
<1> QED  BY <1>4, <1>5

\* A finite set of numbers has a greatest one.
LEMMA GreatestOf ==
    ASSUME NEW S \in SUBSET Nat, IsFiniteSet(S), S # {}
    PROVE  Max(S) \in S /\ \A x \in S : Max(S) >= x
<1>1. Cardinality(S) \in Nat /\ Cardinality(S) # 0
  BY FS_CardinalityType, FS_EmptySet
<1>2. 0 \in 0 .. Cardinality(S) - 1
  BY <1>1
<1>3. PICK s \in S : Cardinality({x \in S : x > s}) = 0
  BY <1>2, RankFromAbove
<1>4. {x \in S : x > s} = {}
  <2>1. IsFiniteSet({x \in S : x > s})
    BY FS_Subset
  <2> QED  BY <1>3, <2>1, FS_EmptySet
<1>5. \A x \in S : s >= x
  BY <1>4
<1> QED  BY <1>5 DEF Max

\* A batch starts at a position.
LEMMA AppendPosition ==
    ASSUME Sound(kv), NEW S \in SUBSET SeqId
    PROVE  AppendPos(S) \in Nat
<1> DEFINE J == {j \in Cells(kv) : kv.cells[j].seq_id \cap S # {}}
           P == {kv.cells[i].pos : i \in J}
           f == [i \in J |-> kv.cells[i].pos]
<1>1. J \in SUBSET Cells(kv) /\ \A i \in J : kv.cells[i].pos \in Nat
  <2>1. \A i \in J : CellOK(kv.cells[i]) /\ kv.cells[i].seq_id # {}
    BY DEF Sound
  <2> QED  BY <2>1 DEF CellOK, Cell
<1>2. IsFiniteSet(J)
  BY <1>1, OccupiedFinite DEF Sound
<1>3. P \in SUBSET Nat
  BY <1>1
<1>4. f \in Surjection(J, P)
  <2>1. f \in [J -> P] /\ \A p \in P : \E i \in J : f[i] = p
    OBVIOUS
  <2> HIDE DEF f, J, P
  <2> QED  BY <2>1 DEF Surjection
<1>5. AppendPos(S) = IF P = {} THEN 0 ELSE Max(P) + 1
  BY DEF AppendPos
<1> HIDE DEF f, J, P
<1>6. IsFiniteSet(P)
  BY <1>2, <1>4, FS_Surjection
<1>7. P # {} => Max(P) \in Nat
  BY <1>3, <1>6, GreatestOf
<1> QED  BY <1>5, <1>7

\* The batch in progress.
IsBatch(b, size) ==
    /\ b \in Batches
    /\ b.seqs \in SUBSET SeqId /\ b.seqs # {}
    /\ b.pos \in Nat /\ b.left \in Nat \ {0} /\ b.head \in 0 .. size

CacheInv ==
    /\ Sound(kv) /\ next \in Nat
    /\ batch = None \/ IsBatch(batch, kv.size)

\* A piece is not empty and not more than what is left.
LEMMA PieceSize ==
    ASSUME IsBatch(batch, kv.size)
    PROVE  Piece \in 1 .. batch.left
<1>1. batch.left \in Nat \ {0} /\ UBatch \in Nat \ {0}
  BY SizeAssumption DEF IsBatch
<1>2. PICK S : S = {UBatch, batch.left}
  OBVIOUS
<1>3. S \in SUBSET Nat /\ S # {} /\ batch.left \in S
  BY <1>1, <1>2
<1>4. Min(S) \in S /\ Min(S) <= batch.left
  BY <1>3, LeastOf
<1> QED  BY <1>1, <1>2, <1>4 DEF Piece

\* The cache is sound and fully rotated when a piece is placed.
LEMMA PreparedSound ==
    ASSUME Sound(kv)
    PROVE  Sound(Prepared) /\ Prepared.size = kv.size /\ ~Prepared.has_shift
<1>1. PICK c : c = update(kv)
  OBVIOUS
<1>2. Sound(c) /\ c.size = kv.size /\ ~c.has_shift
  BY <1>1, UpdatedSound
<1>3. 0 \in 0 .. c.size
  BY <1>2 DEF Sound, IsCache
<1>4. Prepared = c \/ Prepared = [c EXCEPT !.head = 0]
  BY <1>1 DEF Prepared
<1> QED  BY <1>2, <1>3, <1>4, Reheaded

\* Where a piece is placed.
LEMMA SlotSound ==
    ASSUME CacheInv, ~Idle
    PROVE  /\ IsBatch(batch, kv.size) /\ Piece \in 1 .. batch.left /\ Piece \in Nat
           /\ Slot.head \in 0 .. kv.size /\ Slot.found \in BOOLEAN
           /\ Slot.found => /\ Slot.head + Piece <= kv.size
                            /\ \A i \in Slot.head .. Slot.head + Piece - 1 :
                                  Prepared.cells[i].seq_id = {}
<1>1. IsBatch(batch, kv.size)
  BY DEF CacheInv, Idle
<1>2. Piece \in 1 .. batch.left /\ Piece \in Nat
  BY <1>1, PieceSize DEF IsBatch
<1>3. PICK n \in Nat : n = Piece
  BY <1>2
<1> DEFINE c == Prepared
<1>4. Sound(c) /\ c.size = kv.size /\ IsCache(c)
  BY PreparedSound DEF CacheInv, Sound
<1> HIDE DEF c
<1>5. PICK s : s = find_slot(c, n) /\ s = Slot
  BY <1>3 DEF Slot, c
<1>6. /\ s.head \in 0 .. c.size /\ s.found \in BOOLEAN
      /\ s.found => s.head + n <= c.size /\ Busy(c, n, s.head) = {}
  BY <1>4, <1>5, FindSlot
<1>7. s.found => \A i \in s.head .. s.head + n - 1 : c.cells[i].seq_id = {}
  BY <1>4, <1>6, FoundFree
<1> QED  BY <1>1, <1>2, <1>3, <1>4, <1>5, <1>6, <1>7 DEF c

\* The cache with the piece entered.
Entered == Stored(Prepared, Slot.head, batch.seqs, batch.pos, Piece, next, FALSE)

\* ... is sound.
LEMMA EnteredSound ==
    ASSUME CacheInv, ~Idle, Slot.found
    PROVE  Sound(Entered) /\ Entered.size = kv.size /\ Entered.head = Slot.head
<1>1. PICK h \in Nat, n \in Nat : h = Slot.head /\ n = Piece
  BY SlotSound DEF CacheInv, Sound, IsCache
<1> DEFINE c == Prepared
<1>2. Sound(c) /\ c.size = kv.size /\ ~c.has_shift
  BY PreparedSound DEF CacheInv
<1>3. h + n <= c.size /\ \A i \in h .. h + n - 1 : c.cells[i].seq_id = {}
  BY <1>1, <1>2, SlotSound
<1>4. PICK S \in SUBSET SeqId, p \in Nat, t \in Nat :
        S = batch.seqs /\ p = batch.pos /\ t = next /\ S # {}
  BY SlotSound DEF CacheInv, IsBatch
<1>7. PICK file \in BOOLEAN : file = FALSE
  OBVIOUS
<1>5. Entered = Stored(c, h, S, p, n, t, file)
  BY <1>1, <1>4, <1>7 DEF Entered
<1> HIDE DEF c
<1>6. CanStore(c, h, S, p, n, t, file)
  <2>1. c.has_shift = FALSE
    BY <1>2 DEF Sound, IsCache
  <2> QED  BY <1>2, <1>3, <1>4, <2>1 DEF CanStore
<1> QED  BY <1>1, <1>2, <1>5, <1>6, StoredSound

\* A step that leaves no batch in progress, or the same one.
LEMMA InvKept ==
    ASSUME CacheInv, Sound(kv'), kv'.size = kv.size, next' \in Nat, batch' = batch \/ batch' = None
    PROVE  CacheInv'
<1>1. batch' = None \/ IsBatch(batch', kv'.size)
  BY DEF CacheInv
<1> QED  BY <1>1 DEF CacheInv

\* After a piece that is not the last, the rest of the batch is in progress.
LEMMA UnfinishedBatch ==
    ASSUME CacheInv, DecodeUbatch, batch.left # Piece
    PROVE  IsBatch(batch', kv.size)
<1>1. kv.size \in Nat /\ ~Idle
  BY DEF CacheInv, Sound, IsCache, DecodeUbatch
<1>2. /\ IsBatch(batch, kv.size) /\ Piece \in 1 .. batch.left /\ Piece \in Nat
      /\ Slot.head \in 0 .. kv.size
  BY <1>1, SlotSound
<1>3. IsBatch(batch', kv.size)
  <2>1. PICK u, v, w : /\ u = batch.pos + Piece /\ v = batch.left - Piece
                       /\ w = Append(batch.slots, <<Slot.head, Slot.head + Piece>>)
    OBVIOUS
  <2>2. batch' = [batch EXCEPT !.pos = u, !.left = v, !.slots = w]
    BY <2>1 DEF DecodeUbatch
  <2>3. u \in Nat /\ v \in Nat \ {0}
    BY <1>2, <2>1 DEF IsBatch
  <2>4. w \in Seq(Nat \X Nat)
    <3>1. PICK a \in Nat, e \in Nat : a = Slot.head /\ e = Slot.head + Piece
      BY <1>1, <1>2
    <3>2. batch.slots \in Seq(Nat \X Nat)
      BY <1>2 DEF IsBatch, Batches
    <3>3. <<a, e>> \in Nat \X Nat
      OBVIOUS
    <3>4. w = Append(batch.slots, <<a, e>>)
      BY <2>1, <3>1
    <3> QED  BY <3>2, <3>3, <3>4, AppendProperties
  <2>5. batch' \in Batches /\ batch'.seqs = batch.seqs /\ batch'.left = v
        /\ batch'.head = batch.head /\ batch'.pos = u
    BY <1>2, <2>2, <2>3, <2>4 DEF IsBatch, Batches
  <2> QED  BY <1>2, <2>3, <2>5 DEF IsBatch
<1> QED  BY <1>3

\* The steps of llama_decode.
LEMMA DecodeKeeps ==
    ASSUME CacheInv, Decode
    PROVE  CacheInv'
<1>1. kv.size \in Nat /\ next \in Nat /\ Sound(kv)
  BY DEF CacheInv, Sound, IsCache
<1>2. CASE DecodeUbatch
  <2>1. ~Idle /\ Slot.found
    BY <1>2 DEF DecodeUbatch
  <2>2. /\ IsBatch(batch, kv.size) /\ Piece \in 1 .. batch.left /\ Piece \in Nat
        /\ Slot.head \in 0 .. kv.size
    BY <2>1, SlotSound
  <2>3. PICK c : c = Entered /\ Sound(c) /\ c.size = kv.size
    BY <2>1, EnteredSound
  <2>4. PICK h \in 0 .. c.size, b \in BOOLEAN : kv' = [c EXCEPT !.head = h, !.do_defrag = b]
    <3>1. PICK fragmented \in {FALSE, batch.left = Piece} :
            kv' = [c EXCEPT !.head = IF @ + Piece >= kv.size THEN 0 ELSE @ + Piece,
                            !.do_defrag = @ \/ fragmented]
      BY <1>2, <2>3 DEF DecodeUbatch, Entered
    <3>2. (IF c.head + Piece >= kv.size THEN 0 ELSE c.head + Piece) \in 0 .. c.size
      BY <1>1, <2>2, <2>3 DEF Sound, IsCache
    <3>3. (c.do_defrag \/ fragmented) \in BOOLEAN
      OBVIOUS
    <3> QED  BY <3>1, <3>2, <3>3
  <2>5. Sound(kv') /\ kv'.size = kv.size
    <3>1. PICK d : d = [c EXCEPT !.head = h, !.do_defrag = b]
      OBVIOUS
    <3>2. Sound(d) /\ d.size = c.size
      BY <2>3, <3>1, Requested
    <3> QED  BY <2>3, <2>4, <3>1, <3>2
  <2>6. next' \in Nat
    BY <1>1, <1>2, <2>2 DEF DecodeUbatch
  <2>7. batch' = None \/ IsBatch(batch', kv.size)
    <3>1. CASE batch.left = Piece
      BY <1>2, <3>1 DEF DecodeUbatch
    <3>2. CASE batch.left # Piece
      BY <1>2, <3>2, UnfinishedBatch
    <3> QED  BY <3>1, <3>2
  <2> QED  BY <2>5, <2>6, <2>7 DEF CacheInv
<1>3. CASE DecodeNoSlot
  <2>1. PICK c : c = Prepared /\ Slot.head \in 0 .. kv.size
    BY <1>3, SlotSound DEF DecodeNoSlot
  <2>2. Sound(c) /\ c.size = kv.size
    BY <1>1, <2>1, PreparedSound
  <2>3. PICK h \in 0 .. c.size : kv' = [c EXCEPT !.head = h]
    BY <1>3, <2>1, <2>2 DEF DecodeNoSlot
  <2>4. batch' = None /\ next' = next
    BY <1>3 DEF DecodeNoSlot
  <2>5. Sound(kv') /\ kv'.size = kv.size
    BY <2>2, <2>3, Reheaded
  <2> QED  BY <1>1, <2>4, <2>5, InvKept
<1>4. CASE DecodeComputeFail
  <2>1. ~Idle /\ Slot.found
    BY <1>4 DEF DecodeComputeFail
  <2>2. IsBatch(batch, kv.size) /\ Piece \in Nat
    BY <2>1, SlotSound
  <2>3. PICK c : c = Entered /\ Sound(c) /\ c.size = kv.size
    BY <2>1, EnteredSound
  <2>4. PICK d : d = [c EXCEPT !.head = batch.head] /\ batch.head \in 0 .. c.size
    BY <2>2, <2>3 DEF IsBatch
  <2>5. Sound(d) /\ d.size = kv.size
    BY <2>3, <2>4, Reheaded
  <2>6. PICK P : kv' = Erased(d, SeqId, P)
    BY <1>4, <2>3, <2>4 DEF DecodeComputeFail, Restored, Entered
  <2>7. Sound(kv') /\ kv'.size = kv.size
    BY <2>5, <2>6, SeqId \in SUBSET SeqId, ErasedSound
  <2>8. batch' = None /\ next' \in Nat
    BY <1>1, <1>4, <2>2 DEF DecodeComputeFail
  <2> QED  BY <2>7, <2>8, InvKept
<1>5. CASE \E S \in (SUBSET SeqId) \ {{}}, n \in 1 .. MaxBatch : DecodeStart(S, n)
  <2>1. PICK S \in (SUBSET SeqId) \ {{}}, n \in 1 .. MaxBatch : DecodeStart(S, n)
    BY <1>5
  <2>2. PICK p \in Nat : p = AppendPos(S)
    BY <1>1, AppendPosition
  <2>3. /\ batch' = [seqs |-> S, pos |-> p, left |-> n, slots |-> <<>>, head |-> kv.head]
        /\ kv' = kv /\ next' = next
    BY <2>1, <2>2 DEF DecodeStart
  <2>4. n \in Nat \ {0} /\ kv.head \in 0 .. kv.size
    BY <1>1, SizeAssumption DEF Sound, IsCache
  <2>5. IsBatch(batch', kv.size)
    <3>1. <<>> \in Seq(Nat \X Nat) /\ kv.head \in Nat /\ n \in Nat
      BY <1>1, <2>4
    <3>2. batch' \in Batches
      BY <2>3, <3>1 DEF Batches
    <3> QED  BY <2>3, <2>4, <3>2 DEF IsBatch
  <2> QED  BY <1>1, <2>3, <2>5 DEF CacheInv
<1>6. CASE DecodeRefused
  BY <1>6 DEF DecodeRefused, CacheInv
<1> QED  BY <1>2, <1>3, <1>4, <1>5, <1>6 DEF Decode

\* Loading a saved sequence.
LEMMA LoadKeeps ==
    ASSUME CacheInv, NEW s \in SeqId, NEW n \in 1 .. MaxBatch, LoadSeq(s, n)
    PROVE  CacheInv'
<1>1. kv.size \in Nat /\ next \in Nat /\ Sound(kv) /\ n \in Nat
  BY SizeAssumption DEF CacheInv, Sound, IsCache
<1>2. PICK c : c = seq_rm(kv, {s}, 0, Infinity)
  OBVIOUS
<1>3. Sound(c) /\ c.size = kv.size /\ c.has_shift = kv.has_shift
  <2>1. PICK P : c = Erased(kv, {s}, P)
    BY <1>2 DEF seq_rm
  <2>2. {s} \in SUBSET SeqId
    OBVIOUS
  <2> QED  BY <1>1, <2>1, <2>2, ErasedSound, ErasedCells
<1>4. PICK slot : slot = find_slot(c, n)
  OBVIOUS
<1>5. /\ batch' = batch
      /\ kv' = IF slot.found THEN Stored(c, slot.head, {s}, 0, n, next, TRUE)
               ELSE [c EXCEPT !.head = slot.head]
      /\ next' = IF slot.found THEN next + n ELSE next
  BY <1>2, <1>4 DEF LoadSeq
<1>6. /\ slot.head \in 0 .. c.size /\ slot.found \in BOOLEAN
      /\ slot.found => slot.head + n <= c.size /\ Busy(c, n, slot.head) = {}
  BY <1>1, <1>3, <1>4, FindSlot DEF Sound
<1>7. CASE slot.found
  <2>1. PICK h \in Nat : h = slot.head /\ h + n <= c.size
    BY <1>1, <1>3, <1>6, <1>7
  <2>2. \A i \in h .. h + n - 1 : c.cells[i].seq_id = {}
    BY <1>1, <1>3, <1>6, <1>7, <2>1, FoundFree
  <2>3. PICK S \in SUBSET SeqId, p \in Nat, t \in Nat : S = {s} /\ p = 0 /\ t = next /\ S # {}
    BY <1>1
  <2>5. PICK file \in BOOLEAN : file = TRUE
    OBVIOUS
  <2>4. kv' = Stored(c, h, S, p, n, t, file)
    BY <1>5, <1>7, <2>1, <2>3, <2>5
  <2>6. CanStore(c, h, S, p, n, t, file)
    BY <1>1, <1>3, <2>1, <2>2, <2>3, <2>5 DEF CanStore
  <2>7. next' \in Nat
    BY <1>1, <1>5, <1>7
  <2>8. Sound(kv') /\ kv'.size = kv.size
    BY <1>3, <2>4, <2>6, StoredSound
  <2> QED  BY <1>5, <2>7, <2>8, InvKept
<1>8. CASE ~slot.found
  <2>1. PICK d : d = [c EXCEPT !.head = slot.head]
    OBVIOUS
  <2>2. Sound(d) /\ d.size = c.size
    BY <1>3, <1>6, <2>1, Reheaded
  <2>3. kv' = d /\ next' \in Nat
    BY <1>1, <1>5, <1>8, <2>1
  <2> QED  BY <1>3, <1>5, <2>2, <2>3, InvKept
<1> QED  BY <1>6, <1>7, <1>8

\* The operations of the interface.
LEMMA InterfaceKeeps ==
    ASSUME CacheInv
    PROVE  /\ \A S \in {SeqId} \cup {{s} : s \in SeqId}, r \in Ranges : SeqRm(S, r) => CacheInv'
           /\ \A src, dst \in SeqId, r \in Ranges : SeqCp(src, dst, r) => CacheInv'
           /\ \A s \in SeqId, r \in Ranges : SeqDiv(s, r) => CacheInv'
           /\ \A s \in SeqId, r \in Ranges, delta \in Deltas : SeqAdd(s, r, delta) => CacheInv'
           /\ \A s \in SeqId : SeqKeep(s) => CacheInv'
           /\ Clear \/ Defrag \/ Update => CacheInv'
<1>1. next \in Nat /\ Sound(kv)
  BY DEF CacheInv
<1>2. ASSUME NEW c, Sound(c), c.size = kv.size, kv' = c, batch' = batch, next' = next
      PROVE  CacheInv'
  BY <1>1, <1>2, InvKept
<1>3. ASSUME NEW S \in {SeqId} \cup {{s} : s \in SeqId}, NEW r \in Ranges, SeqRm(S, r)
      PROVE  CacheInv'
  <2>1. PICK P : kv' = Erased(kv, S, P)
    BY <1>3 DEF SeqRm, seq_rm
  <2>2. S \in SUBSET SeqId
    OBVIOUS
  <2>3. PICK c : c = Erased(kv, S, P)
    OBVIOUS
  <2>4. Sound(c) /\ c.size = kv.size
    BY <1>1, <2>2, <2>3, ErasedSound
  <2>5. kv' = c /\ batch' = batch /\ next' = next
    BY <1>3, <2>1, <2>3 DEF SeqRm
  <2> QED  BY <1>2, <2>4, <2>5
<1>4. ASSUME NEW src \in SeqId, NEW dst \in SeqId, NEW r \in Ranges, SeqCp(src, dst, r)
      PROVE  CacheInv'
  <2>1. PICK c : c = seq_cp(kv, src, dst, r[1], r[2])
    OBVIOUS
  <2>2. Sound(c) /\ c.size = kv.size
    BY <1>1, <2>1, CopiedSound
  <2>3. kv' = c /\ batch' = batch /\ next' = next
    BY <1>4, <2>1 DEF SeqCp
  <2> QED  BY <1>2, <2>2, <2>3
<1>5. ASSUME NEW s \in SeqId, NEW r \in Ranges, SeqDiv(s, r) PROVE CacheInv'
  <2>1. PICK c : c = seq_div(kv, s, r[1], r[2], 2)
    OBVIOUS
  <2>2. Sound(c) /\ c.size = kv.size
    BY <1>1, <2>1, DividedSound
  <2>3. kv' = c /\ batch' = batch /\ next' = next
    BY <1>5, <2>1 DEF SeqDiv
  <2> QED  BY <1>2, <2>2, <2>3
<1>6. ASSUME NEW s \in SeqId, NEW r \in Ranges, NEW delta \in Deltas, SeqAdd(s, r, delta)
      PROVE  CacheInv'
  <2>1. PICK c : c = seq_add(kv, s, r[1], r[2], delta)
    OBVIOUS
  <2>2. delta \in Int
    BY SizeAssumption
  <2>3. Sound(c) /\ c.size = kv.size
    BY <1>1, <2>1, <2>2, AddedSound
  <2>4. kv' = c /\ batch' = batch /\ next' = next
    BY <1>6, <2>1 DEF SeqAdd
  <2> QED  BY <1>2, <2>3, <2>4
<1>7. ASSUME NEW s \in SeqId, SeqKeep(s) PROVE CacheInv'
  <2>1. PICK c : c = seq_keep(kv, s)
    OBVIOUS
  <2>2. Sound(c) /\ c.size = kv.size
    BY <1>1, <2>1, KeptSound
  <2>3. kv' = c /\ batch' = batch /\ next' = next
    BY <1>7, <2>1 DEF SeqKeep
  <2> QED  BY <1>2, <2>2, <2>3
<1>8. ASSUME Clear PROVE CacheInv'
  <2>1. PICK c : c = clear(kv)
    OBVIOUS
  <2>2. Sound(c) /\ c.size = kv.size
    BY <1>1, <2>1, ClearedSound
  <2>3. kv' = c /\ batch' = batch /\ next' = next
    BY <1>8, <2>1 DEF Clear
  <2> QED  BY <1>2, <2>2, <2>3
<1>9. ASSUME Defrag PROVE CacheInv'
  <2>1. PICK c : c = [kv EXCEPT !.do_defrag = TRUE]
    OBVIOUS
  <2>2. /\ DOMAIN c = DOMAIN kv /\ c.size = kv.size /\ c.cells = kv.cells
        /\ c.head \in 0 .. kv.size /\ c.used = kv.used /\ c.has_shift = kv.has_shift
        /\ c.do_defrag \in BOOLEAN
    BY <1>1, <2>1 DEF Sound, IsCache
  <2>3. Sound(c) /\ c.size = kv.size
    BY <1>1, <2>2, SameCells
  <2>4. kv' = c /\ batch' = batch /\ next' = next
    BY <1>9, <2>1 DEF Defrag
  <2> QED  BY <1>2, <2>3, <2>4
<1>10. ASSUME Update PROVE CacheInv'
  <2>1. PICK c : c = update(kv)
    OBVIOUS
  <2>2. Sound(c) /\ c.size = kv.size
    BY <1>1, <2>1, UpdatedSound
  <2>3. kv' = c /\ batch' = batch /\ next' = next
    BY <1>10, <2>1 DEF Update
  <2> QED  BY <1>2, <2>2, <2>3
<1> QED  BY <1>3, <1>4, <1>5, <1>6, <1>7, <1>8, <1>9, <1>10

-----------------------------------------------------------------------------
(* The theorems.                                                           *)

\* The initial cache is empty and sound.
LEMMA InitSound ==
    ASSUME Init PROVE CacheInv
<1>1. PICK n \in Sizes :
        kv = [size |-> n, cells |-> [i \in 0 .. n - 1 |-> NewCell], head |-> 0, used |-> 0,
              has_shift |-> FALSE, do_defrag |-> FALSE]
  BY DEF Init
<1>2. n \in Nat \ {0} /\ 0 \in 0 .. n
  BY SizeAssumption
<1>3. CellOK(NewCell) /\ NewCell.delta = 0 /\ NewCell.seq_id = {} /\ NewCell \in Cell
  BY DEF CellOK, NewCell, Cell
<1>4. Cells(kv) = 0 .. n - 1 /\ kv.cells = [i \in Cells(kv) |-> NewCell] /\ kv.used = 0
  BY <1>1 DEF Cells
<1>5. IsCache(kv)
  <2> HIDE DEF NewCell
  <2> QED  BY <1>1, <1>2, <1>3, <1>4 DEF IsCache
<1>6. Occupied(kv) = {}
  BY <1>3, <1>4 DEF Occupied
<1>7. \A i \in Cells(kv) : CellOK(kv.cells[i]) /\ kv.cells[i].delta = 0
  BY <1>3, <1>4
<1>8. Sound(kv)
  BY <1>4, <1>5, <1>6, <1>7, FS_EmptySet DEF Sound
<1> QED  BY <1>8 DEF Init, CacheInv

\* The invariant holds in every state.
LEMMA CacheInvariant == Spec => []CacheInv
<1>1. ASSUME CacheInv, [Next]_vars PROVE CacheInv'
  <2>1. CASE Next
    <3>1. CASE Decode
      BY <1>1, <3>1, DecodeKeeps
    <3>2. CASE \E r \in Ranges :
                 \/ \E S \in {SeqId} \cup {{s} : s \in SeqId} : SeqRm(S, r)
                 \/ \E src, dst \in SeqId : SeqCp(src, dst, r)
                 \/ \E s \in SeqId : SeqDiv(s, r) \/ \E delta \in Deltas : SeqAdd(s, r, delta)
      BY <1>1, <3>2, InterfaceKeeps
    <3>3. CASE \E s \in SeqId : SeqKeep(s) \/ \E n \in 1 .. MaxBatch : LoadSeq(s, n)
      BY <1>1, <3>3, InterfaceKeeps, LoadKeeps
    <3>4. CASE Clear \/ Defrag \/ Update
      BY <1>1, <3>4, InterfaceKeeps
    <3> QED  BY <2>1, <3>1, <3>2, <3>3, <3>4 DEF Next
  <2>2. CASE UNCHANGED vars
    BY <1>1, <2>2 DEF vars, CacheInv
  <2> QED  BY <1>1, <2>1, <2>2
<1> QED  BY <1>1, InitSound, PTL DEF Spec

\* In a cache of any size, after any sequence of operations, failed evaluations
\* and defragmentations, used is the number of cells that belong to a sequence,
\* and these are the cells with a position: the check that aborts the process
\* with "KV defrag bug" never fails.
THEOREM CountIsAccurate == Spec => []UsedAccurate
<1>1. CacheInv => UsedAccurate
  <2>1. Used = Occupied(kv)
    BY DEF Used, Occupied, is_empty
  <2> QED  BY <2>1 DEF CacheInv, Sound, CellOK, UsedAccurate, Occupied
<1> QED  BY <1>1, CacheInvariant, PTL

\* The keys of every token that was evaluated are rotated to its position, or will
\* be by the pending delta, whatever was emptied, reused, moved, divided or loaded
\* before; a token loaded from a file is off by the delta that was pending in its
\* cell at the time, and by nothing more.
THEOREM KeysAreRotated == Spec => []RopeMatches
<1>1. CacheInv => RopeMatches
  BY DEF CacheInv, Sound, CellOK, RopeMatches, Used, is_empty
<1> QED  BY <1>1, CacheInvariant, PTL

\* The search finds n free cells in a row wherever head is, unless there are
\* none, and never hands out a cell in use.
THEOREM SearchIsComplete == Spec => []SearchComplete
<1>1. ASSUME CacheInv PROVE SearchComplete
  <2>1. kv.size \in Nat /\ IsCache(kv) /\ Sound(kv)
    BY <1>1 DEF CacheInv, Sound, IsCache
  <2> DEFINE free(n, h) == \A i \in h .. h + n - 1 : i \notin Used
  <2>2. ASSUME NEW n \in 1 .. kv.size, NEW slot, slot = find_slot(kv, n)
        PROVE  IF slot.found THEN free(n, slot.head) ELSE \A h \in 0 .. kv.size - n : ~free(n, h)
    <3>1. n \in Nat
      BY <2>1
    <3>2. /\ slot.head \in 0 .. kv.size /\ slot.found \in BOOLEAN
          /\ slot.found => slot.head + n <= kv.size /\ Busy(kv, n, slot.head) = {}
          /\ ~slot.found => NoneFree(kv, n, 0 .. kv.size)
      BY <2>1, <2>2, <3>1, FindSlot
    <3>3. ASSUME NEW h \in 0 .. kv.size, h + n <= kv.size
          PROVE  free(n, h) <=> Busy(kv, n, h) = {}
      <4>1. \A i \in h .. h + n - 1 : i \in Cells(kv)
        BY <2>1, <3>1, <3>3 DEF Cells
      <4>2. free(n, h) <=> \A i \in h .. h + n - 1 : kv.cells[i].seq_id = {}
        BY <4>1 DEF Used, is_empty
      <4> HIDE DEF free
      <4> QED  BY <2>1, <3>1, <3>3, <4>2, FoundFree
    <3> HIDE DEF free
    <3>4. ASSUME ~slot.found, NEW h \in 0 .. kv.size - n PROVE ~free(n, h)
      <4>1. h \in 0 .. kv.size /\ h + n <= kv.size
        BY <2>1, <3>1
      <4>2. Busy(kv, n, h) # {}
        BY <3>2, <3>4, <4>1 DEF NoneFree
      <4> QED  BY <3>3, <4>1, <4>2
    <3>5. slot.found => free(n, slot.head)
      BY <3>2, <3>3
    <3> QED  BY <3>2, <3>4, <3>5
  <2> QED  BY <2>2 DEF SearchComplete
<1> QED  BY <1>1, CacheInvariant, PTL

-----------------------------------------------------------------------------
(***************************************************************************)
(* The KV cache implements the memory of sequences.  The mapping shows the *)
(* tokens of the cells that are in use; the functions on caches are those  *)
(* on memories, and the rotation, the defragmentation and the placement of *)
(* tokens cannot be seen.                                                  *)
(***************************************************************************)

-----------------------------------------------------------------------------
(* What is seen of a cache.                                                *)

Toks(c)  == {c.cells[i].tok : i \in Occupied(c)}
Shown(x) == [pos |-> x.pos, seqs |-> x.seq_id]
View(c)  == [t \in Toks(c) |-> Shown(c.cells[CHOOSE i \in Cells(c) : c.cells[i].tok = t])]

\* Each token below t0 is in one cell, at a position within the bound, and the
\* empty cells have none.
Named(c, t0) ==
    /\ \A i \in Cells(c) : c.cells[i].seq_id = {} => c.cells[i].tok = None
    /\ \A i \in Occupied(c) : /\ c.cells[i].tok \in Nat /\ c.cells[i].tok < t0
                              /\ c.cells[i].pos <= MaxPos
    /\ \A i, j \in Occupied(c) : c.cells[i].tok = c.cells[j].tok => i = j

\* The mapping shows the view of the cache.
LEMMA MemoryIsView == Memory = View(kv) /\ Memory' = View(kv')
<1>1. Memory = View(kv)
  BY DEF Memory, View, Toks, Shown, Used, Occupied, is_empty
<1>2. Memory' = View(kv')
  BY DEF Memory, View, Toks, Shown, Used, Occupied, is_empty, Cells
<1> QED  BY <1>1, <1>2

\* The token of a cell is seen as the cell.
LEMMA ViewAt ==
    ASSUME NEW c, NEW t0, Named(c, t0), NEW i \in Occupied(c)
    PROVE  c.cells[i].tok \in Toks(c) /\ View(c)[c.cells[i].tok] = Shown(c.cells[i])
<1>1. PICK t \in Nat : t = c.cells[i].tok
  BY DEF Named
<1>2. t \in Toks(c) /\ i \in Cells(c)
  BY <1>1 DEF Toks, Occupied
<1>3. PICK j \in Cells(c) : j = (CHOOSE k \in Cells(c) : c.cells[k].tok = t) /\ c.cells[j].tok = t
  BY <1>1, <1>2
<1>4. j \in Occupied(c)
  BY <1>3, SizeAssumption DEF Named, Occupied
<1>5. j = i
  BY <1>1, <1>3, <1>4 DEF Named
<1>6. View(c)[t] = Shown(c.cells[j])
  BY <1>2, <1>3 DEF View
<1> QED  BY <1>1, <1>2, <1>5, <1>6

\* A function that shows every cell is the view.
LEMMA ViewIs ==
    ASSUME NEW c, NEW t0, Named(c, t0), NEW m, m = [t \in Toks(c) |-> m[t]],
           \A i \in Occupied(c) : m[c.cells[i].tok] = Shown(c.cells[i])
    PROVE  View(c) = m
<1>1. ASSUME NEW t \in Toks(c) PROVE View(c)[t] = m[t]
  <2>1. PICK i \in Occupied(c) : t = c.cells[i].tok
    BY DEF Toks
  <2> QED  BY <2>1, ViewAt
<1>2. View(c) = [t \in Toks(c) |-> View(c)[t]]
  BY DEF View
<1> QED  BY <1>1, <1>2

-----------------------------------------------------------------------------
(* Operations that leave the cells where they are.                         *)

\* d is c with some cells changed and some emptied, in place.
Reworks(c, d) ==
    /\ Cells(d) = Cells(c)
    /\ \A i \in Cells(c) :
          IF d.cells[i].seq_id = {} THEN d.cells[i].tok = None
          ELSE /\ c.cells[i].seq_id # {} /\ d.cells[i].tok = c.cells[i].tok
               /\ d.cells[i].pos <= MaxPos

\* The tokens keep their names.
LEMMA ReworkedNames ==
    ASSUME NEW c, NEW t0, Named(c, t0), NEW d, Reworks(c, d)
    PROVE  Named(d, t0) /\ Toks(d) \subseteq Toks(c) /\ Occupied(d) \subseteq Occupied(c)
<1>1. ASSUME NEW i \in Occupied(d)
      PROVE  i \in Occupied(c) /\ d.cells[i].tok = c.cells[i].tok /\ d.cells[i].pos <= MaxPos
  BY DEF Occupied, Reworks
<1>2. \A i \in Cells(d) : d.cells[i].seq_id = {} => d.cells[i].tok = None
  BY DEF Reworks
<1>3. Named(d, t0)
  BY <1>1, <1>2 DEF Named
<1>4. Toks(d) \subseteq Toks(c)
  BY <1>1 DEF Toks
<1> QED  BY <1>1, <1>3, <1>4

\* A view m of d, written as a change of the view of c.
LEMMA ReworkedView ==
    ASSUME NEW c, NEW t0, Named(c, t0), NEW d, Reworks(c, d),
           NEW D, NEW m, m = [t \in D |-> m[t]], D \subseteq Toks(c),
           \A i \in Occupied(c) : /\ c.cells[i].tok \in D <=> d.cells[i].seq_id # {}
                                  /\ c.cells[i].tok \in D => m[c.cells[i].tok] = Shown(d.cells[i])
    PROVE  View(d) = m
<1>1. Named(d, t0) /\ Toks(d) \subseteq Toks(c) /\ Occupied(d) \subseteq Occupied(c)
  BY ReworkedNames
<1>2. \A i \in Occupied(d) : d.cells[i].tok = c.cells[i].tok /\ d.cells[i].seq_id # {}
  BY DEF Reworks, Occupied
<1>3. ASSUME NEW t \in Toks(d) PROVE t \in D
  <2>1. PICK i \in Occupied(d) : t = d.cells[i].tok
    BY DEF Toks
  <2> QED  BY <1>1, <1>2, <2>1
<1>4. ASSUME NEW t \in D PROVE t \in Toks(d)
  <2>1. PICK i \in Occupied(c) : t = c.cells[i].tok
    BY DEF Toks
  <2>2. d.cells[i].seq_id # {}
    BY <2>1
  <2>3. i \in Occupied(d)
    BY <2>2 DEF Reworks, Occupied
  <2> QED  BY <1>2, <2>1, <2>3 DEF Toks
<1>5. D = Toks(d)
  BY <1>3, <1>4
<1>6. \A i \in Occupied(d) : m[d.cells[i].tok] = Shown(d.cells[i])
  BY <1>1, <1>2
<1> QED  BY <1>1, <1>5, <1>6, ViewIs

\* A shown cell with other sequences or another position.
LEMMA ShownExcept ==
    ASSUME NEW x, NEW S, NEW p
    PROVE  /\ [Shown(x) EXCEPT !.seqs = S] = [pos |-> x.pos, seqs |-> S]
           /\ [Shown(x) EXCEPT !.pos = p] = [pos |-> p, seqs |-> x.seq_id]
BY DEF Shown

\* What erasing does to the view.
LEMMA ErasedReworks ==
    ASSUME NEW c, NEW t0, Sound(c), Named(c, t0), NEW S \in SUBSET SeqId, NEW P
    PROVE  Reworks(c, Erased(c, S, P))
<1> SUFFICES ASSUME NEW d, d = Erased(c, S, P) PROVE Reworks(c, d)
  OBVIOUS
<1> DEFINE hit   == Hit(c, S, P)
           freed == Freed(c, S, P)
<1>1. /\ d.size = c.size
      /\ d.cells = [i \in Cells(c) |->
                     IF i \notin hit THEN c.cells[i]
                     ELSE IF i \in freed THEN Emptied(c.cells[i])
                     ELSE [c.cells[i] EXCEPT !.seq_id = @ \ S]]
  BY ErasedCells
<1> HIDE DEF hit, freed
<1>2. Cells(d) = Cells(c)
  BY <1>1 DEF Cells
<1>3. ASSUME NEW i \in Cells(c)
      PROVE  IF d.cells[i].seq_id = {} THEN d.cells[i].tok = None
             ELSE /\ c.cells[i].seq_id # {} /\ d.cells[i].tok = c.cells[i].tok
                  /\ d.cells[i].pos <= MaxPos
  <2>1. c.cells[i] \in Cell
    BY DEF Sound, CellOK
  <2>2. c.cells[i].seq_id # {} => c.cells[i].pos <= MaxPos
    BY DEF Named, Occupied
  <2>3. c.cells[i].seq_id = {} => c.cells[i].tok = None
    BY DEF Named
  <2>4. CASE i \notin hit
    BY <1>1, <2>2, <2>3, <2>4
  <2>5. CASE i \in hit /\ i \in freed
    <3>1. d.cells[i] = Emptied(c.cells[i])
      BY <1>1, <2>5
    <3> QED  BY <2>1, <3>1, EmptiedCell
  <2>6. CASE i \in hit /\ i \notin freed
    <3>1. d.cells[i] = [c.cells[i] EXCEPT !.seq_id = @ \ S]
      BY <1>1, <2>6
    <3>2. c.cells[i].seq_id \ S # {} /\ c.cells[i].seq_id # {}
      BY <2>6 DEF freed, hit, Freed, Hit
    <3> QED  BY <2>1, <2>2, <3>1, <3>2 DEF Cell
  <2> QED  BY <2>4, <2>5, <2>6
<1> QED  BY <1>2, <1>3 DEF Reworks

\* What is left of a cell.
Cut(c, d, S, P) ==
    \A i \in Cells(c) :
        /\ c.cells[i].pos \in P => d.cells[i].seq_id = c.cells[i].seq_id \ S
        /\ c.cells[i].pos \notin P => d.cells[i].seq_id = c.cells[i].seq_id
        /\ d.cells[i].seq_id # {} => d.cells[i].pos = c.cells[i].pos

\* ... when positions are erased.
LEMMA ErasedCut ==
    ASSUME NEW c, Sound(c), NEW S \in SUBSET SeqId, NEW P
    PROVE  Cut(c, Erased(c, S, P), S, P)
<1> SUFFICES ASSUME NEW d, d = Erased(c, S, P), NEW i \in Cells(c)
             PROVE  /\ c.cells[i].pos \in P => d.cells[i].seq_id = c.cells[i].seq_id \ S
                    /\ c.cells[i].pos \notin P => d.cells[i].seq_id = c.cells[i].seq_id
                    /\ d.cells[i].seq_id # {} => d.cells[i].pos = c.cells[i].pos
  BY DEF Cut
<1> DEFINE hit   == Hit(c, S, P)
           freed == Freed(c, S, P)
<1>1. d.cells = [j \in Cells(c) |->
                     IF j \notin hit THEN c.cells[j]
                     ELSE IF j \in freed THEN Emptied(c.cells[j])
                     ELSE [c.cells[j] EXCEPT !.seq_id = @ \ S]]
  BY ErasedCells
<1> HIDE DEF hit, freed
<1>2. c.cells[i] \in Cell
  BY DEF Sound, CellOK
<1>3. CASE i \notin hit
  <2>1. d.cells[i] = c.cells[i]
    BY <1>1, <1>3
  <2>2. c.cells[i].pos \in P => c.cells[i].seq_id \cap S = {}
    BY <1>3 DEF hit, Hit
  <2>3. c.cells[i].pos \in P => c.cells[i].seq_id \ S = c.cells[i].seq_id
    BY <2>2
  <2> QED  BY <2>1, <2>3
<1>4. CASE i \in hit /\ i \in freed
  <2>1. d.cells[i] = Emptied(c.cells[i])
    BY <1>1, <1>4
  <2>2. d.cells[i].seq_id = {}
    BY <1>2, <2>1, EmptiedCell
  <2>3. c.cells[i].pos \in P /\ c.cells[i].seq_id \ S = {}
    BY <1>4 DEF hit, Hit, freed, Freed
  <2> QED  BY <2>2, <2>3
<1>5. CASE i \in hit /\ i \notin freed
  <2>1. d.cells[i] = [c.cells[i] EXCEPT !.seq_id = @ \ S]
    BY <1>1, <1>5
  <2>2. c.cells[i].pos \in P
    BY <1>5 DEF hit, Hit
  <2> QED  BY <1>2, <2>1, <2>2 DEF Cell
<1> QED  BY <1>3, <1>4, <1>5

\* The domain of a view, and what Kept makes of a memory.
LEMMA ViewDomain ==
    ASSUME NEW c
    PROVE  DOMAIN View(c) = Toks(c) /\ View(c) = [t \in Toks(c) |-> View(c)[t]]
BY DEF View

\* ... of which only what belongs to a sequence is left.
Kept(D, g) == {u \in D : g[u].seqs # {} /\ g[u].pos >= 0}

\* The tokens that are left.
LEMMA KeptIs ==
    ASSUME NEW D, NEW g, g = [t \in D |-> g[t]]
    PROVE  Abstract!Kept(g) = [t \in Kept(D, g) |-> g[t]]
<1>1. DOMAIN g = D
  OBVIOUS
<1>2. Abstract!Kept(g) = [t \in {u \in DOMAIN g : g[u].seqs # {} /\ g[u].pos >= 0} |-> g[t]]
  BY DEF Abstract!Kept, Abstract!Restrict
<1> QED  BY <1>1, <1>2 DEF Kept

\* seq_rm is Removed.
LEMMA RemovedView ==
    ASSUME NEW c, NEW t0, Sound(c), Named(c, t0), NEW S \in SUBSET SeqId, NEW p0, NEW p1
    PROVE  View(Erased(c, S, p0 .. p1 - 1)) = Abstract!Removed(View(c), S, p0, p1)
<1> DEFINE P == p0 .. p1 - 1
           V == View(c)
           g == [t \in Toks(c) |-> IF V[t].pos \in P THEN [V[t] EXCEPT !.seqs = @ \ S] ELSE V[t]]
           D == Kept(Toks(c), g)
           m == [t \in D |-> g[t]]
<1>1. PICK d : d = Erased(c, S, P)
  OBVIOUS
<1>2. Abstract!Removed(V, S, p0, p1) = m
  <2>1. Abstract!Removed(V, S, p0, p1) = Abstract!Kept(g)
    BY ViewDomain DEF Abstract!Removed
  <2>2. g = [t \in Toks(c) |-> g[t]]
    OBVIOUS
  <2> HIDE DEF g
  <2> QED  BY <2>1, <2>2, KeptIs
<1>3. Reworks(c, d)
  BY <1>1, ErasedReworks
<1>4. Cut(c, d, S, P)
  BY <1>1, ErasedCut
<1>5. ASSUME NEW i \in Occupied(c)
      PROVE  /\ c.cells[i].tok \in D <=> d.cells[i].seq_id # {}
             /\ c.cells[i].tok \in D => m[c.cells[i].tok] = Shown(d.cells[i])
  <2>1. PICK t : t = c.cells[i].tok
    OBVIOUS
  <2>2. t \in Toks(c) /\ V[t] = Shown(c.cells[i])
    BY <2>1, ViewAt
  <2>3. i \in Cells(c) /\ CellOK(c.cells[i]) /\ c.cells[i].seq_id # {}
    BY DEF Occupied, Sound
  <2>4. /\ c.cells[i].pos \in P => d.cells[i].seq_id = c.cells[i].seq_id \ S
        /\ c.cells[i].pos \notin P => d.cells[i].seq_id = c.cells[i].seq_id
        /\ d.cells[i].seq_id # {} => d.cells[i].pos = c.cells[i].pos
    BY <1>4, <2>3 DEF Cut
  <2> HIDE DEF P, V
  <2>5. c.cells[i].pos >= 0
    BY <2>3 DEF CellOK
  <2>6. g[t] = [pos |-> c.cells[i].pos, seqs |-> d.cells[i].seq_id]
    <3>1. V[t].pos = c.cells[i].pos /\ V[t].seqs = c.cells[i].seq_id
      BY <2>2 DEF Shown
    <3>2. CASE c.cells[i].pos \in P
      <4>1. g[t] = [V[t] EXCEPT !.seqs = @ \ S]
        BY <2>2, <3>1, <3>2
      <4> HIDE DEF g
      <4>2. g[t] = [Shown(c.cells[i]) EXCEPT !.seqs = c.cells[i].seq_id \ S]
        BY <2>2, <3>1, <4>1
      <4>3. d.cells[i].seq_id = c.cells[i].seq_id \ S
        BY <2>4, <3>2
      <4>4. g[t] = [Shown(c.cells[i]) EXCEPT !.seqs = d.cells[i].seq_id]
        BY <4>2, <4>3
      <4>5. [Shown(c.cells[i]) EXCEPT !.seqs = d.cells[i].seq_id]
              = [pos |-> c.cells[i].pos, seqs |-> d.cells[i].seq_id]
        BY DEF Shown
      <4> QED  BY <4>4, <4>5
    <3>3. CASE c.cells[i].pos \notin P
      <4>1. g[t] = V[t]
        BY <2>2, <3>1, <3>3
      <4> HIDE DEF g
      <4> QED  BY <2>2, <2>4, <3>3, <4>1 DEF Shown
    <3> QED  BY <3>2, <3>3
  <2> HIDE DEF g
  <2>7. t \in D <=> d.cells[i].seq_id # {}
    BY <2>2, <2>5, <2>6 DEF Kept
  <2>8. t \in D => m[t] = g[t]
    OBVIOUS
  <2>9. t \in D => m[t] = Shown(d.cells[i])
    BY <2>4, <2>6, <2>7, <2>8 DEF Shown
  <2> QED  BY <2>1, <2>7, <2>9
<1>6. D \subseteq Toks(c) /\ m = [t \in D |-> m[t]]
  BY DEF Kept
<1> HIDE DEF D, m, P
<1>7. View(d) = m
  BY <1>3, <1>5, <1>6, ReworkedView
<1> QED  BY <1>1, <1>2, <1>7 DEF P

\* The tokens of a sequence within a range are those of the matching cells.
LEMMA WithinIs ==
    ASSUME NEW c, NEW t0, Named(c, t0), NEW s, NEW p0, NEW p1, NEW i \in Occupied(c)
    PROVE  c.cells[i].tok \in Abstract!Within(View(c), s, p0, p1) <=> i \in Matching(c, s, p0, p1)
<1>1. PICK t : t = c.cells[i].tok
  OBVIOUS
<1>2. t \in DOMAIN View(c) /\ View(c)[t] = Shown(c.cells[i])
  BY <1>1, ViewAt, ViewDomain
<1>3. View(c)[t].pos = c.cells[i].pos /\ View(c)[t].seqs = c.cells[i].seq_id
  BY <1>2 DEF Shown
<1> QED  BY <1>1, <1>2, <1>3 DEF Abstract!Within, Matching, Occupied

\* seq_cp is Copied.
LEMMA CopiedView ==
    ASSUME NEW c, NEW t0, Sound(c), Named(c, t0), NEW src, NEW dst, NEW p0, NEW p1
    PROVE  /\ Reworks(c, seq_cp(c, src, dst, p0, p1))
           /\ View(seq_cp(c, src, dst, p0, p1)) = Abstract!Copied(View(c), src, dst, p0, p1)
<1> SUFFICES ASSUME NEW d, d = seq_cp(c, src, dst, p0, p1)
             PROVE  Reworks(c, d) /\ View(d) = Abstract!Copied(View(c), src, dst, p0, p1)
  OBVIOUS
<1> DEFINE V == View(c)
           W == Abstract!Within(V, src, p0, p1)
           M == Matching(c, src, p0, p1)
           m == [t \in Toks(c) |-> IF t \in W THEN [V[t] EXCEPT !.seqs = @ \cup {dst}] ELSE V[t]]
<1>1. Abstract!Copied(V, src, dst, p0, p1) = m
  BY ViewDomain DEF Abstract!Copied
<1>2. /\ d.size = c.size
      /\ d.cells = [i \in Cells(c) |-> IF i \in M THEN [c.cells[i] EXCEPT !.seq_id = @ \cup {dst}]
                                       ELSE c.cells[i]]
  BY CopiedCells
<1>3. \A i \in Occupied(c) : c.cells[i].tok \in W <=> i \in M
  BY WithinIs
<1>4. M \in SUBSET Occupied(c)
  BY MatchingCells
<1>5. \A i \in Occupied(c) : c.cells[i].tok \in Toks(c) /\ V[c.cells[i].tok] = Shown(c.cells[i])
  BY ViewAt
<1> HIDE DEF V, W, M
<1>6. ASSUME NEW i \in Cells(c)
      PROVE  /\ i \in M => d.cells[i].seq_id = c.cells[i].seq_id \cup {dst}
             /\ i \notin M => d.cells[i].seq_id = c.cells[i].seq_id
             /\ d.cells[i].pos = c.cells[i].pos /\ d.cells[i].tok = c.cells[i].tok
  <2>1. c.cells[i] \in Cell
    BY DEF Sound, CellOK
  <2>2. CASE i \in M
    <3>1. d.cells[i] = [c.cells[i] EXCEPT !.seq_id = @ \cup {dst}]
      BY <1>2, <2>2
    <3> QED  BY <2>1, <2>2, <3>1 DEF Cell
  <2>3. CASE i \notin M
    BY <1>2, <2>3
  <2> QED  BY <2>2, <2>3
<1>7. Reworks(c, d)
  <2>1. Cells(d) = Cells(c)
    BY <1>2 DEF Cells
  <2>2. \A i \in Cells(c) : i \in M => c.cells[i].seq_id # {}
    BY <1>4 DEF Occupied
  <2> QED  BY <1>6, <2>1, <2>2 DEF Reworks, Named, Occupied
<1>8. ASSUME NEW i \in Occupied(c)
      PROVE  m[c.cells[i].tok] = Shown(d.cells[i]) /\ d.cells[i].seq_id # {}
  <2>1. i \in Cells(c) /\ c.cells[i].seq_id # {}
    BY DEF Occupied
  <2>2. PICK t \in Toks(c) : t = c.cells[i].tok /\ V[t] = Shown(c.cells[i])
    BY <1>5
  <2>3. CASE i \in M
    <3>1. m[t] = [V[t] EXCEPT !.seqs = V[t].seqs \cup {dst}]
      BY <1>3, <2>2, <2>3
    <3>2. V[t].seqs \cup {dst} = d.cells[i].seq_id
      BY <1>6, <2>1, <2>2, <2>3 DEF Shown
    <3> HIDE DEF m
    <3>3. m[t] = [Shown(c.cells[i]) EXCEPT !.seqs = d.cells[i].seq_id]
      BY <2>2, <3>1, <3>2
    <3>4. [Shown(c.cells[i]) EXCEPT !.seqs = d.cells[i].seq_id]
            = [pos |-> c.cells[i].pos, seqs |-> d.cells[i].seq_id]
      BY DEF Shown
    <3>5. d.cells[i].pos = c.cells[i].pos /\ d.cells[i].seq_id # {}
      BY <1>6, <2>1, <2>3
    <3> QED  BY <2>2, <3>3, <3>4, <3>5 DEF Shown
  <2>4. CASE i \notin M
    <3>1. m[t] = V[t]
      BY <1>3, <2>2, <2>4
    <3> HIDE DEF m
    <3>2. d.cells[i].pos = c.cells[i].pos /\ d.cells[i].seq_id = c.cells[i].seq_id
      BY <1>6, <2>1, <2>4
    <3> QED  BY <2>1, <2>2, <3>1, <3>2 DEF Shown
  <2> QED  BY <2>3, <2>4
<1>9. m = [t \in Toks(c) |-> m[t]]
  OBVIOUS
<1> HIDE DEF m
<1>10. View(d) = m
  BY <1>5, <1>7, <1>8, <1>9, ReworkedView
<1> QED  BY <1>1, <1>7, <1>10 DEF V

\* seq_keep is Alone.
LEMMA KeptView ==
    ASSUME NEW c, NEW t0, Sound(c), Named(c, t0), NEW s
    PROVE  Reworks(c, seq_keep(c, s)) /\ View(seq_keep(c, s)) = Abstract!Alone(View(c), s)
<1> SUFFICES ASSUME NEW d, d = seq_keep(c, s)
             PROVE  Reworks(c, d) /\ View(d) = Abstract!Alone(View(c), s)
  OBVIOUS
<1> DEFINE V == View(c)
           D == {u \in Toks(c) : s \in V[u].seqs}
           m == [t \in D |-> [V[t] EXCEPT !.seqs = {s}]]
<1>1. Abstract!Alone(V, s) = m
  BY ViewDomain DEF Abstract!Alone
<1>2. /\ d.size = c.size
      /\ d.cells = [i \in Cells(c) |-> IF s \notin c.cells[i].seq_id THEN Emptied(c.cells[i])
                                       ELSE [c.cells[i] EXCEPT !.seq_id = {s}]]
  BY KeptCells
<1>3. \A i \in Occupied(c) : c.cells[i].tok \in Toks(c) /\ V[c.cells[i].tok] = Shown(c.cells[i])
  BY ViewAt
<1> HIDE DEF V
<1>4. ASSUME NEW i \in Cells(c)
      PROVE  /\ s \notin c.cells[i].seq_id => d.cells[i].seq_id = {} /\ d.cells[i].tok = None
             /\ s \in c.cells[i].seq_id =>
                   /\ d.cells[i].seq_id = {s} /\ d.cells[i].pos = c.cells[i].pos
                   /\ d.cells[i].tok = c.cells[i].tok
  <2>1. c.cells[i] \in Cell
    BY DEF Sound, CellOK
  <2>2. CASE s \notin c.cells[i].seq_id
    <3>1. d.cells[i] = Emptied(c.cells[i])
      BY <1>2, <2>2
    <3> QED  BY <2>1, <2>2, <3>1, EmptiedCell
  <2>3. CASE s \in c.cells[i].seq_id
    <3>1. d.cells[i] = [c.cells[i] EXCEPT !.seq_id = {s}]
      BY <1>2, <2>3
    <3> QED  BY <2>1, <2>3, <3>1 DEF Cell
  <2> QED  BY <2>2, <2>3
<1>5. Reworks(c, d)
  <2>1. Cells(d) = Cells(c)
    BY <1>2 DEF Cells
  <2>2. ASSUME NEW i \in Cells(c)
        PROVE  IF d.cells[i].seq_id = {} THEN d.cells[i].tok = None
               ELSE /\ c.cells[i].seq_id # {} /\ d.cells[i].tok = c.cells[i].tok
                    /\ d.cells[i].pos <= MaxPos
    <3>1. s \in c.cells[i].seq_id => c.cells[i].seq_id # {} /\ c.cells[i].pos <= MaxPos
      BY DEF Named, Occupied
    <3> QED  BY <1>4, <3>1
  <2> QED  BY <2>1, <2>2 DEF Reworks
<1>6. ASSUME NEW i \in Occupied(c)
      PROVE  /\ c.cells[i].tok \in D <=> d.cells[i].seq_id # {}
             /\ c.cells[i].tok \in D => m[c.cells[i].tok] = Shown(d.cells[i])
  <2>1. i \in Cells(c)
    BY DEF Occupied
  <2>2. PICK t \in Toks(c) : t = c.cells[i].tok /\ V[t] = Shown(c.cells[i])
    BY <1>3
  <2>3. t \in D <=> s \in c.cells[i].seq_id
    BY <2>2 DEF Shown
  <2>4. t \in D <=> d.cells[i].seq_id # {}
    BY <1>4, <2>1, <2>3
  <2>5. ASSUME t \in D PROVE m[t] = Shown(d.cells[i])
    <3>1. m[t] = [V[t] EXCEPT !.seqs = {s}]
      BY <2>5
    <3> HIDE DEF m
    <3>2. m[t] = [pos |-> c.cells[i].pos, seqs |-> {s}]
      BY <2>2, <3>1 DEF Shown
    <3>3. d.cells[i].pos = c.cells[i].pos /\ d.cells[i].seq_id = {s}
      BY <1>4, <2>1, <2>3, <2>5
    <3> QED  BY <3>2, <3>3 DEF Shown
  <2> QED  BY <2>2, <2>4, <2>5
<1>7. D \subseteq Toks(c) /\ m = [t \in D |-> m[t]]
  OBVIOUS
<1> HIDE DEF D, m
<1>8. View(d) = m
  BY <1>5, <1>6, <1>7, ReworkedView
<1> QED  BY <1>1, <1>5, <1>8 DEF V

\* What becomes of a cell that seq_add moves.
LEMMA MovedFields ==
    ASSUME NEW x, CellOK(x), NEW delta \in Int
    PROVE  /\ MovedCell(x, delta) \in Cell /\ MovedCell(x, delta).pos = x.pos + delta
           /\ MovedCell(x, delta).seq_id = x.seq_id /\ MovedCell(x, delta).tok = x.tok
<1>1. x \in Cell /\ x.pos \in Int /\ x.delta \in Int
  BY DEF CellOK, Cell
<1>2. PICK p \in Int, e \in Int : p = x.pos + delta /\ e = x.delta + delta
  BY <1>1
<1>3. PICK y : y = MovedCell(x, delta)
  OBVIOUS
<1>4. y = [x EXCEPT !.pos = p, !.delta = e]
  BY <1>2, <1>3 DEF MovedCell
<1>5. y \in Cell /\ y.pos = p /\ y.seq_id = x.seq_id /\ y.tok = x.tok
  BY <1>1, <1>4 DEF Cell
<1> QED  BY <1>2, <1>3, <1>5

\* ... or leaves alone.
LEMMA AddedFields ==
    ASSUME NEW c, Sound(c), NEW s, NEW p0, NEW p1, NEW delta \in Int,
           NEW d, d = seq_add(c, s, p0, p1, delta), NEW M, M = Matching(c, s, p0, p1)
    PROVE  /\ Cells(d) = Cells(c)
           /\ \A i \in Cells(c) :
                /\ i \notin M => d.cells[i] = c.cells[i]
                /\ i \in M /\ c.cells[i].pos + delta < 0 =>
                     d.cells[i].seq_id = {} /\ d.cells[i].tok = None
                /\ i \in M /\ ~(c.cells[i].pos + delta < 0) =>
                     /\ d.cells[i].seq_id = c.cells[i].seq_id /\ d.cells[i].tok = c.cells[i].tok
                     /\ d.cells[i].pos = c.cells[i].pos + delta
<1> DEFINE N == Negative(c, s, p0, p1, delta)
<1>1. /\ d.size = c.size
      /\ d.cells = [i \in Cells(c) |->
                 IF i \notin M THEN c.cells[i]
                 ELSE IF i \in N THEN Emptied(MovedCell(c.cells[i], delta))
                      ELSE MovedCell(c.cells[i], delta)]
  BY AddedCells
<1>2. \A i \in M : i \in N <=> c.cells[i].pos + delta < 0
  BY DEF Negative
<1> HIDE DEF N
<1>3. ASSUME NEW i \in Cells(c)
      PROVE  /\ i \notin M => d.cells[i] = c.cells[i]
             /\ i \in M /\ i \in N => d.cells[i].seq_id = {} /\ d.cells[i].tok = None
             /\ i \in M /\ i \notin N =>
                     /\ d.cells[i].seq_id = c.cells[i].seq_id /\ d.cells[i].tok = c.cells[i].tok
                     /\ d.cells[i].pos = c.cells[i].pos + delta
  <2>1. CellOK(c.cells[i])
    BY DEF Sound
  <2>2. PICK y : y = MovedCell(c.cells[i], delta)
    OBVIOUS
  <2>3. /\ y \in Cell /\ y.pos = c.cells[i].pos + delta
        /\ y.seq_id = c.cells[i].seq_id /\ y.tok = c.cells[i].tok
    BY <2>1, <2>2, MovedFields
  <2>4. CASE i \notin M
    BY <1>1, <2>4
  <2>5. CASE i \in M /\ i \in N
    <3>1. d.cells[i] = Emptied(y)
      BY <1>1, <2>2, <2>5
    <3> QED  BY <2>3, <2>5, <3>1, EmptiedCell
  <2>6. CASE i \in M /\ i \notin N
    <3>1. d.cells[i] = y
      BY <1>1, <2>2, <2>6
    <3> QED  BY <2>3, <2>6, <3>1
  <2> QED  BY <2>4, <2>5, <2>6
<1>4. Cells(d) = Cells(c)
  BY <1>1 DEF Cells
<1> QED  BY <1>2, <1>3, <1>4

\* seq_add is Shifted.
LEMMA AddedView ==
    ASSUME NEW c, NEW t0, Sound(c), Named(c, t0), NEW s, NEW p0, NEW p1, NEW delta \in Int,
           \A i \in Matching(c, s, p0, p1) : c.cells[i].pos + delta <= MaxPos
    PROVE  /\ Reworks(c, seq_add(c, s, p0, p1, delta))
           /\ View(seq_add(c, s, p0, p1, delta)) = Abstract!Shifted(View(c), s, p0, p1, delta)
<1> SUFFICES ASSUME NEW d, d = seq_add(c, s, p0, p1, delta)
             PROVE  Reworks(c, d) /\ View(d) = Abstract!Shifted(View(c), s, p0, p1, delta)
  OBVIOUS
<1> DEFINE V == View(c)
           W == Abstract!Within(V, s, p0, p1)
           M == Matching(c, s, p0, p1)
           g == [t \in Toks(c) |-> IF t \in W THEN [V[t] EXCEPT !.pos = @ + delta] ELSE V[t]]
           D == Kept(Toks(c), g)
           m == [t \in D |-> g[t]]
<1>1. Abstract!Shifted(V, s, p0, p1, delta) = m
  <2>1. Abstract!Shifted(V, s, p0, p1, delta) = Abstract!Kept(g)
    BY ViewDomain DEF Abstract!Shifted
  <2>2. g = [t \in Toks(c) |-> g[t]]
    OBVIOUS
  <2> HIDE DEF g
  <2> QED  BY <2>1, <2>2, KeptIs
<1>2. /\ Cells(d) = Cells(c)
      /\ \A i \in Cells(c) :
                /\ i \notin M => d.cells[i] = c.cells[i]
                /\ i \in M /\ c.cells[i].pos + delta < 0 =>
                     d.cells[i].seq_id = {} /\ d.cells[i].tok = None
                /\ i \in M /\ ~(c.cells[i].pos + delta < 0) =>
                     /\ d.cells[i].seq_id = c.cells[i].seq_id /\ d.cells[i].tok = c.cells[i].tok
                     /\ d.cells[i].pos = c.cells[i].pos + delta
  BY AddedFields
<1>3. \A i \in Occupied(c) : c.cells[i].tok \in W <=> i \in M
  BY WithinIs
<1>4. M \in SUBSET Occupied(c) /\ \A i \in M : c.cells[i].pos + delta <= MaxPos
  BY MatchingCells
<1>5. \A i \in Occupied(c) : c.cells[i].tok \in Toks(c) /\ V[c.cells[i].tok] = Shown(c.cells[i])
  BY ViewAt
<1> HIDE DEF V, W, M
<1>6. Reworks(c, d)
  <2>1. ASSUME NEW i \in Cells(c)
        PROVE  IF d.cells[i].seq_id = {} THEN d.cells[i].tok = None
               ELSE /\ c.cells[i].seq_id # {} /\ d.cells[i].tok = c.cells[i].tok
                    /\ d.cells[i].pos <= MaxPos
    <3>1. /\ c.cells[i].seq_id = {} => c.cells[i].tok = None
          /\ c.cells[i].seq_id # {} => c.cells[i].pos <= MaxPos
      BY DEF Named, Occupied
    <3>2. CASE i \notin M
      BY <1>2, <3>1, <3>2
    <3>3. CASE i \in M
      <4>1. c.cells[i].seq_id # {} /\ c.cells[i].pos + delta <= MaxPos
        BY <1>4, <3>3 DEF Occupied
      <4> QED  BY <1>2, <3>3, <4>1
    <3> QED  BY <3>2, <3>3
  <2> QED  BY <1>2, <2>1 DEF Reworks
<1>7. ASSUME NEW i \in Occupied(c)
      PROVE  /\ c.cells[i].tok \in D <=> d.cells[i].seq_id # {}
             /\ c.cells[i].tok \in D => m[c.cells[i].tok] = Shown(d.cells[i])
  <2>1. i \in Cells(c) /\ CellOK(c.cells[i]) /\ c.cells[i].seq_id # {}
    BY DEF Occupied, Sound
  <2>2. PICK t \in Toks(c) : t = c.cells[i].tok /\ V[t] = Shown(c.cells[i])
    BY <1>5
  <2>3. PICK p \in Int, q \in Int : p = c.cells[i].pos /\ p >= 0 /\ q = p + delta
    BY <2>1 DEF CellOK, Cell
  <2>4. t \in D => m[t] = g[t]
    OBVIOUS
  <2>5. CASE i \in M
    <3>1. g[t] = [V[t] EXCEPT !.pos = V[t].pos + delta]
      BY <1>3, <2>2, <2>5
    <3>2. V[t].pos + delta = q
      BY <2>2, <2>3 DEF Shown
    <3> HIDE DEF g
    <3>3. g[t] = [Shown(c.cells[i]) EXCEPT !.pos = q]
      BY <2>2, <3>1, <3>2
    <3>4. [Shown(c.cells[i]) EXCEPT !.pos = q] = [pos |-> q, seqs |-> c.cells[i].seq_id]
      BY DEF Shown
    <3>5. g[t] = [pos |-> q, seqs |-> c.cells[i].seq_id]
      BY <3>3, <3>4
    <3>6. g[t].pos = q /\ g[t].seqs = c.cells[i].seq_id
      BY <3>5
    <3>7. t \in D <=> q >= 0
      BY <2>1, <3>6 DEF Kept
    <3> HIDE DEF D, m
    <3>8. CASE q < 0
      <4>1. d.cells[i].seq_id = {}
        BY <1>2, <2>1, <2>3, <2>5, <3>8
      <4> QED  BY <2>2, <3>7, <3>8, <4>1
    <3>9. CASE ~(q < 0)
      <4>1. d.cells[i].seq_id = c.cells[i].seq_id /\ d.cells[i].pos = q
        BY <1>2, <2>1, <2>3, <2>5, <3>9
      <4>2. m[t] = Shown(d.cells[i])
        BY <2>4, <3>5, <3>7, <3>9, <4>1 DEF Shown
      <4> QED  BY <2>1, <2>2, <3>7, <3>9, <4>1, <4>2
    <3> QED  BY <3>8, <3>9
  <2>6. CASE i \notin M
    <3>1. g[t] = Shown(c.cells[i]) /\ d.cells[i] = c.cells[i]
      BY <1>2, <1>3, <2>1, <2>2, <2>6
    <3> HIDE DEF g
    <3>2. g[t].pos = p /\ g[t].seqs = c.cells[i].seq_id
      BY <2>3, <3>1 DEF Shown
    <3>3. t \in D
      BY <2>1, <2>3, <3>2 DEF Kept
    <3> QED  BY <2>1, <2>2, <2>4, <3>1, <3>3
  <2> QED  BY <2>5, <2>6
<1>8. D \subseteq Toks(c) /\ m = [t \in D |-> m[t]]
  BY DEF Kept
<1> HIDE DEF D, m
<1>9. View(d) = m
  BY <1>6, <1>7, <1>8, ReworkedView
<1> QED  BY <1>1, <1>6, <1>9 DEF V

\* What becomes of a cell that seq_div divides.
LEMMA DividedFields ==
    ASSUME NEW x, CellOK(x), x.seq_id # {}
    PROVE  /\ DividedCell(x, 2).pos = x.pos \div 2 /\ DividedCell(x, 2).seq_id = x.seq_id
           /\ DividedCell(x, 2).tok = x.tok /\ x.pos \div 2 <= x.pos
<1>1. x \in Cell /\ x.delta \in Int
  BY DEF CellOK, Cell
<1>2. PICK p \in Nat : p = x.pos
  BY DEF CellOK, Cell
<1>3. PICK q \in Nat : q = p \div 2 /\ q <= p
  <2>1. p \div 2 \in Nat /\ p \div 2 <= p
    OBVIOUS
  <2> QED  BY <2>1
<1>4. PICK e \in Int : e = x.delta + q - p
  BY <1>1
<1>5. PICK y : y = DividedCell(x, 2)
  OBVIOUS
<1>6. y = [x EXCEPT !.pos = q, !.delta = e]
  <2>1. x.pos \div 2 = q /\ x.delta + x.pos \div 2 - x.pos = e
    BY <1>2, <1>3, <1>4
  <2>2. y = [x EXCEPT !.pos = x.pos \div 2, !.delta = x.delta + x.pos \div 2 - x.pos]
    BY <1>5, Zenon DEF DividedCell
  <2> QED  BY <2>1, <2>2, Zenon
<1>7. y.seq_id = x.seq_id /\ y.pos = q /\ y.tok = x.tok
  <2>1. x \in Cell /\ q \in Int
    BY <1>1
  <2> QED  BY <1>6, <2>1 DEF Cell
<1> QED  BY <1>2, <1>3, <1>5, <1>7

\* seq_div is Divided.
LEMMA DividedView ==
    ASSUME NEW c, NEW t0, Sound(c), Named(c, t0), NEW s, NEW p0, NEW p1
    PROVE  /\ Reworks(c, seq_div(c, s, p0, p1, 2))
           /\ View(seq_div(c, s, p0, p1, 2)) = Abstract!Divided(View(c), s, p0, p1, 2)
<1> SUFFICES ASSUME NEW d, d = seq_div(c, s, p0, p1, 2)
             PROVE  Reworks(c, d) /\ View(d) = Abstract!Divided(View(c), s, p0, p1, 2)
  OBVIOUS
<1> DEFINE V == View(c)
           W == Abstract!Within(V, s, p0, p1)
           M == Matching(c, s, p0, p1)
           m == [t \in Toks(c) |-> IF t \in W THEN [V[t] EXCEPT !.pos = @ \div 2] ELSE V[t]]
<1>1. Abstract!Divided(V, s, p0, p1, 2) = m
  BY ViewDomain DEF Abstract!Divided
<1>2. /\ d.size = c.size
      /\ d.cells = [i \in Cells(c) |-> IF i \in M THEN DividedCell(c.cells[i], 2) ELSE c.cells[i]]
  BY DividedCells
<1>3. \A i \in Occupied(c) : c.cells[i].tok \in W <=> i \in M
  BY WithinIs
<1>4. M \in SUBSET Occupied(c)
  BY MatchingCells
<1>5. \A i \in Occupied(c) : c.cells[i].tok \in Toks(c) /\ V[c.cells[i].tok] = Shown(c.cells[i])
  BY ViewAt
<1> HIDE DEF V, W, M
<1>6. ASSUME NEW i \in Cells(c)
      PROVE  /\ d.cells[i].seq_id = c.cells[i].seq_id /\ d.cells[i].tok = c.cells[i].tok
             /\ i \in M => /\ d.cells[i].pos = c.cells[i].pos \div 2
                           /\ c.cells[i].pos \div 2 <= c.cells[i].pos
             /\ i \notin M => d.cells[i].pos = c.cells[i].pos
  <2>1. CASE i \in M
    <3>1. d.cells[i] = DividedCell(c.cells[i], 2) /\ CellOK(c.cells[i]) /\ c.cells[i].seq_id # {}
      BY <1>2, <1>4, <2>1 DEF Sound, Occupied
    <3> QED  BY <2>1, <3>1, DividedFields
  <2>2. CASE i \notin M
    BY <1>2, <2>2
  <2> QED  BY <2>1, <2>2
<1>7. Reworks(c, d)
  <2>1. Cells(d) = Cells(c)
    BY <1>2 DEF Cells
  <2>2. ASSUME NEW i \in Cells(c), c.cells[i].seq_id # {} PROVE d.cells[i].pos <= MaxPos
    <3>1. PICK p \in Nat : p = c.cells[i].pos /\ p <= MaxPos
      BY <2>2 DEF Named, Occupied, Sound, CellOK, Cell
    <3>2. PICK q \in Nat : q = p \div 2
      OBVIOUS
    <3> QED  BY <1>6, <3>1, <3>2, SizeAssumption
  <2>3. \A i \in Cells(c) : c.cells[i].seq_id = {} => c.cells[i].tok = None
    BY DEF Named
  <2> QED  BY <1>6, <2>1, <2>2, <2>3 DEF Reworks
<1>8. ASSUME NEW i \in Occupied(c)
      PROVE  m[c.cells[i].tok] = Shown(d.cells[i]) /\ d.cells[i].seq_id # {}
  <2>1. i \in Cells(c) /\ c.cells[i].seq_id # {}
    BY DEF Occupied
  <2>2. PICK t \in Toks(c) : t = c.cells[i].tok /\ V[t] = Shown(c.cells[i])
    BY <1>5
  <2>3. CASE i \in M
    <3>1. m[t] = [V[t] EXCEPT !.pos = V[t].pos \div 2]
      BY <1>3, <2>2, <2>3
    <3>2. PICK q : q = d.cells[i].pos
      OBVIOUS
    <3>3. V[t].pos \div 2 = q
      BY <1>6, <2>1, <2>2, <2>3, <3>2 DEF Shown
    <3> HIDE DEF m
    <3>4. m[t] = [Shown(c.cells[i]) EXCEPT !.pos = q]
      BY <2>2, <3>1, <3>3, Zenon
    <3>5. [Shown(c.cells[i]) EXCEPT !.pos = q] = [pos |-> q, seqs |-> c.cells[i].seq_id]
      BY DEF Shown
    <3>6. d.cells[i].seq_id = c.cells[i].seq_id
      BY <1>6, <2>1
    <3> QED  BY <2>1, <2>2, <3>2, <3>4, <3>5, <3>6 DEF Shown
  <2>4. CASE i \notin M
    <3>1. m[t] = V[t]
      BY <1>3, <2>2, <2>4
    <3> HIDE DEF m
    <3>2. d.cells[i].pos = c.cells[i].pos /\ d.cells[i].seq_id = c.cells[i].seq_id
      BY <1>6, <2>1, <2>4
    <3> QED  BY <2>1, <2>2, <3>1, <3>2 DEF Shown
  <2> QED  BY <2>3, <2>4
<1>9. m = [t \in Toks(c) |-> m[t]]
  OBVIOUS
<1> HIDE DEF m
<1>10. View(d) = m
  BY <1>5, <1>7, <1>8, <1>9, ReworkedView
<1> QED  BY <1>1, <1>7, <1>10 DEF V

-----------------------------------------------------------------------------
(* Steps that cannot be seen.                                              *)

\* d shows the same tokens as c, which keep their names.
Alike(c, d, t0) == Named(d, t0) /\ View(d) = View(c)

\* The cells that are in use show the same in place.
LEMMA SameInPlace ==
    ASSUME NEW c, NEW t0, Named(c, t0), NEW d, Cells(d) = Cells(c),
           \A i \in Cells(c) : /\ d.cells[i].seq_id = c.cells[i].seq_id
                               /\ d.cells[i].tok = c.cells[i].tok
                               /\ c.cells[i].seq_id # {} => d.cells[i].pos = c.cells[i].pos
    PROVE  Alike(c, d, t0)
<1>1. Reworks(c, d)
  <2>1. \A i \in Cells(c) : /\ c.cells[i].seq_id = {} => c.cells[i].tok = None
                            /\ c.cells[i].seq_id # {} => c.cells[i].pos <= MaxPos
    BY DEF Named, Occupied
  <2> QED  BY <2>1 DEF Reworks
<1>2. PICK D, m : D = Toks(c) /\ m = View(c)
  OBVIOUS
<1>3. m = [t \in D |-> m[t]] /\ D \subseteq Toks(c)
  BY <1>2, ViewDomain
<1>4. ASSUME NEW i \in Occupied(c)
      PROVE  /\ c.cells[i].tok \in D <=> d.cells[i].seq_id # {}
             /\ c.cells[i].tok \in D => m[c.cells[i].tok] = Shown(d.cells[i])
  <2>1. c.cells[i].tok \in D /\ m[c.cells[i].tok] = Shown(c.cells[i])
    BY <1>2, ViewAt
  <2>2. i \in Cells(c) /\ c.cells[i].seq_id # {}
    BY DEF Occupied
  <2>3. Shown(d.cells[i]) = Shown(c.cells[i])
    BY <2>2 DEF Shown
  <2> QED  BY <2>1, <2>2, <2>3
<1>5. View(d) = m
  BY <1>1, <1>3, <1>4, ReworkedView
<1>6. Named(d, t0)
  BY <1>1, ReworkedNames
<1> QED  BY <1>2, <1>5, <1>6 DEF Alike

\* The cells that are in use are the same, each in a place of its own.
LEMMA SameMoved ==
    ASSUME NEW c, NEW t0, Named(c, t0), NEW d, NEW f \in [Occupied(d) -> Occupied(c)],
           \A i \in Cells(d) : d.cells[i].seq_id = {} => d.cells[i].tok = None,
           \A i \in Occupied(d) : d.cells[i] = c.cells[f[i]],
           \A i, j \in Occupied(d) : f[i] = f[j] => i = j,
           \A j \in Occupied(c) : \E i \in Occupied(d) : f[i] = j
    PROVE  Alike(c, d, t0)
<1>1. Named(d, t0)
  <2>1. \A i \in Occupied(d) : f[i] \in Occupied(c) /\ d.cells[i].tok = c.cells[f[i]].tok
                                 /\ d.cells[i].pos = c.cells[f[i]].pos
    OBVIOUS
  <2>2. \A i, j \in Occupied(d) : d.cells[i].tok = d.cells[j].tok => i = j
    BY <2>1 DEF Named
  <2>3. \A i \in Occupied(d) : /\ d.cells[i].tok \in Nat /\ d.cells[i].tok < t0
                               /\ d.cells[i].pos <= MaxPos
    BY <2>1 DEF Named
  <2> QED  BY <2>2, <2>3 DEF Named
<1>2. Toks(d) = Toks(c)
  <2>1. ASSUME NEW t \in Toks(d) PROVE t \in Toks(c)
    BY DEF Toks
  <2>2. ASSUME NEW t \in Toks(c) PROVE t \in Toks(d)
    <3>1. PICK j \in Occupied(c) : t = c.cells[j].tok
      BY DEF Toks
    <3>2. PICK i \in Occupied(d) : f[i] = j
      OBVIOUS
    <3> QED  BY <3>1, <3>2 DEF Toks
  <2> QED  BY <2>1, <2>2
<1>3. PICK m : m = View(c)
  OBVIOUS
<1>4. m = [t \in Toks(d) |-> m[t]]
  BY <1>2, <1>3, ViewDomain
<1>5. ASSUME NEW i \in Occupied(d) PROVE m[d.cells[i].tok] = Shown(d.cells[i])
  <2>1. PICK j \in Occupied(c) : d.cells[i] = c.cells[j]
    OBVIOUS
  <2>2. m[c.cells[j].tok] = Shown(c.cells[j])
    BY <1>3, ViewAt
  <2> QED  BY <2>1, <2>2
<1>6. View(d) = m
  BY <1>1, <1>4, <1>5, ViewIs
<1> QED  BY <1>1, <1>3, <1>6 DEF Alike

\* The rotation.
LEMMA ShiftedAlike ==
    ASSUME NEW c, NEW t0, Sound(c), Named(c, t0)
    PROVE  Alike(c, Shifted(c), t0)
<1> SUFFICES ASSUME NEW d, d = Shifted(c) PROVE Alike(c, d, t0)
  OBVIOUS
<1>1. CASE ~c.has_shift
  BY <1>1 DEF Shifted, Alike
<1>2. CASE c.has_shift
  <2> DEFINE cells == [i \in Cells(c) |-> IF c.cells[i].seq_id = {} THEN NewCell
                                          ELSE RotatedCell(c.cells[i])]
  <2>1. d = [c EXCEPT !.has_shift = FALSE, !.cells = cells]
    BY <1>2 DEF Shifted, RotatedCell, is_empty
  <2> HIDE DEF cells
  <2>2. d.size = c.size /\ d.cells = cells
    BY <2>1 DEF Sound, IsCache
  <2>3. ASSUME NEW i \in Cells(c)
        PROVE  /\ d.cells[i].seq_id = c.cells[i].seq_id
               /\ d.cells[i].tok = c.cells[i].tok
               /\ c.cells[i].seq_id # {} => d.cells[i].pos = c.cells[i].pos
    <3>1. c.cells[i] \in Cell /\ (c.cells[i].seq_id = {} => c.cells[i].tok = None)
      BY DEF Sound, CellOK, Named
    <3>2. CASE c.cells[i].seq_id = {}
      <4>1. d.cells[i] = NewCell
        BY <2>2, <3>2 DEF cells
      <4> QED  BY <3>1, <3>2, <4>1 DEF NewCell
    <3>3. CASE c.cells[i].seq_id # {}
      <4>1. d.cells[i] = RotatedCell(c.cells[i])
        BY <2>2, <3>3 DEF cells
      <4>2. PICK r : r = c.cells[i].rope + c.cells[i].delta
        OBVIOUS
      <4>3. d.cells[i] = [c.cells[i] EXCEPT !.rope = r, !.delta = 0]
        BY <4>1, <4>2 DEF RotatedCell
      <4> QED  BY <3>1, <4>3 DEF Cell
    <3> QED  BY <3>2, <3>3
  <2>4. Cells(d) = Cells(c)
    BY <2>2 DEF Cells
  <2> QED  BY <2>3, <2>4, SameInPlace
<1>3. c.has_shift \in BOOLEAN
  BY DEF Sound, IsCache
<1> QED  BY <1>1, <1>2, <1>3

\* The defragmentation.
LEMMA DefraggedAlike ==
    ASSUME NEW c, NEW t0, Sound(c), Named(c, t0)
    PROVE  Alike(c, Defragged(c), t0)
<1> SUFFICES ASSUME NEW d, d = Defragged(c) PROVE Alike(c, d, t0)
  OBVIOUS
<1>1. CASE ~c.do_defrag
  BY <1>1 DEF Defragged, Alike
<1>2. CASE c.do_defrag = TRUE
  <2> DEFINE filled == Filled(c)
             moved  == Emptying(c)
             f      == [i \in Occupied(d) |-> IF i \in filled THEN SourceOf(c, i) ELSE i]
  <2>1. MovedIn(c, d)
    BY <1>2, DefraggedCells
  <2>2. /\ d.size = c.size
        /\ \A i \in filled : d.cells[i] = c.cells[SourceOf(c, i)]
        /\ \A i \in Cells(c) : i \notin filled =>
              d.cells[i] = IF i \in moved THEN NewCell ELSE c.cells[i]
    BY <2>1 DEF MovedIn
  <2>3. Cells(d) = Cells(c)
    BY <2>2 DEF Cells
  <2>4. filled \in SUBSET Holes(c)
    BY DEF Filled
  <2>5. /\ filled \in SUBSET Cells(c) /\ filled \cap Occupied(c) = {}
        /\ \A i \in filled : SourceOf(c, i) \in Occupied(c) /\ SourceOf(c, i) \in moved
        /\ \A j \in moved : \E i \in filled : SourceOf(c, i) = j
        /\ \A i, j \in filled : SourceOf(c, i) = SourceOf(c, j) => i = j
    BY <2>4, AsManyHoles, SourceDistinct DEF Emptying
  <2>6. NewCell.seq_id = {} /\ NewCell.tok = None
    BY DEF NewCell
  <2> HIDE DEF filled, moved
  <2>7. ASSUME NEW i \in Occupied(d), i \notin filled
        PROVE  i \notin moved /\ d.cells[i] = c.cells[i] /\ i \in Occupied(c)
    <3>1. i \in Cells(c) /\ d.cells[i].seq_id # {}
      BY <2>3 DEF Occupied
    <3>2. i \notin moved
      BY <2>2, <2>6, <2>7, <3>1
    <3>3. d.cells[i] = c.cells[i]
      BY <2>2, <2>7, <3>1, <3>2
    <3> QED  BY <3>1, <3>2, <3>3 DEF Occupied
  <2>8. f \in [Occupied(d) -> Occupied(c)] /\ \A i \in Occupied(d) : d.cells[i] = c.cells[f[i]]
    BY <2>2, <2>5, <2>7
  <2>9. \A i \in Cells(d) : d.cells[i].seq_id = {} => d.cells[i].tok = None
    <3>1. ASSUME NEW i \in Cells(c), d.cells[i].seq_id = {} PROVE d.cells[i].tok = None
      <4>1. \A j \in Cells(c) : c.cells[j].seq_id = {} => c.cells[j].tok = None
        BY DEF Named
      <4>2. CASE i \in filled
        BY <2>2, <2>5, <3>1, <4>2 DEF Occupied
      <4>3. CASE i \notin filled
        BY <2>2, <2>6, <3>1, <4>1, <4>3
      <4> QED  BY <4>2, <4>3
    <3> QED  BY <2>3, <3>1
  <2>10. \A i, j \in Occupied(d) : f[i] = f[j] => i = j
    BY <2>5, <2>7
  <2>11. ASSUME NEW j \in Occupied(c) PROVE \E i \in Occupied(d) : f[i] = j
    <3>1. j \in Cells(c) /\ c.cells[j].seq_id # {}
      BY DEF Occupied
    <3>2. CASE j \in moved
      <4>1. PICK i \in filled : SourceOf(c, i) = j
        BY <2>5, <3>2
      <4>2. d.cells[i].seq_id # {} /\ i \in Cells(d)
        BY <2>2, <2>3, <2>5, <3>1, <4>1
      <4>3. i \in Occupied(d)
        BY <4>2 DEF Occupied
      <4> QED  BY <4>1, <4>3
    <3>3. CASE j \notin moved
      <4>1. j \notin filled
        BY <2>5
      <4>2. d.cells[j] = c.cells[j]
        BY <2>2, <3>1, <3>3, <4>1
      <4>3. j \in Occupied(d)
        BY <2>3, <3>1, <4>2 DEF Occupied
      <4> QED  BY <4>1, <4>3
    <3> QED  BY <3>2, <3>3
  <2> HIDE DEF f
  <2> QED  BY <2>8, <2>9, <2>10, <2>11, SameMoved
<1>3. c.do_defrag \in BOOLEAN
  BY DEF Sound, IsCache
<1> QED  BY <1>1, <1>2, <1>3

\* head and the requests.
LEMMA CellsAlike ==
    ASSUME NEW c, NEW t0, Named(c, t0), NEW d, d.size = c.size, d.cells = c.cells
    PROVE  Alike(c, d, t0)
<1>1. Cells(d) = Cells(c)
  BY DEF Cells
<1> QED  BY <1>1, SameInPlace

\* llama_kv_cache_update, and what is done before a piece is placed.
LEMMA PreparedAlike ==
    ASSUME Sound(kv), NEW t0, Named(kv, t0)
    PROVE  Alike(kv, update(kv), t0) /\ Alike(kv, Prepared, t0)
<1>1. PICK b : b = Shifted(kv) /\ Sound(b) /\ b.size = kv.size
  BY ShiftedSound
<1>2. PICK c : c = Defragged(b) /\ c = update(kv) /\ Sound(c)
  BY <1>1, DefraggedSound DEF update
<1>3. Alike(kv, b, t0)
  BY <1>1, ShiftedAlike
<1>4. Alike(b, c, t0)
  BY <1>1, <1>2, <1>3, DefraggedAlike DEF Alike
<1>5. Alike(kv, c, t0)
  BY <1>3, <1>4 DEF Alike
<1>6. PICK d : d = Prepared /\ (d = c \/ d = [c EXCEPT !.head = 0])
  BY <1>2 DEF Prepared
<1>7. d.size = c.size /\ d.cells = c.cells
  BY <1>2, <1>6 DEF Sound, IsCache
<1>8. Alike(c, d, t0)
  BY <1>5, <1>7, CellsAlike DEF Alike
<1> QED  BY <1>2, <1>5, <1>6, <1>8 DEF Alike

-----------------------------------------------------------------------------
(* Tokens that come and go.                                                *)

\* The tokens from next on are entered: what becomes of the cells.
LEMMA StoredFields ==
    ASSUME NEW c, NEW h, NEW S, NEW p, NEW n, NEW t, NEW file,
           CanStore(c, h, S, p, n, t, file), NEW d, d = Stored(c, h, S, p, n, t, file)
    PROVE  /\ Cells(d) = Cells(c)
           /\ \A i \in h .. h + n - 1 :
                /\ i \in Cells(c) /\ c.cells[i].seq_id = {}
                /\ d.cells[i].pos = p + i - h /\ d.cells[i].seq_id = S
                /\ d.cells[i].tok = t + i - h
           /\ \A i \in Cells(c) : i \notin h .. h + n - 1 => d.cells[i] = c.cells[i]
<1>1. /\ Sound(c) /\ h \in Nat /\ n \in Nat /\ h + n <= c.size /\ c.size \in Nat
      /\ \A i \in h .. h + n - 1 : c.cells[i].seq_id = {}
      /\ p \in Nat /\ t \in Nat
  BY DEF CanStore, Sound, IsCache
<1> DEFINE taken == h .. h + n - 1
           cells == [i \in Cells(c) |->
                       IF i \in taken
                       THEN EnteredCell(c.cells[i], S, p + i - h, t + i - h, file)
                       ELSE c.cells[i]]
<1>2. d = [c EXCEPT !.head = h, !.used = @ + n, !.cells = cells]
  BY DEF Stored, EnteredCell
<1> HIDE DEF cells
<1>3. d.size = c.size /\ d.cells = cells
  BY <1>1, <1>2 DEF Sound, IsCache
<1>4. ASSUME NEW i \in taken
      PROVE  /\ i \in Cells(c) /\ c.cells[i].seq_id = {}
             /\ d.cells[i].pos = p + i - h /\ d.cells[i].seq_id = S
             /\ d.cells[i].tok = t + i - h
  <2>1. i \in Cells(c) /\ c.cells[i].seq_id = {} /\ i \in Int
    BY <1>1 DEF Cells
  <2>2. PICK x : x = c.cells[i] /\ x \in Cell /\ x.seq_id = {}
    BY <1>1, <2>1 DEF Sound, CellOK
  <2>3. PICK q, u : q = p + i - h /\ u = t + i - h
    OBVIOUS
  <2>4. d.cells[i] = EnteredCell(x, S, q, u, file)
    BY <1>3, <2>1, <2>2, <2>3 DEF cells
  <2> HIDE DEF taken
  <2>5. PICK r : d.cells[i] = [x EXCEPT !.pos = q, !.seq_id = S, !.tok = u, !.rope = q,
                                       !.stray = r]
    <3>1. x.seq_id \cup S = S
      BY <2>2
    <3> QED  BY <2>4, <3>1 DEF EnteredCell
  <2>6. d.cells[i].pos = q /\ d.cells[i].seq_id = S /\ d.cells[i].tok = u
    BY <2>2, <2>5 DEF Cell
  <2> QED  BY <2>1, <2>3, <2>6
<1>5. \A i \in Cells(c) : i \notin taken => d.cells[i] = c.cells[i]
  BY <1>3 DEF cells
<1>6. Cells(d) = Cells(c)
  BY <1>3 DEF Cells
<1> QED  BY <1>4, <1>5, <1>6

\* The names remain distinct, and the new tokens are seen with the old ones.
LEMMA StoredView ==
    ASSUME NEW c, NEW h, NEW S, NEW p, NEW n, NEW file, CanStore(c, h, S, p, n, next, file),
           Named(c, next), p + n <= MaxPos + 1
    PROVE  /\ Named(Stored(c, h, S, p, n, next, file), next + n)
           /\ View(Stored(c, h, S, p, n, next, file)) = Abstract!Stored(View(c), S, p, n)
<1> SUFFICES ASSUME NEW d, d = Stored(c, h, S, p, n, next, file)
             PROVE  Named(d, next + n) /\ View(d) = Abstract!Stored(View(c), S, p, n)
  OBVIOUS
<1>1. /\ h \in Nat /\ n \in Nat /\ S # {} /\ p \in Nat /\ next \in Nat /\ MaxPos \in Nat
  BY SizeAssumption DEF CanStore
<1> DEFINE taken == h .. h + n - 1
           new   == next .. next + n - 1
           V     == View(c)
           D     == Toks(c) \cup new
           m     == [u \in D |-> IF u < next THEN V[u] ELSE [pos |-> p + u - next, seqs |-> S]]
<1>2. Abstract!Stored(V, S, p, n) = m
  BY ViewDomain DEF Abstract!Stored
<1>3. /\ Cells(d) = Cells(c)
      /\ \A i \in taken : /\ i \in Cells(c) /\ c.cells[i].seq_id = {}
                          /\ d.cells[i].pos = p + i - h /\ d.cells[i].seq_id = S
                          /\ d.cells[i].tok = next + i - h
      /\ \A i \in Cells(c) : i \notin taken => d.cells[i] = c.cells[i]
  BY StoredFields
<1>4. Occupied(d) = Occupied(c) \cup taken /\ Occupied(c) \cap taken = {}
  BY <1>1, <1>3 DEF Occupied
<1>5. ASSUME NEW i \in Occupied(c)
      PROVE  /\ d.cells[i] = c.cells[i] /\ c.cells[i].tok \in Nat /\ c.cells[i].tok < next
             /\ c.cells[i].pos <= MaxPos
  BY <1>3, <1>4 DEF Named, Occupied
<1>6. ASSUME NEW i \in taken
      PROVE  /\ i \in Int /\ d.cells[i].tok = next + i - h /\ d.cells[i].tok \in new
             /\ d.cells[i].pos <= MaxPos /\ d.cells[i].pos = p + (d.cells[i].tok - next)
  BY <1>1, <1>3
<1>7. Named(d, next + n)
  <2>1. ASSUME NEW i \in Cells(d), d.cells[i].seq_id = {} PROVE d.cells[i].tok = None
    <3>1. i \in Cells(c) /\ i \notin taken
      BY <1>1, <1>3, <2>1
    <3> QED  BY <1>3, <2>1, <3>1 DEF Named
  <2>2. ASSUME NEW i \in Occupied(d)
        PROVE  d.cells[i].tok \in Nat /\ d.cells[i].tok < next + n /\ d.cells[i].pos <= MaxPos
    BY <1>1, <1>4, <1>5, <1>6
  <2>3. ASSUME NEW i \in Occupied(d), NEW j \in Occupied(d), d.cells[i].tok = d.cells[j].tok
        PROVE  i = j
    <3>1. CASE i \in Occupied(c) /\ j \in Occupied(c)
      BY <1>5, <2>3, <3>1 DEF Named
    <3>2. CASE i \in taken /\ j \in taken
      BY <1>1, <1>6, <2>3, <3>2
    <3>3. CASE i \in Occupied(c) /\ j \in taken
      <4>1. d.cells[i].tok < next /\ d.cells[i].tok \in Nat
        BY <1>5, <3>3
      <4>2. d.cells[j].tok \in new
        BY <1>6, <3>3
      <4> QED  BY <1>1, <2>3, <4>1, <4>2
    <3>4. CASE i \in taken /\ j \in Occupied(c)
      <4>1. d.cells[j].tok < next /\ d.cells[j].tok \in Nat
        BY <1>5, <3>4
      <4>2. d.cells[i].tok \in new
        BY <1>6, <3>4
      <4> QED  BY <1>1, <2>3, <4>1, <4>2
    <3> QED  BY <1>4, <3>1, <3>2, <3>3, <3>4
  <2> QED  BY <2>1, <2>2, <2>3 DEF Named
<1>8. Toks(d) = D
  <2>1. ASSUME NEW u \in Toks(d) PROVE u \in D
    <3>1. PICK i \in Occupied(d) : u = d.cells[i].tok
      BY DEF Toks
    <3> QED  BY <1>4, <1>5, <1>6, <3>1 DEF Toks
  <2>2. ASSUME NEW u \in D PROVE u \in Toks(d)
    <3>1. CASE u \in Toks(c)
      BY <1>4, <1>5, <3>1 DEF Toks
    <3>2. CASE u \in new
      <4>1. PICK i \in Int : i = h + u - next /\ i \in taken
        BY <1>1, <3>2
      <4>2. d.cells[i].tok = u /\ i \in Occupied(d)
        BY <1>1, <1>4, <1>6, <3>2, <4>1
      <4> QED  BY <4>2 DEF Toks
    <3> QED  BY <3>1, <3>2
  <2> HIDE DEF D
  <2> QED  BY <2>1, <2>2
<1>9. ASSUME NEW i \in Occupied(d) PROVE m[d.cells[i].tok] = Shown(d.cells[i])
  <2>1. CASE i \in Occupied(c)
    <3>1. PICK u \in Toks(c) : u = c.cells[i].tok /\ V[u] = Shown(c.cells[i]) /\ u < next
      BY <1>5, <2>1, ViewAt
    <3>2. m[u] = V[u]
      BY <3>1
    <3> QED  BY <1>5, <2>1, <3>1, <3>2
  <2>2. CASE i \in taken
    <3>1. PICK u \in new : u = d.cells[i].tok /\ d.cells[i].pos = p + (u - next)
      BY <1>6, <2>2
    <3>2. ~(u < next) /\ p + (u - next) = p + u - next
      BY <1>1
    <3>3. m[u] = [pos |-> p + u - next, seqs |-> S]
      BY <3>2
    <3> HIDE DEF m
    <3> QED  BY <1>3, <2>2, <3>1, <3>2, <3>3 DEF Shown
  <2> QED  BY <1>4, <2>1, <2>2
<1>10. m = [u \in D |-> m[u]]
  OBVIOUS
<1> HIDE DEF D, m
<1>11. m = [u \in Toks(d) |-> m[u]]
  BY <1>8, <1>10
<1>12. View(d) = m
  BY <1>7, <1>9, <1>11, ViewIs
<1> QED  BY <1>2, <1>7, <1>12 DEF V

\* All sequences are erased at some positions: tokens are gone, the others stay
\* as they are.
LEMMA RestoredView ==
    ASSUME NEW c, NEW t0, Sound(c), Named(c, t0), NEW P
    PROVE  /\ Named(Erased(c, SeqId, P), t0)
           /\ View(Erased(c, SeqId, P)) = [t \in Toks(Erased(c, SeqId, P)) |-> View(c)[t]]
<1> SUFFICES ASSUME NEW d, d = Erased(c, SeqId, P)
             PROVE  Named(d, t0) /\ View(d) = [t \in Toks(d) |-> View(c)[t]]
  OBVIOUS
<1>1. SeqId \in SUBSET SeqId
  OBVIOUS
<1>2. Reworks(c, d) /\ Cut(c, d, SeqId, P)
  BY <1>1, ErasedReworks, ErasedCut
<1>3. Named(d, t0) /\ Toks(d) \subseteq Toks(c) /\ Occupied(d) \subseteq Occupied(c)
  BY <1>2, ReworkedNames
<1>4. PICK m : m = [t \in Toks(d) |-> View(c)[t]]
  OBVIOUS
<1>5. ASSUME NEW i \in Occupied(d) PROVE m[d.cells[i].tok] = Shown(d.cells[i])
  <2>1. i \in Occupied(c) /\ i \in Cells(c) /\ d.cells[i].seq_id # {}
    BY <1>3 DEF Occupied
  <2>2. c.cells[i].seq_id \in SUBSET SeqId
    BY <2>1 DEF Sound, CellOK, Cell
  <2>3. /\ d.cells[i].seq_id = c.cells[i].seq_id /\ d.cells[i].pos = c.cells[i].pos
        /\ d.cells[i].tok = c.cells[i].tok
    BY <1>2, <2>1, <2>2 DEF Cut, Reworks
  <2>4. d.cells[i].tok \in Toks(d)
    BY DEF Toks
  <2>5. View(c)[c.cells[i].tok] = Shown(c.cells[i])
    BY <2>1, ViewAt
  <2>6. m[d.cells[i].tok] = View(c)[d.cells[i].tok]
    BY <1>4, <2>4
  <2> QED  BY <2>3, <2>5, <2>6 DEF Shown
<1>6. m = [t \in Toks(d) |-> m[t]]
  BY <1>4
<1>7. View(d) = m
  BY <1>3, <1>5, <1>6, ViewIs
<1> QED  BY <1>3, <1>4, <1>7

\* A removal without bounds.
LEMMA WithoutIs ==
    ASSUME NEW c, NEW t0, Sound(c), Named(c, t0), NEW s
    PROVE  Abstract!Removed(View(c), {s}, 0, Infinity) = Abstract!Without(View(c), s)
<1> DEFINE V == View(c)
           P == 0 .. Infinity - 1
<1>1. ASSUME NEW t \in DOMAIN V PROVE V[t].pos \in P
  <2>0. t \in Toks(c)
    BY ViewDomain
  <2>1. PICK i \in Occupied(c) : t = c.cells[i].tok
    BY <2>0 DEF Toks
  <2>2. V[t] = Shown(c.cells[i])
    BY <2>1, ViewAt
  <2>3. c.cells[i].pos \in Int /\ c.cells[i].pos >= 0 /\ c.cells[i].pos <= MaxPos
    BY DEF Occupied, Sound, CellOK, Cell, Named
  <2>4. V[t].pos = c.cells[i].pos
    BY <2>2 DEF Shown
  <2> QED  BY <2>3, <2>4, SizeAssumption DEF Infinity
<1> HIDE DEF V
<1>2. [t \in DOMAIN V |-> IF V[t].pos \in P THEN [V[t] EXCEPT !.seqs = @ \ {s}] ELSE V[t]]
        = [t \in DOMAIN V |-> [V[t] EXCEPT !.seqs = @ \ {s}]]
  <2> HIDE DEF P
  <2> QED  BY <1>1
<1> QED  BY <1>2 DEF V, Abstract!Removed, Abstract!Without

\* A cache with no cell in use shows nothing.
LEMMA EmptyView ==
    ASSUME NEW c, \A i \in Cells(c) : c.cells[i].seq_id = {} /\ c.cells[i].tok = None, NEW t0
    PROVE  Named(c, t0) /\ View(c) = <<>>
<1>1. Occupied(c) = {}
  BY DEF Occupied
<1>2. Named(c, t0)
  BY <1>1 DEF Named
<1>3. Toks(c) = {}
  BY <1>1 DEF Toks
<1>4. DOMAIN View(c) = {} /\ View(c) = [t \in {} |-> View(c)[t]]
  BY <1>3, ViewDomain
<1>5. View(c) = <<>>
  BY <1>4
<1> QED  BY <1>2, <1>5

-----------------------------------------------------------------------------
(* The steps.                                                              *)

\* The invariant of the refinement: each token has a cell of its own, and the
\* batch stays within the bounds.
Fits(b, t) == b # None => b.pos + b.left <= MaxPos + 1 /\ t + b.left <= MaxTokens + 1

MemInv == CacheInv /\ Named(kv, next) /\ Fits(batch, next)

\* What is seen of a step is a step of the memory, or nothing.
Followed ==
    /\ Named(kv', next')
    /\ Abstract!Next \/ (Memory' = Memory /\ next' = next /\ Call' = Call /\ ret' = ret)

\* No evaluation is in progress before and after a step.
LEMMA Resting ==
    ASSUME Idle, batch' = batch
    PROVE  Call = None /\ Call' = None /\ ~Abstract!Busy
BY DEF Idle, Call, Abstract!Busy

\* A step that leaves what is seen of the cells as it is.
LEMMA Unseen ==
    ASSUME NEW d, Alike(kv, d, next), kv' = d, next' = next
    PROVE  Memory' = Memory /\ Named(kv', next')
<1>1. Memory = View(kv) /\ Memory' = View(kv')
  BY MemoryIsView
<1> QED  BY <1>1 DEF Alike

\* ... between two evaluations.
LEMMA Tidied ==
    ASSUME NEW d, Alike(kv, d, next), kv' = d, next' = next, Idle, batch' = batch, ret' = None
    PROVE  Followed
<1>1. Memory' = Memory /\ Named(kv', next')
  BY Unseen
<1>2. Abstract!Tidy
  BY <1>1, Resting DEF Abstract!Tidy
<1> QED  BY <1>1, <1>2 DEF Followed, Abstract!Next

\* The edits of sequences.
LEMMA EditsFollowed ==
    ASSUME MemInv
    PROVE  /\ \A S \in {SeqId} \cup {{s} : s \in SeqId}, r \in Ranges : SeqRm(S, r) => Followed
           /\ \A src, dst \in SeqId, r \in Ranges : SeqCp(src, dst, r) => Followed
           /\ \A s \in SeqId, r \in Ranges : SeqDiv(s, r) => Followed
           /\ \A s \in SeqId, r \in Ranges, delta \in Deltas : SeqAdd(s, r, delta) => Followed
           /\ \A s \in SeqId : SeqKeep(s) => Followed
           /\ Clear => Followed
<1>1. Sound(kv) /\ Named(kv, next)
  BY DEF MemInv, CacheInv
<1>2. PICK V, W : V = View(kv) /\ W = View(kv') /\ V = Memory /\ W = Memory'
  BY MemoryIsView
<1>3. ASSUME next' = next, Named(kv', next), Abstract!Edit PROVE Followed
  BY <1>3 DEF Followed, Abstract!Next
<1>10. ASSUME Idle, batch' = batch, next' = next, ret' = None
       PROVE  ~Abstract!Busy /\ ret' = None /\ next' = next /\ Call' = Call
  BY <1>10, Resting
<1>4. ASSUME NEW S \in {SeqId} \cup {{s} : s \in SeqId}, NEW r \in Ranges, SeqRm(S, r)
      PROVE  Followed
  <2>1. kv' = Erased(kv, S, r[1] .. r[2] - 1) /\ next' = next
    BY <1>4 DEF SeqRm, seq_rm
  <2>2. S \in SUBSET SeqId
    OBVIOUS
  <2>3. PICK c, p0, p1 : c = kv' /\ p0 = r[1] /\ p1 = r[2]
    OBVIOUS
  <2>4. c = Erased(kv, S, p0 .. p1 - 1)
    BY <2>1, <2>3
  <2>5. View(c) = Abstract!Removed(View(kv), S, p0, p1)
    BY <1>1, <2>2, <2>4, RemovedView
  <2>6. Reworks(kv, c)
    BY <1>1, <2>2, <2>4, ErasedReworks
  <2>7. Named(c, next)
    BY <1>1, <2>6, ReworkedNames
  <2>8. Abstract!Remove(S, r[1], r[2])
    BY <1>2, <2>3, <2>5 DEF Abstract!Remove
  <2>20. ~Abstract!Busy /\ ret' = None /\ next' = next /\ Call' = Call
    BY <1>4, <1>10 DEF SeqRm
  <2>9. Abstract!Edit
    BY <2>1, <2>8, <2>20 DEF Abstract!Edit
  <2> QED  BY <1>3, <2>1, <2>3, <2>7, <2>9
<1>5. ASSUME NEW src \in SeqId, NEW dst \in SeqId, NEW r \in Ranges, SeqCp(src, dst, r)
      PROVE  Followed
  <2>1. PICK c, p0, p1 : c = kv' /\ p0 = r[1] /\ p1 = r[2] /\ c = seq_cp(kv, src, dst, p0, p1)
    BY <1>5 DEF SeqCp
  <2>2. Reworks(kv, c) /\ View(c) = Abstract!Copied(View(kv), src, dst, p0, p1)
    BY <1>1, <2>1, CopiedView
  <2>3. Named(c, next)
    BY <1>1, <2>2, ReworkedNames
  <2>4. Abstract!Copy(src, dst, r[1], r[2]) /\ next' = next
    BY <1>2, <1>5, <2>1, <2>2 DEF Abstract!Copy, SeqCp
  <2>20. ~Abstract!Busy /\ ret' = None /\ next' = next /\ Call' = Call
    BY <1>5, <1>10 DEF SeqCp
  <2>21. src # dst
    BY <1>5 DEF SeqCp
  <2>5. Abstract!Edit
    BY <2>4, <2>20, <2>21 DEF Abstract!Edit
  <2> QED  BY <1>3, <2>1, <2>3, <2>4, <2>5
<1>6. ASSUME NEW s \in SeqId, NEW r \in Ranges, SeqDiv(s, r) PROVE Followed
  <2>1. PICK c, p0, p1 : c = kv' /\ p0 = r[1] /\ p1 = r[2] /\ c = seq_div(kv, s, p0, p1, 2)
    BY <1>6 DEF SeqDiv
  <2>2. Reworks(kv, c) /\ View(c) = Abstract!Divided(View(kv), s, p0, p1, 2)
    BY <1>1, <2>1, DividedView
  <2>3. Named(c, next)
    BY <1>1, <2>2, ReworkedNames
  <2>4. Abstract!Divide(s, r[1], r[2], 2) /\ next' = next
    BY <1>2, <1>6, <2>1, <2>2 DEF Abstract!Divide, SeqDiv
  <2>20. ~Abstract!Busy /\ ret' = None /\ next' = next /\ Call' = Call
    BY <1>6, <1>10 DEF SeqDiv
  <2>5. Abstract!Edit
    BY <2>4, <2>20 DEF Abstract!Edit
  <2> QED  BY <1>3, <2>1, <2>3, <2>4, <2>5
<1>7. ASSUME NEW s \in SeqId, NEW r \in Ranges, NEW delta \in Deltas, SeqAdd(s, r, delta)
      PROVE  Followed
  <2>1. PICK c, p0, p1 : /\ c = kv' /\ p0 = r[1] /\ p1 = r[2]
                         /\ c = seq_add(kv, s, p0, p1, delta)
                         /\ \A i \in Matching(kv, s, p0, p1) : kv.cells[i].pos + delta <= MaxPos
    BY <1>7 DEF SeqAdd
  <2>2. delta \in Int
    BY SizeAssumption
  <2>3. Reworks(kv, c) /\ View(c) = Abstract!Shifted(View(kv), s, p0, p1, delta)
    BY <1>1, <2>1, <2>2, AddedView
  <2>4. Named(c, next)
    BY <1>1, <2>3, ReworkedNames
  <2>5. Abstract!Shift(s, r[1], r[2], delta) /\ next' = next
    BY <1>2, <1>7, <2>1, <2>3 DEF Abstract!Shift, SeqAdd
  <2>20. ~Abstract!Busy /\ ret' = None /\ next' = next /\ Call' = Call
    BY <1>7, <1>10 DEF SeqAdd
  <2>6. Abstract!Edit
    BY <2>5, <2>20 DEF Abstract!Edit
  <2> QED  BY <1>3, <2>1, <2>4, <2>5, <2>6
<1>8. ASSUME NEW s \in SeqId, SeqKeep(s) PROVE Followed
  <2>1. PICK c : c = kv' /\ c = seq_keep(kv, s)
    BY <1>8 DEF SeqKeep
  <2>2. Reworks(kv, c) /\ View(c) = Abstract!Alone(View(kv), s)
    BY <1>1, <2>1, KeptView
  <2>3. Named(c, next)
    BY <1>1, <2>2, ReworkedNames
  <2>4. Abstract!Keep(s) /\ next' = next
    BY <1>2, <1>8, <2>1, <2>2 DEF Abstract!Keep, SeqKeep
  <2>20. ~Abstract!Busy /\ ret' = None /\ next' = next /\ Call' = Call
    BY <1>8, <1>10 DEF SeqKeep
  <2>5. Abstract!Edit
    BY <2>4, <2>20 DEF Abstract!Edit
  <2> QED  BY <1>3, <2>1, <2>3, <2>4, <2>5
<1>9. ASSUME Clear PROVE Followed
  <2>1. PICK c : c = kv' /\ c = clear(kv)
    BY <1>9 DEF Clear
  <2>2. c.size = kv.size /\ c.cells = [i \in Cells(kv) |-> Emptied(kv.cells[i])]
    BY <1>1, <2>1 DEF clear, Sound, IsCache
  <2>3. Cells(c) = Cells(kv)
    BY <2>2 DEF Cells
  <2>4. ASSUME NEW i \in Cells(c) PROVE c.cells[i].seq_id = {} /\ c.cells[i].tok = None
    <3>1. kv.cells[i] \in Cell /\ c.cells[i] = Emptied(kv.cells[i])
      BY <1>1, <2>2, <2>3 DEF Sound, CellOK
    <3> QED  BY <3>1, EmptiedCell
  <2>5. Named(c, next) /\ View(c) = <<>>
    BY <2>4, EmptyView
  <2>6. Abstract!Clear /\ next' = next
    BY <1>2, <1>9, <2>1, <2>5 DEF Abstract!Clear, Clear
  <2>20. ~Abstract!Busy /\ ret' = None /\ next' = next /\ Call' = Call
    BY <1>9, <1>10 DEF Clear
  <2>7. Abstract!Edit
    BY <2>6, <2>20 DEF Abstract!Edit
  <2> QED  BY <1>3, <2>1, <2>5, <2>6, <2>7
<1> QED  BY <1>4, <1>5, <1>6, <1>7, <1>8, <1>9

\* A request for a defragmentation, and llama_kv_cache_update.
LEMMA UpkeepFollowed ==
    ASSUME MemInv, Defrag \/ Update
    PROVE  Followed
<1>1. Sound(kv) /\ Named(kv, next)
  BY DEF MemInv, CacheInv
<1>2. CASE Defrag
  <2>1. PICK d : d = kv' /\ d = [kv EXCEPT !.do_defrag = TRUE] /\ next' = next
    BY <1>2 DEF Defrag
  <2>2. d.size = kv.size /\ d.cells = kv.cells
    BY <1>1, <2>1 DEF Sound, IsCache
  <2>3. Alike(kv, d, next)
    BY <1>1, <2>2, CellsAlike
  <2>4. Idle /\ batch' = batch /\ ret' = None
    BY <1>2 DEF Defrag
  <2> QED  BY <2>1, <2>3, <2>4, Tidied
<1>3. CASE Update
  <2>1. PICK d : d = kv' /\ d = update(kv) /\ next' = next
    BY <1>3 DEF Update
  <2>2. Alike(kv, d, next)
    BY <1>1, <2>1, PreparedAlike
  <2>3. Idle /\ batch' = batch /\ ret' = None
    BY <1>3 DEF Update
  <2> QED  BY <2>1, <2>2, <2>3, Tidied
<1> QED  BY <1>2, <1>3

\* The batch in progress is the call that is seen.
LEMMA InProgress ==
    ASSUME NEW b, NEW m, IsBatch(b, m), NEW c, c = [seqs |-> b.seqs, pos |-> b.pos, left |-> b.left]
    PROVE  b # None /\ c # None /\ c.seqs = b.seqs /\ c.pos = b.pos /\ c.left = b.left
<1>1. b \in Batches /\ c \in Calls
  BY DEF IsBatch, Calls
<1> QED  BY <1>1, SizeAssumption

\* A piece that is entered is seen as new tokens.
LEMMA EnteredView ==
    ASSUME MemInv, ~Idle, Slot.found
    PROVE  /\ Call.seqs = batch.seqs /\ Call.pos = batch.pos /\ Call.left = batch.left
           /\ Piece \in 1 .. Call.left /\ Abstract!Busy
           /\ Named(Entered, next + Piece)
           /\ View(Entered) = Abstract!Stored(Memory, Call.seqs, Call.pos, Piece)
<1>1. CacheInv /\ Named(kv, next) /\ Sound(kv) /\ next \in Nat
  BY DEF MemInv, CacheInv
<1>2. IsBatch(batch, kv.size) /\ Piece \in 1 .. batch.left
  BY <1>1, SlotSound
<1>3. PICK h \in Nat, n \in Nat : h = Slot.head /\ n = Piece
  BY <1>1, SlotSound DEF Sound, IsCache
<1>4. PICK S \in SUBSET SeqId, p \in Nat : S = batch.seqs /\ p = batch.pos /\ S # {}
  BY <1>2 DEF IsBatch
<1>5. p + n <= MaxPos + 1
  <2>1. PICK l \in Nat \ {0} : l = batch.left
    BY <1>2 DEF IsBatch
  <2>2. p + l <= MaxPos + 1
    BY <1>4, <2>1 DEF MemInv, Fits, Idle
  <2>3. n <= l
    BY <1>2, <1>3, <2>1
  <2> QED  BY <1>1, <2>2, <2>3, SizeAssumption
<1>13. /\ Call.seqs = batch.seqs /\ Call.pos = batch.pos /\ Call.left = batch.left
       /\ Call # None
  <2>1. PICK c : c = Call /\ c = [seqs |-> batch.seqs, pos |-> batch.pos, left |-> batch.left]
    BY DEF Call
  <2>2. PICK b, m : b = batch /\ m = kv.size
    OBVIOUS
  <2>3. IsBatch(b, m) /\ c = [seqs |-> b.seqs, pos |-> b.pos, left |-> b.left]
    BY <1>2, <2>1, <2>2
  <2>4. c # None /\ c.seqs = b.seqs /\ c.pos = b.pos /\ c.left = b.left
    BY <2>3, InProgress
  <2> QED  BY <2>1, <2>2, <2>4
<1> DEFINE c == Prepared
<1>6. Sound(c) /\ c.size = kv.size /\ ~c.has_shift
  BY <1>1, PreparedSound
<1>7. h + n <= c.size /\ \A i \in h .. h + n - 1 : c.cells[i].seq_id = {}
  BY <1>1, <1>3, <1>6, SlotSound
<1>8. Named(c, next) /\ View(c) = View(kv)
  BY <1>1, PreparedAlike DEF Alike
<1>15. PICK file \in BOOLEAN : file = FALSE
  OBVIOUS
<1>9. Entered = Stored(c, h, S, p, n, next, file)
  BY <1>3, <1>4, <1>15 DEF Entered
<1> HIDE DEF c
<1>10. CanStore(c, h, S, p, n, next, file)
  <2>1. c.has_shift = FALSE
    BY <1>6 DEF Sound, IsCache
  <2> QED  BY <1>1, <1>4, <1>6, <1>7, <2>1 DEF CanStore
<1>11. Named(Entered, next + n) /\ View(Entered) = Abstract!Stored(View(c), S, p, n)
  BY <1>5, <1>8, <1>9, <1>10, StoredView
<1>12. Memory = View(c)
  BY <1>8, MemoryIsView
<1>14. View(Entered) = Abstract!Stored(Memory, Call.seqs, Call.pos, Piece)
  BY <1>3, <1>4, <1>11, <1>12, <1>13
<1> QED  BY <1>2, <1>3, <1>11, <1>13, <1>14 DEF Abstract!Busy

\* An evaluation in progress is seen as one.
LEMMA CallBusy ==
    ASSUME CacheInv, ~Idle
    PROVE  Abstract!Busy
<1>1. PICK b, m : b = batch /\ m = kv.size
  OBVIOUS
<1>2. PICK c : c = Call /\ c = [seqs |-> b.seqs, pos |-> b.pos, left |-> b.left]
  BY <1>1 DEF Call
<1>3. IsBatch(b, m)
  BY <1>1 DEF CacheInv, Idle
<1>4. c # None
  BY <1>2, <1>3, InProgress
<1> QED  BY <1>2, <1>4 DEF Abstract!Busy

\* What is left of a call.
ACall(S, p, l) == [seqs |-> S, pos |-> p, left |-> l]
Rest(c, u, v)  == [c EXCEPT !.pos = u, !.left = v]

\* ... has the same sequences.
LEMMA RestOf ==
    ASSUME NEW X, NEW S \in X, NEW p \in Int, NEW l \in Int, NEW u \in Int, NEW v \in Int
    PROVE  Rest(ACall(S, p, l), u, v) = ACall(S, u, v)
<1>0. PICK c : c = ACall(S, p, l)
  OBVIOUS
<1>1. c \in [seqs : X, pos : Int, left : Int] /\ c.seqs = S
  BY <1>0 DEF ACall
<1>2. PICK d : d = Rest(c, u, v)
  OBVIOUS
<1>3. d \in [seqs : X, pos : Int, left : Int] /\ d.seqs = S /\ d.pos = u /\ d.left = v
  BY <1>1, <1>2 DEF Rest
<1>4. d = [seqs |-> d.seqs, pos |-> d.pos, left |-> d.left]
  BY <1>3
<1> QED  BY <1>0, <1>2, <1>3, <1>4 DEF ACall

\* After a piece that is not the last, the rest of the call is seen.
LEMMA NextPiece ==
    ASSUME MemInv, ~Idle, DecodeUbatch, batch.left # Piece, NEW n, n = Piece
    PROVE  Call' = [Call EXCEPT !.pos = @ + n, !.left = @ - n]
<1>1. CacheInv /\ IsBatch(batch, kv.size)
  BY DEF MemInv, CacheInv, Idle
<1>2. PICK S, p, l : S = batch.seqs /\ p = batch.pos /\ l = batch.left
  OBVIOUS
<1>3. Call = [seqs |-> S, pos |-> p, left |-> l]
  BY <1>2 DEF Call
<1>4. PICK u, v, w : u = p + n /\ v = l - n /\ batch' = [batch EXCEPT !.pos = u, !.left = v, !.slots = w]
  BY <1>2 DEF DecodeUbatch
<1>5. batch \in Batches
  BY <1>1 DEF IsBatch
<1>6. batch'.seqs = S /\ batch'.pos = u /\ batch'.left = v
  BY <1>2, <1>4, <1>5 DEF Batches
<1>7. batch' # None
  <2>1. batch' \in Batches
    BY <1>1, UnfinishedBatch DEF IsBatch
  <2> QED  BY <2>1, SizeAssumption
<1>8. Call' = [seqs |-> S, pos |-> u, left |-> v]
  BY <1>6, <1>7 DEF Call, Idle
<1>9. [Call EXCEPT !.pos = @ + n, !.left = @ - n] = [Call EXCEPT !.pos = u, !.left = v]
  BY <1>3, <1>4
<1>10. Rest(ACall(S, p, l), u, v) = ACall(S, u, v)
  <2>1. batch.pos \in Nat /\ batch.left \in Nat /\ Piece \in 1 .. batch.left
    BY <1>1, SlotSound DEF IsBatch
  <2>2. p \in Int /\ l \in Int /\ u \in Int /\ v \in Int
    BY <1>2, <1>4, <2>1
  <2>3. PICK X : S \in X
    BY S \in {S}
  <2> QED  BY <2>2, <2>3, RestOf
<1>11. Call = ACall(S, p, l) /\ Call' = ACall(S, u, v)
  BY <1>3, <1>8 DEF ACall
<1>12. Rest(Call, u, v) = [Call EXCEPT !.pos = u, !.left = v]
  BY DEF Rest
<1> QED  BY <1>9, <1>10, <1>11, <1>12

\* The steps of llama_decode.
LEMMA DecodeFollowed ==
    ASSUME MemInv, Decode
    PROVE  Followed /\ Fits(batch', next')
<1>1. CacheInv /\ Named(kv, next) /\ Sound(kv) /\ next \in Nat
  BY DEF MemInv, CacheInv
<1>2. Memory = View(kv) /\ Memory' = View(kv')
  BY MemoryIsView
<1>3. CASE DecodeUbatch
  <2>1. ~Idle /\ Slot.found
    BY <1>3 DEF DecodeUbatch
  <2>2. PICK c : c = Entered /\ Sound(c) /\ c.size = kv.size
    BY <1>1, <2>1, EnteredSound
  <2>3. PICK n : n = Piece
    OBVIOUS
  <2>4. /\ n \in 1 .. Call.left /\ Call.left = batch.left /\ Abstract!Busy
        /\ Named(c, next + n) /\ View(c) = Abstract!Stored(Memory, Call.seqs, Call.pos, n)
    BY <2>1, <2>2, <2>3, EnteredView
  <2>5. PICK h \in 0 .. c.size, b \in BOOLEAN : kv' = [c EXCEPT !.head = h, !.do_defrag = b]
    <3>1. PICK fragmented \in {FALSE, batch.left = Piece} :
            kv' = [c EXCEPT !.head = IF @ + Piece >= kv.size THEN 0 ELSE @ + Piece,
                            !.do_defrag = @ \/ fragmented]
      BY <1>3, <2>2 DEF DecodeUbatch, Entered
    <3>2. (IF c.head + Piece >= kv.size THEN 0 ELSE c.head + Piece) \in 0 .. c.size
      BY <1>1, <2>1, <2>2, SlotSound DEF Sound, IsCache
    <3>3. (c.do_defrag \/ fragmented) \in BOOLEAN
      OBVIOUS
    <3> QED  BY <3>1, <3>2, <3>3
  <2>6. PICK d : d = kv' /\ d.size = c.size /\ d.cells = c.cells
    <3>1. PICK d : d = [c EXCEPT !.head = h, !.do_defrag = b]
      OBVIOUS
    <3>2. d.size = c.size /\ d.cells = c.cells
      BY <2>2, <3>1, Requested
    <3> QED  BY <2>5, <3>1, <3>2
  <2>7. Alike(c, d, next + n)
    BY <2>4, <2>6, CellsAlike
  <2>8. next' = next + n
    BY <1>3, <2>3 DEF DecodeUbatch
  <2>13. Memory' = Abstract!Stored(Memory, Call.seqs, Call.pos, n)
    BY <1>2, <2>4, <2>6, <2>7 DEF Alike
  <2>14. IF n = Call.left THEN Call' = None /\ ret' = 0
         ELSE Call' = [Call EXCEPT !.pos = @ + n, !.left = @ - n] /\ ret' = None
    <3>1. CASE batch.left = Piece
      <4>1. batch' = None /\ ret' = 0
        BY <1>3, <3>1 DEF DecodeUbatch
      <4>2. Call' = None
        BY <4>1 DEF Call, Idle
      <4> QED  BY <2>3, <2>4, <3>1, <4>1, <4>2
    <3>2. CASE batch.left # Piece
      <4>1. ret' = None
        BY <1>3, <3>2 DEF DecodeUbatch
      <4>2. Call' = [Call EXCEPT !.pos = @ + n, !.left = @ - n]
        BY <2>1, <2>3, <3>2, <1>3, NextPiece
      <4> QED  BY <2>3, <2>4, <3>2, <4>1, <4>2
    <3> QED  BY <3>1, <3>2
  <2>9. Abstract!Store(n)
    BY <2>8, <2>13, <2>14 DEF Abstract!Store
  <2>10. Abstract!Next
    BY <2>4, <2>9 DEF Abstract!Next, Abstract!Evaluate
  <2>11. Followed
    BY <2>6, <2>7, <2>8, <2>10 DEF Followed, Alike
  <2>12. Fits(batch', next')
    <3>1. CASE batch.left = Piece
      BY <1>3, <3>1 DEF DecodeUbatch, Fits
    <3>2. CASE batch.left # Piece
      <4>1. IsBatch(batch, kv.size)
        BY <1>1, <2>1, SlotSound
      <4>2. PICK l \in Nat, m \in Nat : l = batch.left /\ m = Piece
        BY <1>1, <2>1, <4>1, SlotSound DEF IsBatch
      <4>3. PICK q \in Nat : q = batch.pos
        BY <4>1 DEF IsBatch
      <4>4. PICK slots : batch' = [batch EXCEPT !.pos = q + m, !.left = l - m, !.slots = slots]
        BY <1>3, <3>2, <4>2, <4>3 DEF DecodeUbatch
      <4>5. batch'.pos = q + m /\ batch'.left = l - m
        <5>1. PICK u, v : u = q + m /\ v = l - m
          OBVIOUS
        <5>2. batch' = [batch EXCEPT !.pos = u, !.left = v, !.slots = slots]
          BY <4>4, <5>1
        <5>3. batch'.pos = u /\ batch'.left = v
          BY <4>1, <5>2 DEF IsBatch
        <5> QED  BY <5>1, <5>3
      <4>6. q + l <= MaxPos + 1 /\ next + l <= MaxTokens + 1
        BY <2>1, <4>2, <4>3 DEF MemInv, Fits, Idle
      <4>7. next' = next + m
        BY <1>3, <4>2 DEF DecodeUbatch
      <4> QED  BY <1>1, <4>2, <4>3, <4>5, <4>6, <4>7, SizeAssumption DEF Fits
    <3> QED  BY <3>1, <3>2
  <2> QED  BY <2>11, <2>12
<1>4. CASE DecodeNoSlot
  <2>1. PICK c : c = Prepared /\ Sound(c) /\ Alike(kv, c, next)
    BY <1>1, PreparedSound, PreparedAlike
  <2>2. PICK h : kv' = [c EXCEPT !.head = h] /\ next' = next /\ batch' = None
    BY <1>4, <2>1 DEF DecodeNoSlot
  <2>3. PICK d : d = kv' /\ d.size = c.size /\ d.cells = c.cells
    BY <2>1, <2>2 DEF Sound, IsCache
  <2>4. Alike(c, d, next)
    BY <2>1, <2>3, CellsAlike DEF Alike
  <2>5. Alike(kv, d, next)
    BY <2>1, <2>4 DEF Alike
  <2>6. Memory' = Memory /\ Named(kv', next')
    BY <2>2, <2>3, <2>5, Unseen
  <2>7. ~Idle /\ batch' = None /\ ret' = 1
    BY <1>4 DEF DecodeNoSlot
  <2>8. Call' = None
    BY <2>7 DEF Call, Idle
  <2>9. Abstract!Busy
    BY <1>1, <2>7, CallBusy
  <2>10. Abstract!NoRoom
    BY <2>2, <2>6, <2>7, <2>8, <2>9 DEF Abstract!NoRoom
  <2>11. Followed
    BY <2>6, <2>10 DEF Followed, Abstract!Next, Abstract!Evaluate
  <2> QED  BY <2>2, <2>11 DEF Fits
<1>5. CASE DecodeComputeFail
  <2>1. ~Idle /\ Slot.found
    BY <1>5 DEF DecodeComputeFail
  <2>2. PICK c : c = Entered /\ Sound(c) /\ c.size = kv.size
    BY <1>1, <2>1, EnteredSound
  <2>3. PICK n : n = Piece
    OBVIOUS
  <2>4. /\ n \in 1 .. Call.left /\ Call.left = batch.left /\ Abstract!Busy
        /\ Named(c, next + n) /\ View(c) = Abstract!Stored(Memory, Call.seqs, Call.pos, n)
    BY <2>1, <2>2, <2>3, EnteredView
  <2>5. PICK b : b = [c EXCEPT !.head = batch.head] /\ batch.head \in 0 .. c.size
    <3>1. IsBatch(batch, kv.size)
      BY <1>1, <2>1, SlotSound
    <3> QED  BY <2>2, <3>1 DEF IsBatch
  <2>6. Sound(b) /\ b.size = c.size /\ b.cells = c.cells
    BY <2>2, <2>5, Reheaded
  <2>7. Named(b, next + n) /\ View(b) = View(c)
    BY <2>4, <2>6, CellsAlike DEF Alike
  <2>8. PICK P : kv' = Erased(b, SeqId, P)
    BY <1>5, <2>2, <2>5 DEF DecodeComputeFail, Restored, Entered
  <2>9. PICK d : d = kv' /\ d = Erased(b, SeqId, P)
    BY <2>8
  <2>10. Named(d, next + n) /\ View(d) = [t \in Toks(d) |-> View(b)[t]]
    BY <2>6, <2>7, <2>9, RestoredView
  <2>12. next' = next + n /\ batch' = None /\ ret' = -3
    BY <1>5, <2>3 DEF DecodeComputeFail
  <2>14. Call' = None
    BY <2>12 DEF Call, Idle
  <2>15. PICK m : m = Abstract!Stored(Memory, Call.seqs, Call.pos, n) /\ m = View(b)
    BY <2>4, <2>7
  <2>16. Memory' = [t \in DOMAIN Memory' |-> m[t]]
    <3>1. DOMAIN Memory' = Toks(d)
      BY <1>2, <2>9, ViewDomain
    <3> QED  BY <1>2, <2>9, <2>10, <2>15, <3>1
  <2>11. Abstract!Fail(n)
    BY <2>12, <2>14, <2>15, <2>16 DEF Abstract!Fail, Abstract!Restrict
  <2>13. Abstract!Next
    BY <2>4, <2>11 DEF Abstract!Next, Abstract!Evaluate
  <2> QED  BY <2>9, <2>10, <2>12, <2>13 DEF Followed, Fits
<1>6. CASE \E S \in (SUBSET SeqId) \ {{}}, n \in 1 .. MaxBatch : DecodeStart(S, n)
  <2>1. PICK S \in (SUBSET SeqId) \ {{}}, n \in 1 .. MaxBatch : DecodeStart(S, n)
    BY <1>6
  <2>2. PICK p : p = AppendPos(S)
    OBVIOUS
  <2>3. /\ batch' = [seqs |-> S, pos |-> p, left |-> n, slots |-> <<>>, head |-> kv.head]
        /\ kv' = kv /\ next' = next /\ next + n <= MaxTokens + 1 /\ p + n <= MaxPos + 1
    BY <2>1, <2>2 DEF DecodeStart
  <2>4. Alike(kv, kv, next) /\ p \in Nat
    BY <1>1, <2>2, AppendPosition DEF Alike
  <2>5. Memory' = Memory /\ Named(kv', next')
    BY <2>3, <2>4, Unseen
  <2>6. Fits(batch', next')
    BY <2>3 DEF Fits
  <2>7. Idle /\ ret' = None
    BY <2>1 DEF DecodeStart
  <2>8. Call = None /\ ~Abstract!Busy
    BY <2>7 DEF Call, Abstract!Busy
  <2>9. Call' = [seqs |-> S, pos |-> p, left |-> n] /\ Call' # None
    <3>1. CacheInv'
      BY <1>1, DecodeKeeps
    <3>2. PICK b, m : b = batch' /\ m = kv'.size
      OBVIOUS
    <3>3. b \in Batches /\ n \in Nat
      <4>1. n \in Nat /\ kv.head \in Nat /\ <<>> \in Seq(Nat \X Nat)
        BY <1>1, SizeAssumption DEF Sound, IsCache
      <4> QED  BY <2>3, <2>4, <3>2, <4>1 DEF Batches
    <3>4. batch' # None
      BY <3>2, <3>3, SizeAssumption
    <3>5. Call' = [seqs |-> batch'.seqs, pos |-> batch'.pos, left |-> batch'.left]
      BY <3>4 DEF Call, Idle
    <3>6. Call' = [seqs |-> S, pos |-> p, left |-> n]
      BY <2>3, <3>5
    <3>7. Call' \in Calls
      BY <2>4, <3>3, <3>6 DEF Calls
    <3> QED  BY <3>6, <3>7, SizeAssumption
  <2>10. n \in 1 .. MaxTokens + 1 - next /\ p \in 0 .. MaxPos
    <3>1. n \in Nat /\ n >= 1 /\ next \in Nat
      BY <1>1, SizeAssumption
    <3> QED  BY <2>3, <2>4, <3>1, SizeAssumption
  <2>11. Abstract!Begin(S, p, n)
    BY <2>3, <2>5, <2>7, <2>8, <2>9 DEF Abstract!Begin
  <2>12. Abstract!Evaluate
    BY <2>1, <2>9, <2>10, <2>11 DEF Abstract!Evaluate, Abstract!Busy
  <2>13. Followed
    BY <2>5, <2>12 DEF Followed, Abstract!Next
  <2> QED  BY <2>6, <2>13
<1>7. CASE DecodeRefused
  <2>1. Idle /\ kv' = kv /\ next' = next /\ batch' = batch /\ ret' = -1
    BY <1>7 DEF DecodeRefused
  <2>2. Alike(kv, kv, next)
    BY <1>1 DEF Alike
  <2>3. Memory' = Memory /\ Named(kv', next')
    BY <2>1, <2>2, Unseen
  <2>4. Abstract!Refuse
    BY <2>1, <2>3, Resting DEF Abstract!Refuse
  <2>5. Fits(batch', next')
    BY <2>1 DEF Fits, Idle
  <2> QED  BY <2>3, <2>4, <2>5 DEF Followed, Abstract!Next, Abstract!Evaluate
<1> QED  BY <1>3, <1>4, <1>5, <1>6, <1>7 DEF Decode

\* Loading a saved sequence.
LEMMA LoadFollowed ==
    ASSUME MemInv, NEW s \in SeqId, NEW n \in 1 .. MaxBatch, LoadSeq(s, n)
    PROVE  Followed
<1>1. /\ CacheInv /\ Named(kv, next) /\ Sound(kv) /\ next \in Nat /\ n \in Nat
      /\ kv.size \in Nat
  BY SizeAssumption DEF MemInv, CacheInv, Sound, IsCache
<1>2. PICK V, W : V = View(kv) /\ W = View(kv') /\ V = Memory /\ W = Memory'
  BY MemoryIsView
<1>3. PICK c : c = seq_rm(kv, {s}, 0, Infinity)
  OBVIOUS
<1>4. PICK S \in SUBSET SeqId : S = {s} /\ S # {}
  OBVIOUS
<1>5. c = Erased(kv, S, 0 .. Infinity - 1)
  BY <1>3, <1>4 DEF seq_rm
<1>6. Sound(c) /\ c.size = kv.size /\ c.has_shift = kv.has_shift
  BY <1>1, <1>5, ErasedSound, ErasedCells
<1>7. Named(c, next)
  <2>1. Reworks(kv, c)
    BY <1>1, <1>5, ErasedReworks
  <2> QED  BY <1>1, <2>1, ReworkedNames
<1>8. View(c) = Abstract!Without(Memory, s)
  <2>1. View(c) = Abstract!Removed(View(kv), S, 0, Infinity)
    BY <1>1, <1>5, RemovedView
  <2>2. Abstract!Removed(View(kv), {s}, 0, Infinity) = Abstract!Without(View(kv), s)
    BY <1>1, WithoutIs
  <2> QED  BY <1>2, <1>4, <2>1, <2>2
<1>9. PICK slot : slot = find_slot(c, n)
  OBVIOUS
<1>10. /\ next + n <= MaxTokens + 1 /\ n <= MaxPos + 1
       /\ kv' = IF slot.found THEN Stored(c, slot.head, {s}, 0, n, next, TRUE)
                ELSE [c EXCEPT !.head = slot.head]
       /\ next' = IF slot.found THEN next + n ELSE next
       /\ ret' = (IF slot.found THEN n ELSE 0) /\ Idle /\ batch' = batch
  BY <1>3, <1>9 DEF LoadSeq
<1>11. /\ slot.head \in 0 .. c.size /\ slot.found \in BOOLEAN
       /\ slot.found => slot.head + n <= c.size /\ Busy(c, n, slot.head) = {}
  BY <1>1, <1>6, <1>9, FindSlot DEF Sound
<1>14. ~Abstract!Busy /\ Call' = Call
  BY <1>10, Resting
<1>12. CASE slot.found
  <2>1. PICK h \in Nat : h = slot.head /\ h + n <= c.size
    BY <1>1, <1>6, <1>11, <1>12
  <2>2. \A i \in h .. h + n - 1 : c.cells[i].seq_id = {}
    BY <1>1, <1>6, <1>11, <1>12, <2>1, FoundFree
  <2>3. PICK p \in Nat : p = 0 /\ p + n <= MaxPos + 1
    BY <1>1, <1>10
  <2>11. PICK file \in BOOLEAN : file = TRUE
    OBVIOUS
  <2>4. PICK d : d = kv' /\ d = Stored(c, h, S, p, n, next, file)
    BY <1>4, <1>10, <1>12, <2>1, <2>3, <2>11
  <2>5. CanStore(c, h, S, p, n, next, file)
    BY <1>1, <1>4, <1>6, <2>1, <2>2, <2>3, <2>11 DEF CanStore
  <2>6. Named(d, next + n) /\ View(d) = Abstract!Stored(View(c), S, p, n)
    BY <1>7, <2>3, <2>4, <2>5, StoredView
  <2>7. next' = next + n /\ ret' = n
    BY <1>10, <1>12
  <2>8. Abstract!Load(s, n)
    BY <1>2, <1>4, <1>8, <1>14, <2>3, <2>4, <2>6, <2>7 DEF Abstract!Load
  <2>9. n \in 0 .. MaxTokens + 1 - next
    BY <1>1, <1>10, SizeAssumption
  <2>10. Abstract!Next
    BY <2>8, <2>9 DEF Abstract!Next
  <2> QED  BY <2>4, <2>6, <2>7, <2>10 DEF Followed
<1>13. CASE ~slot.found
  <2>1. PICK d : d = kv' /\ d = [c EXCEPT !.head = slot.head]
    BY <1>10, <1>13
  <2>2. d.size = c.size /\ d.cells = c.cells
    BY <1>6, <2>1 DEF Sound, IsCache
  <2>3. Alike(c, d, next)
    BY <1>7, <2>2, CellsAlike
  <2>4. next' = next + 0 /\ next' = next /\ ret' = 0
    BY <1>1, <1>10, <1>13
  <2>5. View(c) = Abstract!Stored(View(c), {s}, 0, 0)
    <3>1. next .. next + 0 - 1 = {}
      BY <1>1
    <3>2. ASSUME NEW t \in Toks(c) PROVE t < next
      BY <1>7 DEF Toks, Named
    <3>3. View(c) = [t \in Toks(c) |-> View(c)[t]] /\ DOMAIN View(c) = Toks(c)
      BY ViewDomain
    <3>4. Abstract!Stored(View(c), {s}, 0, 0)
            = [t \in Toks(c) |-> IF t < next THEN View(c)[t] ELSE [pos |-> 0 + t - next, seqs |-> {s}]]
      BY <3>1, <3>3 DEF Abstract!Stored
    <3> QED  BY <3>2, <3>3, <3>4
  <2>6. Abstract!Load(s, 0)
    BY <1>2, <1>8, <1>14, <2>1, <2>3, <2>4, <2>5 DEF Abstract!Load, Alike
  <2>7. 0 \in 0 .. MaxTokens + 1 - next
    BY <1>1, <1>10, SizeAssumption
  <2>8. Abstract!Next
    BY <2>6, <2>7 DEF Abstract!Next
  <2> QED  BY <2>1, <2>3, <2>4, <2>8 DEF Followed, Alike
<1> QED  BY <1>11, <1>12, <1>13

\* The initial cache.
LEMMA InitFollowed ==
    ASSUME Init PROVE MemInv /\ Abstract!Init
<1>1. PICK n \in Sizes :
        kv = [size |-> n, cells |-> [i \in 0 .. n - 1 |-> NewCell], head |-> 0, used |-> 0,
              has_shift |-> FALSE, do_defrag |-> FALSE]
  BY DEF Init
<1>2. \A i \in Cells(kv) : kv.cells[i].seq_id = {} /\ kv.cells[i].tok = None
  BY <1>1 DEF Cells, NewCell
<1>3. Named(kv, next) /\ View(kv) = <<>>
  BY <1>2, EmptyView
<1>4. Memory = <<>>
  BY <1>3, MemoryIsView
<1>5. CacheInv
  BY InitSound
<1>6. Call = None /\ ret = None /\ next = 1 /\ batch = None
  BY DEF Init, Call, Idle
<1> QED  BY <1>3, <1>4, <1>5, <1>6 DEF Abstract!Init, MemInv, Fits

\* For every size of the cache, any number of sequences and every limit, the KV
\* cache is the memory of sequences that llama.h describes: no search, reuse,
\* move or pending rotation loses, duplicates or mixes up tokens.  An evaluation
\* that returns 0 has stored its tokens and lost no other, one that is refused or
\* finds no room loses none, and one that fails in the middle does not move or
\* mix up those that remain.
THEOREM CacheImplementsMemory == Spec => ImplementsSequenceMemory
<1>1. ASSUME CacheInv, Next PROVE CacheInv'
  <2>1. CASE Decode
    BY <1>1, <2>1, DecodeKeeps
  <2>2. CASE ~Decode
    BY <1>1, <2>2, InterfaceKeeps, LoadKeeps DEF Next
  <2> QED  BY <2>1, <2>2
<1>2. ASSUME MemInv, [Next]_vars
      PROVE  MemInv' /\ [Abstract!Next]_(Abstract!vars)
  <2>1. ASSUME Followed, CacheInv', Fits(batch', next')
        PROVE  MemInv' /\ [Abstract!Next]_(Abstract!vars)
    BY <2>1 DEF Followed, MemInv, Abstract!vars
  <2>2. CASE Decode
    <3>1. CacheInv'
      BY <1>2, <2>2, DecodeKeeps DEF MemInv
    <3> QED  BY <1>2, <2>1, <2>2, <3>1, DecodeFollowed
  <2>3. CASE Next /\ ~Decode
    <3>1. CacheInv'
      BY <1>1, <1>2, <2>3 DEF MemInv
    <3>2. Followed
      BY <1>2, <2>3, EditsFollowed, UpkeepFollowed, LoadFollowed DEF Next
    <3>3. CASE Idle
      <4>1. batch' = None
        BY <2>3, <3>3 DEF Next, Idle, SeqRm, SeqCp, SeqDiv, SeqAdd, SeqKeep, LoadSeq, Clear,
                          Defrag, Update
      <4>2. Fits(batch', next')
        BY <4>1 DEF Fits
      <4> QED  BY <2>1, <3>1, <3>2, <4>2
    <3>4. Idle
      BY <2>3 DEF Next, SeqRm, SeqCp, SeqDiv, SeqAdd, SeqKeep, LoadSeq, Clear, Defrag, Update
    <3> QED  BY <3>3, <3>4
  <2>4. CASE UNCHANGED vars
    <3>1. CacheInv'
      BY <1>2, <2>4 DEF vars, MemInv, CacheInv
    <3>2. Alike(kv, kv, next) /\ kv' = kv /\ next' = next /\ batch' = batch
      BY <1>2, <2>4 DEF vars, MemInv, Alike
    <3>3. Followed
      <4>1. Memory' = Memory /\ Named(kv', next')
        BY <3>2, Unseen
      <4>2. Call' = Call /\ ret' = ret
        BY <2>4, <3>2 DEF vars, Call, Idle
      <4> QED  BY <3>2, <4>1, <4>2 DEF Followed
    <3>4. Fits(batch', next')
      BY <1>2, <3>2 DEF MemInv
    <3> QED  BY <2>1, <3>1, <3>3, <3>4
  <2> QED  BY <1>2, <2>2, <2>3, <2>4
<1> QED  BY <1>2, InitFollowed, PTL DEF Spec, ImplementsSequenceMemory, Abstract!Spec
=============================================================================
