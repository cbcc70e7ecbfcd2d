--------------------------- MODULE ServerTasksProofs ---------------------------
(***************************************************************************)
(* Theorems about ServerTasks, for every number of clients, slots and      *)
(* tasks and for every set of requests.                                    *)
(***************************************************************************)
EXTENDS ServerTasks, FiniteSetTheorems, FunctionTheorems, SequenceTheorems, TLAPS

-----------------------------------------------------------------------------
(* Sequences and sets of numbers.                                          *)

\* The least-number principle, from the well-foundedness of strict inclusion on
\* finite sets.
LEMMA LeastElement ==
    ASSUME NEW S \in SUBSET Nat, S # {}
    PROVE  Min(S) \in S /\ \A k \in S : Min(S) <= k
<1> DEFINE R == StrictSubsetOrdering(Nat)
           T == {0 .. k : k \in S}
<1>1. IsWellFoundedOn(R, FiniteSubsetsOf(Nat))
  BY FS_StrictSubsetOrderingWellFounded
<1>2. T \subseteq FiniteSubsetsOf(Nat) /\ T # {}
  <2>1. \A k \in S : 0 .. k \in SUBSET Nat /\ IsFiniteSet(0 .. k)
    BY FS_Interval
  <2> QED  BY <2>1 DEF FiniteSubsetsOf
<1> HIDE DEF R
<1>3. \E x \in T : \A y \in T : ~(<<y, x>> \in R)
  BY <1>1, <1>2, WFMin
<1>4. PICK m \in S : \A k \in S : ~(<<0 .. k, 0 .. m>> \in R)
  BY <1>3
<1>5. ASSUME NEW k \in S, k < m PROVE <<0 .. k, 0 .. m>> \in R
  BY <1>5, 0 .. k \subseteq 0 .. m, m \in 0 .. m, m \notin 0 .. k DEF R, StrictSubsetOrdering
<1>6. \A k \in S : ~(k < m)
  BY <1>4, <1>5
<1>7. \A k \in S : m <= k
  BY <1>6
<1> QED  BY <1>7 DEF Min

\* InOrder counts the elements of a finite set of numbers from 1, in their order.
LEMMA InOrderProperties ==
    ASSUME NEW I \in SUBSET Nat, IsFiniteSet(I)
    PROVE  /\ Cardinality(I) \in Nat
           /\ InOrder(I) \in [1 .. Cardinality(I) -> I]
           /\ \A i \in I : \E n \in 1 .. Cardinality(I) : InOrder(I)[n] = i
           /\ \A m, n \in 1 .. Cardinality(I) : m < n => InOrder(I)[m] < InOrder(I)[n]
<1> DEFINE N == Cardinality(I)
           below(i) == {j \in I : j <= i}
           rank == [i \in I |-> Cardinality(below(i))]
<1>1. N \in Nat
  BY FS_CardinalityType
<1>2. ASSUME NEW i \in I PROVE IsFiniteSet(below(i)) /\ Cardinality(below(i)) \in 1 .. N
  <2>1. below(i) \in SUBSET I /\ i \in below(i)
    OBVIOUS
  <2>2. IsFiniteSet(below(i)) /\ Cardinality(below(i)) <= N /\ Cardinality(below(i)) \in Nat
    BY <2>1, FS_Subset, FS_CardinalityType
  <2>3. Cardinality(below(i)) # 0
    BY <2>1, <2>2, FS_EmptySet
  <2> QED  BY <1>1, <2>2, <2>3
<1>3. ASSUME NEW i \in I, NEW j \in I, i < j PROVE Cardinality(below(i)) < Cardinality(below(j))
  <2>0. j <= j /\ ~(j <= i) /\ \A k \in I : k <= i => k <= j
    BY <1>3
  <2>1. below(i) \in SUBSET below(j) /\ j \in below(j) /\ j \notin below(i)
    BY <2>0
  <2>2. IsFiniteSet(below(j)) /\ Cardinality(below(i)) \in Nat /\ Cardinality(below(j)) \in Nat
    BY <1>1, <1>2
  <2> HIDE DEF below
  <2>3. Cardinality(below(i)) <= Cardinality(below(j)) /\ Cardinality(below(j)) # Cardinality(below(i))
    BY <2>1, <2>2, FS_Subset
  <2> QED  BY <2>2, <2>3
<1>4. rank \in [I -> 1 .. N] /\ \A i, j \in I : i < j => rank[i] < rank[j]
  BY <1>2, <1>3
<1> HIDE DEF rank
<1>11. \A i, j \in I : rank[i] \in Nat /\ (i # j => i < j \/ j < i)
  BY <1>1, <1>4
<1>12. \A i, j \in I : rank[i] = rank[j] => i = j
  BY <1>4, <1>11
<1>5. rank \in Injection(I, 1 .. N)
  BY <1>4, <1>12 DEF Injection, IsInjective
<1>6. rank \in Surjection(I, 1 .. N)
  <2>1. IsFiniteSet(1 .. N) /\ Cardinality(1 .. N) = N
    BY <1>1, FS_Interval
  <2> QED  BY <1>5, <2>1, FS_Injection
<1>7. \A n \in 1 .. N : InOrder(I)[n] \in I /\ rank[InOrder(I)[n]] = n
  <2>1. \A n \in 1 .. N : \E i \in I : rank[i] = n
    BY <1>6 DEF Surjection
  <2> QED  BY <2>1 DEF InOrder, rank
<1>8. InOrder(I) \in [1 .. N -> I]
  BY <1>7 DEF InOrder
<1>9. \A i \in I : rank[i] \in 1 .. N /\ InOrder(I)[rank[i]] = i
  BY <1>4, <1>7, <1>12
<1>10. ASSUME NEW m \in 1 .. N, NEW n \in 1 .. N, m < n PROVE InOrder(I)[m] < InOrder(I)[n]
  <2> DEFINE i == InOrder(I)[m]
             j == InOrder(I)[n]
  <2>1. i \in I /\ j \in I /\ rank[i] = m /\ rank[j] = n
    BY <1>7
  <2> HIDE DEF i, j
  <2>2. i < j
    BY <1>1, <1>4, <1>10, <1>11, <2>1
  <2> QED  BY <2>2 DEF i, j
<1> QED  BY <1>1, <1>8, <1>9, <1>10

\* Kept is the subsequence at the places in I.
LEMMA KeptProperties ==
    ASSUME NEW S, NEW q \in Seq(S), NEW I \in SUBSET DOMAIN q
    PROVE  /\ Kept(q, I) \in Seq(S)
           /\ DOMAIN Kept(q, I) = 1 .. Cardinality(I) /\ Cardinality(I) \in Nat
           /\ \A n \in DOMAIN Kept(q, I) : InOrder(I)[n] \in I /\ Kept(q, I)[n] = q[InOrder(I)[n]]
           /\ \A i \in I : \E n \in DOMAIN Kept(q, I) : InOrder(I)[n] = i
           /\ \A m, n \in DOMAIN Kept(q, I) : m < n => InOrder(I)[m] < InOrder(I)[n]
<1>1. Len(q) \in Nat /\ DOMAIN q = 1 .. Len(q) /\ \A i \in DOMAIN q : q[i] \in S
  BY LenProperties, ElementOfSeq
<1>2. I \in SUBSET Nat /\ IsFiniteSet(I)
  <2>1. IsFiniteSet(1 .. Len(q))
    BY <1>1, FS_Interval
  <2> QED  BY <1>1, <2>1, FS_Subset
<1> DEFINE N == Cardinality(I)
<1>3. /\ N \in Nat /\ InOrder(I) \in [1 .. N -> I]
      /\ \A i \in I : \E n \in 1 .. N : InOrder(I)[n] = i
      /\ \A m, n \in 1 .. N : m < n => InOrder(I)[m] < InOrder(I)[n]
  BY <1>2, InOrderProperties
<1>4. DOMAIN Kept(q, I) = 1 .. N /\ \A n \in 1 .. N : Kept(q, I)[n] = q[InOrder(I)[n]]
  BY DEF Kept
<1>5. Kept(q, I) \in [1 .. N -> S]
  BY <1>1, <1>3, <1>4 DEF Kept
<1>6. Kept(q, I) \in Seq(S)
  BY <1>3, <1>5, SeqDef
<1> QED  BY <1>3, <1>4, <1>6

\* Keeping all the places, or none of them.
LEMMA KeptAllOrNone ==
    ASSUME NEW S, NEW q \in Seq(S)
    PROVE  Kept(q, DOMAIN q) = q /\ Kept(q, {}) = <<>>
<1>1. Len(q) \in Nat /\ DOMAIN q = 1 .. Len(q) /\ q = [i \in 1 .. Len(q) |-> q[i]]
  BY LenProperties
<1> DEFINE N == Len(q)
           I == 1 .. N
<1>2. Cardinality(I) = N
  BY <1>1, FS_Interval
<1>3. ASSUME NEW n \in I PROVE InOrder(I)[n] = n
  <2>1. ASSUME NEW i \in I PROVE Cardinality({j \in I : j <= i}) = i
    <3>1. {j \in I : j <= i} = 1 .. i
      BY <1>1
    <3>2. Cardinality(1 .. i) = i
      BY <1>1, FS_Interval
    <3> QED  BY <3>1, <3>2
  <2> QED  BY <1>2, <2>1 DEF InOrder
<1>4. Kept(q, DOMAIN q) = q
  BY <1>1, <1>2, <1>3 DEF Kept
<1>5. Kept(q, {}) = <<>>
  <2>1. Kept(q, {}) \in Seq(S) /\ DOMAIN Kept(q, {}) = 1 .. 0
    BY KeptProperties, FS_EmptySet
  <2>2. Len(Kept(q, {})) \in Nat /\ 1 .. Len(Kept(q, {})) = 1 .. 0
    BY <2>1, LenProperties
  <2> QED  BY <2>1, <2>2, EmptySeq
<1> QED  BY <1>4, <1>5

\* ... and has the elements at those places.
LEMMA KeptSet ==
    ASSUME NEW S, NEW q \in Seq(S), NEW I \in SUBSET DOMAIN q
    PROVE  ToSet(Kept(q, I)) = {q[i] : i \in I}
BY KeptProperties DEF ToSet

\* The elements of the sequences that the queues go through.
LEMMA ToSetProperties ==
    ASSUME NEW S, NEW q \in Seq(S), NEW r \in Seq(S), NEW e \in S
    PROVE  /\ ToSet(q) \subseteq S /\ ToSet(<<>>) = {}
           /\ ToSet(Append(q, e)) = ToSet(q) \cup {e}
           /\ ToSet(q \o r) = ToSet(q) \cup ToSet(r)
           /\ q # <<>> => ToSet(q) = {Head(q)} \cup ToSet(Tail(q))
<1>1. /\ Len(q) \in Nat /\ DOMAIN q = 1 .. Len(q) /\ \A i \in DOMAIN q : q[i] \in S
      /\ Len(r) \in Nat /\ DOMAIN r = 1 .. Len(r)
  BY LenProperties, ElementOfSeq
<1>2. ToSet(q) \subseteq S /\ ToSet(<<>>) = {}
  BY <1>1 DEF ToSet
<1>3. ToSet(Append(q, e)) = ToSet(q) \cup {e}
  BY <1>1, AppendProperties, LenProperties DEF ToSet
<1>4. ToSet(q \o r) = ToSet(q) \cup ToSet(r)
  <2>1. q \o r \in Seq(S) /\ DOMAIN (q \o r) = 1 .. Len(q) + Len(r)
    BY <1>1, ConcatProperties, LenProperties
  <2>2. /\ \A i \in 1 .. Len(q) : (q \o r)[i] = q[i] /\ i \in DOMAIN (q \o r)
        /\ \A i \in 1 .. Len(r) : (q \o r)[Len(q) + i] = r[i] /\ Len(q) + i \in DOMAIN (q \o r)
        /\ \A i \in DOMAIN (q \o r) :
             \/ i \in 1 .. Len(q)
             \/ i - Len(q) \in 1 .. Len(r) /\ (q \o r)[i] = r[i - Len(q)]
    BY <1>1, <2>1, ConcatProperties
  <2>3. \A x \in ToSet(q \o r) : x \in ToSet(q) \/ x \in ToSet(r)
    BY <1>1, <2>2 DEF ToSet
  <2>4. \A x \in ToSet(q) : x \in ToSet(q \o r)
    BY <1>1, <2>2 DEF ToSet
  <2>5. \A x \in ToSet(r) : x \in ToSet(q \o r)
    BY <1>1, <2>2 DEF ToSet
  <2> QED  BY <2>3, <2>4, <2>5
<1>5. ASSUME q # <<>> PROVE ToSet(q) = {Head(q)} \cup ToSet(Tail(q))
  <2>1. /\ Len(q) \in Nat \ {0} /\ Head(q) = q[1] /\ DOMAIN Tail(q) = 1 .. Len(q) - 1
        /\ \A i \in 1 .. Len(q) - 1 : Tail(q)[i] = q[i + 1]
    <3>1. Len(q) \in Nat \ {0}
      BY <1>5, EmptySeq
    <3>2. /\ Tail(q) \in Seq(S) /\ Len(Tail(q)) = Len(q) - 1
          /\ \A i \in 1 .. Len(Tail(q)) : Tail(q)[i] = q[i + 1]
      BY <1>5, HeadTailProperties
    <3>3. DOMAIN Tail(q) = 1 .. Len(Tail(q))
      BY <3>2, LenProperties
    <3>4. Head(q) = q[1]
      BY <1>5
    <3> QED  BY <3>1, <3>2, <3>3, <3>4
  <2> DEFINE t == Tail(q)
             h == Head(q)
  <2>2. h = q[1] /\ DOMAIN t = 1 .. Len(q) - 1 /\ \A i \in 1 .. Len(q) - 1 : t[i] = q[i + 1]
    BY <2>1
  <2> HIDE DEF t, h
  <2>3. \A i \in DOMAIN q : i # 1 => i - 1 \in DOMAIN t /\ t[i - 1] = q[i]
    <3>1. \A i \in DOMAIN q : i # 1 => i - 1 \in DOMAIN t /\ (i - 1) + 1 = i
      BY <1>1, <2>1, <2>2
    <3> QED  BY <2>2, <3>1
  <2>4. 1 \in DOMAIN q /\ \A i \in DOMAIN t : i + 1 \in DOMAIN q
    BY <1>1, <2>1, <2>2
  <2>5. ToSet(q) = {h} \cup ToSet(t)
    BY <2>2, <2>3, <2>4 DEF ToSet
  <2> QED  BY <2>5 DEF t, h
<1> QED  BY <1>2, <1>3, <1>4, <1>5

-----------------------------------------------------------------------------
(* What the queue operations do.                                           *)

Kinds    == {"partial", "final", "error"}
Results  == [id : TaskId, kind : Kinds]

\* The sequences of results that are sent for task t.
Messages(t) ==
    {<<>>} \cup {<<Result(t, k)>> : k \in Kinds} \cup {<<Result(t, "partial"), Result(t, "final")>>}

\* send delivers all of a task's results or none of them.
LEMMA SendProperties ==
    ASSUME TypeOK, NEW t, NEW seq \in Messages(t), Send(seq)
    PROVE  /\ results' \in Seq(Results)
           /\ t \in waiting => results' = results \o seq /\ seq \in Seq(Results)
           /\ t \notin waiting => results' = results
<1> DEFINE S == [id : {t}, kind : Kinds]
           I == {i \in DOMAIN seq : seq[i].id \in waiting}
<1>1. seq \in Seq(S) /\ \A i \in DOMAIN seq : seq[i].id = t
  <2>1. \A k \in Kinds : Result(t, k) \in S
    BY DEF Result
  <2> HIDE DEF S
  <2>2. CASE seq = <<>>
    BY <2>2, EmptySeq
  <2>3. ASSUME NEW k \in Kinds, seq = <<Result(t, k)>> PROVE seq \in Seq(S)
    BY <2>1, <2>3
  <2>4. ASSUME seq = <<Result(t, "partial"), Result(t, "final")>> PROVE seq \in Seq(S)
    BY <2>1, <2>4 DEF Kinds
  <2>5. seq \in Seq(S)
    BY <2>2, <2>3, <2>4 DEF Messages
  <2>6. \A i \in DOMAIN seq : seq[i] \in S
    BY <2>5, LenProperties
  <2> QED  BY <2>5, <2>6 DEF S
<1>2. results \in Seq(Results) /\ results' = results \o Kept(seq, I)
  BY DEF Send, TypeOK, Results, Kinds
<1>3. CASE t \in waiting
  <2>1. I = DOMAIN seq
    BY <1>1, <1>3
  <2>2. results' = results \o seq
    BY <1>1, <1>2, <2>1, KeptAllOrNone
  <2>3. S \subseteq Results
    BY <1>3 DEF TypeOK, Results
  <2>4. seq \in Seq(Results)
    BY <1>1, <2>3, SeqMonotonic
  <2> QED  BY <1>2, <1>3, <2>2, <2>4, ConcatProperties
<1>4. CASE t \notin waiting
  <2>1. I = {}
    BY <1>1, <1>4
  <2>2. results' = results \o <<>>
    BY <1>1, <1>2, <2>1, KeptAllOrNone
  <2> QED  BY <1>2, <1>4, <2>2, ConcatEmptySeq
<1> QED  BY <1>3, <1>4

\* Two one-element sequences make a pair.
LEMMA PairConcat == \A a, b : <<a>> \o <<b>> = <<a, b>>
<1>1. SUFFICES ASSUME NEW a, NEW b PROVE <<a>> \o <<b>> = <<a, b>>
  OBVIOUS
<1>2. <<a>> \in Seq({a, b}) /\ <<b>> \in Seq({a, b}) /\ <<a, b>> \in Seq({a, b})
  OBVIOUS
<1>3. Len(<<a>>) = 1 /\ Len(<<b>>) = 1 /\ Len(<<a, b>>) = 2
  OBVIOUS
<1> DEFINE c == <<a>> \o <<b>>
<1>4. c \in Seq({a, b}) /\ Len(c) = 2 /\ c[1] = a /\ c[2] = b
  BY <1>2, <1>3, ConcatProperties
<1> HIDE DEF c
<1>5. \A i \in 1 .. Len(c) : c[i] = <<a, b>>[i]
  BY <1>4
<1>6. c = <<a, b>>
  BY <1>2, <1>3, <1>4, <1>5, SeqEqual
<1> QED  BY <1>6 DEF c

\* What the steps send are such sequences.
LEMMA MessagesSent ==
    /\ \A t, k : k \in Kinds => <<Result(t, k)>> \in Messages(t)
    /\ \A s \in Slot : /\ Partial(s) \in Messages(job[s].id)
                       /\ Partial(s) \o <<Result(job[s].id, "final")>> \in Messages(job[s].id)
<1>1. ASSUME NEW s \in Slot
      PROVE  /\ Partial(s) \in Messages(job[s].id)
             /\ Partial(s) \o <<Result(job[s].id, "final")>> \in Messages(job[s].id)
  <2>1. CASE job[s].stream
    <3>1. Partial(s) \o <<Result(job[s].id, "final")>> =
            <<Result(job[s].id, "partial"), Result(job[s].id, "final")>>
      BY <2>1, PairConcat DEF Partial
    <3> QED  BY <2>1, <3>1 DEF Partial, Messages, Kinds
  <2>2. CASE ~job[s].stream
    <3> DEFINE last == <<Result(job[s].id, "final")>>
    <3>1. last \in Seq({Result(job[s].id, "final")})
      OBVIOUS
    <3> HIDE DEF last
    <3>2. Partial(s) \o last = last
      BY <2>2, <3>1, ConcatEmptySeq DEF Partial
    <3> QED  BY <2>2, <3>2 DEF Partial, Messages, Kinds, last
  <2> QED  BY <2>1, <2>2
<1> QED  BY <1>1 DEF Messages

\* pop_deferred_task moves a task between two sequences of tasks.
LEMMA PopDeferredType ==
    ASSUME TypeOK, NEW q \in Seq(Tasks), PopDeferred(q)
    PROVE  queue' \in Seq(Tasks) /\ deferred' \in Seq(Tasks)
<1>1. CASE deferred = <<>>
  BY <1>1 DEF PopDeferred, TypeOK
<1>2. CASE deferred # <<>>
  <2>1. Head(deferred) \in Tasks /\ Tail(deferred) \in Seq(Tasks)
    BY <1>2, HeadTailProperties DEF TypeOK
  <2>2. PICK h \in Tasks : h = Head(deferred)
    BY <2>1
  <2>3. Append(q, h) \in Seq(Tasks)
    BY AppendProperties
  <2>4. queue' = Append(q, h) /\ deferred' = Tail(deferred)
    BY <1>2, <2>2 DEF PopDeferred
  <2> QED  BY <2>1, <2>3, <2>4
<1> QED  BY <1>1, <1>2

\* What the loop takes from the queue is a task, and what is left a queue.
LEMMA TakesType ==
    ASSUME TypeOK, NEW types, Takes(types)
    PROVE  /\ queue # <<>> /\ Task \in Tasks /\ Task.type \in types /\ Rest \in Seq(Tasks)
           /\ queue \in Seq(Tasks)
BY HeadTailProperties DEF Takes, Task, Rest, TypeOK

-----------------------------------------------------------------------------
(* Type correctness.                                                       *)

\* A handler has its request, and an id for each of its prompts, until it
\* returns.
ClientOK(c) ==
    /\ at[c] = "idle" => req[c] = None /\ ids[c] = {} /\ got[c] = {} /\ count[c] = 0
    /\ at[c] # "idle" => req[c] \in Requests /\ Cardinality(ids[c]) = req[c].prompts

ClientsOK == \A c \in Client : ClientOK(c)

TypeInv == TypeOK /\ ClientsOK

\* The tasks that handlers post are tasks.
LEMMA NewTasks ==
    /\ NoTask \in Tasks /\ NextResponse \in Tasks
    /\ \A r \in Requests, t \in TaskId : TaskOf(r, t) \in Tasks
    /\ \A t \in TaskId : CancelOf(t) \in Tasks
BY RequestAssumption DEF NoTask, NextResponse, TaskOf, CancelOf, Tasks, AllRequests

\* A set of task ids is finite, and InOrder lists it.
LEMMA IdsInOrder ==
    ASSUME NEW I \in SUBSET TaskId
    PROVE  /\ IsFiniteSet(I) /\ Cardinality(I) \in Nat
           /\ InOrder(I) \in [1 .. Cardinality(I) -> I]
           /\ \A t \in I : \E n \in 1 .. Cardinality(I) : InOrder(I)[n] = t
           /\ \A m, n \in 1 .. Cardinality(I) : InOrder(I)[m] = InOrder(I)[n] => m = n
<1>1. TaskId \subseteq Nat /\ IsFiniteSet(TaskId)
  BY TaskAssumption, FS_Interval DEF TaskId
<1>2. I \in SUBSET Nat /\ IsFiniteSet(I)
  BY <1>1, FS_Subset
<1> DEFINE N == Cardinality(I)
<1>3. /\ N \in Nat /\ InOrder(I) \in [1 .. N -> I]
      /\ \A t \in I : \E n \in 1 .. N : InOrder(I)[n] = t
      /\ \A m, n \in 1 .. N : m < n => InOrder(I)[m] < InOrder(I)[n]
  BY <1>2, InOrderProperties
<1> HIDE DEF N
<1>4. \A m, n \in 1 .. N : InOrder(I)[m] = InOrder(I)[n] => m = n
  <2>1. ASSUME NEW m \in 1 .. N, NEW n \in 1 .. N, InOrder(I)[m] = InOrder(I)[n] PROVE m = n
    <3>1. InOrder(I)[m] \in Nat
      BY <1>2, <1>3
    <3>2. ~(InOrder(I)[m] < InOrder(I)[n]) /\ ~(InOrder(I)[n] < InOrder(I)[m])
      BY <2>1, <3>1
    <3>3. ~(m < n) /\ ~(n < m) /\ m \in Nat /\ n \in Nat
      BY <1>3, <3>2
    <3> QED  BY <3>3
  <2> QED  BY <2>1
<1> QED  BY <1>2, <1>3, <1>4 DEF N

\* The tasks that a handler posts, and the cancel tasks that it posts.
Posted(c)  == [i \in 1 .. Cardinality(ids[c]) |-> TaskOf(req[c], InOrder(ids[c])[i])]
Cancels(c) == [i \in 1 .. Cardinality(ids[c]) |-> CancelOf(InOrder(ids[c])[i])]

\* A handler posts tasks; reversing its cancel tasks loses none.
LEMMA PostedType ==
    ASSUME TypeOK, NEW c \in Client
    PROVE  /\ req[c] \in Requests => Posted(c) \in Seq(Tasks)
           /\ Cancels(c) \in Seq(Tasks) /\ Reverse(Cancels(c)) \in Seq(Tasks)
           /\ ToSet(Reverse(Cancels(c))) = ToSet(Cancels(c))
<1> DEFINE N == Cardinality(ids[c])
<1>1. N \in Nat /\ \A n \in 1 .. N : InOrder(ids[c])[n] \in TaskId
  <2>1. ids[c] \in SUBSET TaskId
    BY DEF TypeOK
  <2>2. N \in Nat /\ InOrder(ids[c]) \in [1 .. N -> ids[c]]
    BY <2>1, IdsInOrder
  <2> QED  BY <2>1, <2>2
<1>2. req[c] \in Requests => Posted(c) \in [1 .. N -> Tasks]
  BY <1>1, NewTasks DEF Posted
<1>3. Cancels(c) \in [1 .. N -> Tasks]
  BY <1>1, NewTasks DEF Cancels
<1>4. Cancels(c) \in Seq(Tasks) /\ (req[c] \in Requests => Posted(c) \in Seq(Tasks))
  BY <1>1, <1>2, <1>3, SeqDef
<1>5. Len(Cancels(c)) = N
  BY <1>1, <1>3, <1>4, LenProperties
<1> HIDE DEF N
<1> DEFINE rev == Reverse(Cancels(c))
<1>6. rev = [i \in 1 .. N |-> Cancels(c)[N - i + 1]]
  BY <1>5 DEF Reverse
<1>7. \A i \in 1 .. N : N - i + 1 \in 1 .. N /\ N - (N - i + 1) + 1 = i
  BY <1>1
<1>8. rev \in [1 .. N -> Tasks]
  BY <1>3, <1>6, <1>7
<1>9. rev \in Seq(Tasks)
  BY <1>1, <1>8, SeqDef
<1> HIDE DEF rev
<1>10. ToSet(rev) = ToSet(Cancels(c))
  <2>1. DOMAIN rev = 1 .. N /\ DOMAIN Cancels(c) = 1 .. N
    BY <1>3, <1>8
  <2>2. \A i \in 1 .. N : rev[i] = Cancels(c)[N - i + 1] /\ Cancels(c)[i] = rev[N - i + 1]
    BY <1>6, <1>7
  <2> QED  BY <1>7, <2>1, <2>2 DEF ToSet
<1> QED  BY <1>4, <1>9, <1>10 DEF rev

\* A cleaned queue is a queue of tasks.
LEMMA CleanedType ==
    ASSUME NEW q \in Seq(Tasks), NEW I
    PROVE  Cleaned(q, I) \in Seq(Tasks)
BY KeptProperties DEF Cleaned

\* The results a handler leaves behind are results.
LEMMA UnreadType ==
    ASSUME TypeOK, NEW I
    PROVE  Unread(I) \in Seq(Results)
BY KeptProperties DEF Unread, TypeOK, Results, Kinds

\* Taking the i-th element out of a sequence.
LEMMA RemoveAtProperties ==
    ASSUME NEW S, NEW q \in Seq(S), NEW i \in DOMAIN q
    PROVE  /\ RemoveAt(q, i) \in Seq(S) /\ DOMAIN RemoveAt(q, i) = 1 .. Len(q) - 1
           /\ \A n \in 1 .. Len(q) - 1 : RemoveAt(q, i)[n] = IF n < i THEN q[n] ELSE q[n + 1]
<1>1. Len(q) \in Nat /\ DOMAIN q = 1 .. Len(q) /\ i \in 1 .. Len(q)
      /\ \A n \in 1 .. Len(q) : q[n] \in S
  BY LenProperties, ElementOfSeq
<1> DEFINE a == SubSeq(q, 1, i - 1)
           b == SubSeq(q, i + 1, Len(q))
<1>2. /\ a \in Seq(S) /\ Len(a) = i - 1 /\ \A n \in 1 .. i - 1 : a[n] = q[n]
  <2>1. \A n \in 1 .. i - 1 : q[n] \in S
    BY <1>1
  <2>2. i - 1 \in Int /\ 1 \in Int /\ (i - 1) - 1 + 1 = i - 1 /\ \A n \in 1 .. i - 1 : 1 + n - 1 = n
    BY <1>1
  <2>3. /\ a \in Seq(S) /\ Len(a) = IF 1 <= i - 1 THEN (i - 1) - 1 + 1 ELSE 0
        /\ \A n \in 1 .. (i - 1) - 1 + 1 : a[n] = q[1 + n - 1]
    BY <2>1, <2>2, SubSeqProperties
  <2> HIDE DEF a
  <2> QED  BY <1>1, <2>2, <2>3
<1>3. /\ b \in Seq(S) /\ Len(b) = Len(q) - i /\ \A n \in 1 .. Len(q) - i : b[n] = q[i + n]
  <2>1. \A n \in i + 1 .. Len(q) : q[n] \in S
    BY <1>1
  <2>2. /\ i + 1 \in Int /\ Len(q) \in Int /\ Len(q) - (i + 1) + 1 = Len(q) - i
        /\ \A n \in 1 .. Len(q) - i : (i + 1) + n - 1 = i + n
    BY <1>1
  <2>3. /\ b \in Seq(S) /\ Len(b) = IF i + 1 <= Len(q) THEN Len(q) - (i + 1) + 1 ELSE 0
        /\ \A n \in 1 .. Len(q) - (i + 1) + 1 : b[n] = q[(i + 1) + n - 1]
    BY <2>1, <2>2, SubSeqProperties
  <2> HIDE DEF b
  <2> QED  BY <1>1, <2>2, <2>3
<1>4. RemoveAt(q, i) = a \o b
  BY DEF RemoveAt
<1> HIDE DEF a, b
<1>5. /\ a \o b \in Seq(S) /\ Len(a \o b) = Len(a) + Len(b)
      /\ \A n \in 1 .. Len(a) + Len(b) : (a \o b)[n] = IF n <= Len(a) THEN a[n] ELSE b[n - Len(a)]
  BY <1>2, <1>3, ConcatProperties
<1>6. DOMAIN (a \o b) = 1 .. Len(a \o b)
  BY <1>5, LenProperties
<1> DEFINE c == a \o b
<1>7. /\ c \in Seq(S) /\ DOMAIN c = 1 .. Len(q) - 1
      /\ \A n \in 1 .. Len(q) - 1 : c[n] = IF n <= i - 1 THEN a[n] ELSE b[n - (i - 1)]
  BY <1>1, <1>2, <1>3, <1>5, <1>6
<1> HIDE DEF c
<1>8. ASSUME NEW n \in 1 .. Len(q) - 1 PROVE c[n] = IF n < i THEN q[n] ELSE q[n + 1]
  <2>1. CASE n < i
    BY <1>1, <1>2, <1>7, <2>1
  <2>2. CASE ~(n < i)
    <3>1. n - (i - 1) \in 1 .. Len(q) - i /\ i + (n - (i - 1)) = n + 1 /\ ~(n <= i - 1)
      BY <1>1, <2>2
    <3> QED  BY <1>3, <1>7, <2>2, <3>1
  <2> QED  BY <2>1, <2>2
<1> QED  BY <1>4, <1>7, <1>8 DEF c

\* The result that recv returns is one of the client's.
LEMMA FirstOfMine ==
    ASSUME TypeOK, NEW c \in Client, Mine(c) # {}
    PROVE  /\ Min(Mine(c)) \in DOMAIN results /\ results[Min(Mine(c))].id \in ids[c]
           /\ results[Min(Mine(c))] \in Results
           /\ \A i \in DOMAIN results : results[i].id \in ids[c] => Min(Mine(c)) <= i
<1>1. DOMAIN results \subseteq Nat /\ \A i \in DOMAIN results : results[i] \in Results
  <2>1. results \in Seq(Results)
    BY DEF TypeOK, Results, Kinds
  <2> QED  BY <2>1, LenProperties, ElementOfSeq
<1>2. Mine(c) \in SUBSET Nat
  BY <1>1 DEF Mine
<1>3. Min(Mine(c)) \in Mine(c) /\ \A k \in Mine(c) : Min(Mine(c)) <= k
  BY <1>2, LeastElement
<1> HIDE DEF Min
<1> QED  BY <1>1, <1>3 DEF Mine

\* The handlers.
LEMMA TypeSubmit == ASSUME TypeInv, NEW c \in Client, Submit(c) PROVE TypeInv'
<1>1. PICK r \in Requests :
        /\ nextId + r.prompts <= MaxTasks + 1 /\ nextId' = nextId + r.prompts
        /\ req' = [req EXCEPT ![c] = r]
        /\ ids' = [ids EXCEPT ![c] = nextId .. nextId' - 1]
        /\ waiting' = waiting \cup ids'[c]
  BY DEF Submit
<1>2. /\ at' = [at EXCEPT ![c] = "post"]
      /\ UNCHANGED <<queue, deferred, running, results, state, job, loop, round, got, count>>
  BY DEF Submit, tasks, slots, main
<1>3. r.prompts \in Nat \ {0} /\ nextId \in Nat \ {0} /\ MaxTasks \in Nat
  BY RequestAssumption, TaskAssumption DEF AllRequests, TypeInv, TypeOK
<1>4. nextId' \in 1 .. MaxTasks + 1 /\ nextId .. nextId' - 1 \subseteq TaskId
  BY <1>1, <1>3 DEF TaskId
<1>5. Cardinality(nextId .. nextId' - 1) = r.prompts
  <2>1. nextId' - 1 \in Int /\ ~(nextId > nextId' - 1) /\ (nextId' - 1) - nextId + 1 = r.prompts
    BY <1>1, <1>3
  <2> QED  BY <1>3, <2>1, FS_Interval
<1>6. ids'[c] = nextId .. nextId' - 1
  BY <1>1 DEF TypeInv, TypeOK
<1>7. TypeOK'
  BY <1>1, <1>2, <1>4, <1>6 DEF TypeInv, TypeOK
<1>8. ClientsOK'
  BY <1>1, <1>2, <1>5, <1>6 DEF TypeInv, TypeOK, ClientsOK, ClientOK
<1> QED  BY <1>7, <1>8 DEF TypeInv

\* Posting keeps the types.
LEMMA TypePost == ASSUME TypeInv, NEW c \in Client, Post(c) PROVE TypeInv'
<1>1. /\ at[c] = "post" /\ \E place \in {"recv", "gone"} : at' = [at EXCEPT ![c] = place]
      /\ queue' = IF req[c].type = "metrics" THEN Posted(c) \o queue ELSE queue \o Posted(c)
      /\ UNCHANGED <<deferred, running, nextId, waiting, results, state, job, loop, round,
                     req, ids, got, count>>
  BY DEF Post, Posted, replies, slots, main
<1>2. Posted(c) \in Seq(Tasks) /\ queue \in Seq(Tasks)
  BY <1>1, PostedType DEF TypeInv, TypeOK, ClientsOK, ClientOK
<1>3. queue' \in Seq(Tasks)
  BY <1>1, <1>2, ConcatProperties
<1>4. TypeOK'
  BY <1>1, <1>3 DEF TypeInv, TypeOK
<1>5. ClientsOK'
  BY <1>1 DEF TypeInv, TypeOK, ClientsOK, ClientOK
<1> QED  BY <1>4, <1>5 DEF TypeInv

\* Receiving a result keeps the types.
LEMMA TypeReceive == ASSUME TypeInv, NEW c \in Client, Receive(c) PROVE TypeInv'
<1> DEFINE i == Min(Mine(c))
<1>1. /\ at[c] = "recv" /\ Mine(c) # {} /\ results' = RemoveAt(results, i)
      /\ IF results[i].kind = "final"
         THEN /\ got' = [got EXCEPT ![c] = @ \cup {results[i].id}]
              /\ count' = [count EXCEPT ![c] = @ + 1]
         ELSE UNCHANGED <<got, count>>
      /\ \E next \in {"leave", "forget", "recv"} : at' = [at EXCEPT ![c] = next]
      /\ UNCHANGED <<queue, deferred, running, nextId, waiting, state, job, loop, round, req, ids>>
  BY DEF Receive, tasks, slots, main
<1>2. i \in DOMAIN results /\ results[i] \in Results
  BY <1>1, FirstOfMine DEF TypeInv
<1> HIDE DEF i
<1>3. results' \in Seq(Results)
  <2>1. results \in Seq(Results)
    BY DEF TypeInv, TypeOK, Results, Kinds
  <2> QED  BY <1>1, <1>2, <2>1, RemoveAtProperties
<1>4. got' \in [Client -> SUBSET TaskId] /\ count' \in [Client -> Nat]
  <2>1. results[i].id \in TaskId
    BY <1>2 DEF Results
  <2>2. got \in [Client -> SUBSET TaskId] /\ count \in [Client -> Nat]
    BY DEF TypeInv, TypeOK
  <2>3. CASE results[i].kind = "final"
    BY <1>1, <2>1, <2>2, <2>3
  <2>4. CASE results[i].kind # "final"
    BY <1>1, <2>2, <2>4
  <2> QED  BY <2>3, <2>4
<1>5. TypeOK'
  BY <1>1, <1>3, <1>4 DEF TypeInv, TypeOK, Results, Kinds
<1>6. ClientsOK'
  BY <1>1 DEF TypeInv, TypeOK, ClientsOK, ClientOK
<1> QED  BY <1>5, <1>6 DEF TypeInv

\* So do the steps in which a handler gives up or ends.
LEMMA TypeLeave ==
    ASSUME TypeInv, NEW c \in Client, Hangup(c) \/ Forget(c) \/ CancelTasks(c) \/ Leave(c)
    PROVE  TypeInv'
<1>1. CASE Hangup(c)
  <2>1. /\ at[c] = "recv" /\ at' = [at EXCEPT ![c] = "forget"]
        /\ UNCHANGED <<queue, deferred, running, nextId, waiting, results, state, job, loop, round,
                       req, ids, got, count>>
    BY <1>1 DEF Hangup, tasks, replies, slots, main
  <2> QED  BY <2>1 DEF TypeInv, TypeOK, ClientsOK, ClientOK
<1>2. CASE Forget(c)
  <2>1. /\ at[c] = "forget" /\ at' = [at EXCEPT ![c] = "cancel"]
        /\ waiting' = waiting \ ids[c] /\ results' = Unread(ids[c])
        /\ UNCHANGED <<queue, deferred, running, nextId, state, job, loop, round, req, ids, got, count>>
    BY <1>2 DEF Forget, tasks, slots, main
  <2>2. results' \in Seq(Results)
    BY <2>1, UnreadType DEF TypeInv
  <2> QED  BY <2>1, <2>2 DEF TypeInv, TypeOK, ClientsOK, ClientOK, Results, Kinds
<1>3. CASE CancelTasks(c)
  <2>1. /\ at[c] = "cancel" /\ Return(c)
        /\ queue' = Reverse(Cancels(c)) \o Cleaned(queue, ids[c])
        /\ deferred' = Cleaned(deferred, ids[c])
        /\ UNCHANGED <<running, nextId, waiting, results, state, job, loop, round>>
    BY <1>3 DEF CancelTasks, Cancels, replies, slots, main
  <2>2. /\ Reverse(Cancels(c)) \in Seq(Tasks) /\ Cleaned(queue, ids[c]) \in Seq(Tasks)
        /\ Cleaned(deferred, ids[c]) \in Seq(Tasks)
    BY PostedType, CleanedType DEF TypeInv, TypeOK
  <2>3. queue' \in Seq(Tasks) /\ deferred' \in Seq(Tasks)
    BY <2>1, <2>2, ConcatProperties
  <2> QED  BY <2>1, <2>3 DEF TypeInv, TypeOK, ClientsOK, ClientOK, Return
<1>4. CASE Leave(c)
  <2>1. /\ at[c] \in {"leave", "gone"} /\ Return(c) /\ waiting' \subseteq waiting
        /\ results' = Unread(ids[c]) \/ results' = results
        /\ UNCHANGED <<queue, deferred, running, nextId, state, job, loop, round>>
    BY <1>4 DEF Leave, tasks, slots, main
  <2>2. results' \in Seq(Results)
    BY <2>1, UnreadType DEF TypeInv, TypeOK, Results, Kinds
  <2> QED  BY <2>1, <2>2 DEF TypeInv, TypeOK, ClientsOK, ClientOK, Return, Results, Kinds
<1> QED  BY <1>1, <1>2, <1>3, <1>4

\* The main thread leaves the handlers and the ids alone.
LEMMA TypeMain ==
    ASSUME TypeInv, UNCHANGED <<nextId, waiting, at, req, ids, got, count>>,
           running' \in BOOLEAN, queue' \in Seq(Tasks), deferred' \in Seq(Tasks),
           results' \in Seq(Results), job' \in [Slot -> Tasks],
           state' \in [Slot -> {"idle", "started", "prompt", "generating"}],
           loop' \in {"start", "pop", "shift", "prompts", "sample", "fail", "wait", "stopped"},
           round' \subseteq Slot
    PROVE  TypeInv'
BY DEF TypeInv, TypeOK, ClientsOK, ClientOK, Results, Kinds

\* So does taking one task from the queue.
LEMMA TypeProcess == ASSUME TypeInv, Process PROVE TypeInv'
<1> USE DEF TypeInv
<1>1. /\ TypeOK /\ queue \in Seq(Tasks) /\ deferred \in Seq(Tasks) /\ results \in Seq(Results)
      /\ running \in BOOLEAN /\ job \in [Slot -> Tasks] /\ round \subseteq Slot
      /\ state \in [Slot -> {"idle", "started", "prompt", "generating"}]
  BY DEF TypeOK, Results, Kinds
<1>2. /\ loop' = "pop" /\ UNCHANGED <<running, round>>
      /\ UNCHANGED <<nextId, waiting, at, req, ids, got, count>>
      /\ \E types : Takes(types)
  BY DEF Process, Defer, CancelRelease, ProcessNothing, Answer, Launch, Done, Goto, clients
<1>3. Task \in Tasks /\ Rest \in Seq(Tasks) /\ Append(deferred, Task) \in Seq(Tasks)
  BY <1>1, <1>2, TakesType, AppendProperties
<1>4. ASSUME UNCHANGED <<state, job>>, queue' = Rest, deferred' \in Seq(Tasks), results' \in Seq(Results)
      PROVE  TypeInv'
  BY <1>1, <1>2, <1>3, <1>4, TypeMain
<1>5. CASE Defer
  BY <1>1, <1>3, <1>4, <1>5 DEF Defer, slots
<1>6. CASE CancelRelease
  <2>1. /\ UNCHANGED <<results, job>>
        /\ \/ \E s \in Slot : state' = [state EXCEPT ![s] = "idle"] /\ PopDeferred(Rest)
           \/ queue' = Rest /\ UNCHANGED <<state, deferred>>
    <3>1. ASSUME Targeted # {} PROVE Min(Targeted) \in Slot
      BY <3>1, LeastElement, SlotAssumption DEF Targeted
    <3> HIDE DEF Min
    <3> QED  BY <1>6, <3>1 DEF CancelRelease
  <2>2. queue' \in Seq(Tasks) /\ deferred' \in Seq(Tasks)
    BY <1>1, <1>3, <2>1, PopDeferredType
  <2>3. state' \in [Slot -> {"idle", "started", "prompt", "generating"}]
    BY <1>1, <2>1
  <2> QED  BY <1>1, <1>2, <2>1, <2>2, <2>3, TypeMain
<1>7. CASE ProcessNothing
  BY <1>1, <1>4, <1>7 DEF ProcessNothing, slots
<1>8. CASE Answer
  <2>1. PICK kind \in {"final", "error"} : Send(<<Result(Task.id, kind)>>)
    BY <1>8 DEF Answer
  <2>2. results' \in Seq(Results)
    BY <1>1, <2>1, MessagesSent, SendProperties DEF Kinds
  <2> QED  BY <1>1, <1>4, <1>8, <2>2 DEF Answer, slots
<1>9. ASSUME NEW s \in Slot, Launch(s) PROVE TypeInv'
  <2>1. /\ queue' = Rest /\ job' = [job EXCEPT ![s] = Task] /\ UNCHANGED deferred
        /\ \/ Send(<<Result(Task.id, "error")>>) /\ UNCHANGED state
           \/ state' = [state EXCEPT ![s] = "started"] /\ UNCHANGED results
    BY <1>9 DEF Launch
  <2>2. results' \in Seq(Results)
    BY <1>1, <2>1, MessagesSent, SendProperties DEF Kinds
  <2>3. job' \in [Slot -> Tasks] /\ state' \in [Slot -> {"idle", "started", "prompt", "generating"}]
    BY <1>1, <1>3, <2>1
  <2> QED  BY <1>1, <1>2, <1>3, <2>1, <2>2, <2>3, TypeMain
<1> QED  BY <1>5, <1>6, <1>7, <1>8, <1>9 DEF Process

\* So do the steps of update_slots.
LEMMA TypeUpdate == ASSUME TypeInv, Update PROVE TypeInv'
<1> USE DEF TypeInv
<1>1. /\ TypeOK /\ queue \in Seq(Tasks) /\ deferred \in Seq(Tasks) /\ results \in Seq(Results)
      /\ running \in BOOLEAN /\ job \in [Slot -> Tasks] /\ round \subseteq Slot
      /\ state \in [Slot -> {"idle", "started", "prompt", "generating"}]
      /\ loop \in {"start", "pop", "shift", "prompts", "sample", "fail", "wait", "stopped"}
  BY DEF TypeOK, Results, Kinds
<1>2. CASE UpdateIdle \/ UpdateStart \/ FillBatch \/ Decode \/ DecodeFail
  <2>1. /\ UNCHANGED <<deferred, running, nextId, waiting, results, state, job, at, req, ids, got, count>>
        /\ queue' \in {queue, Append(queue, NextResponse)}
        /\ loop' \in {"wait", "shift", "prompts", "sample", "fail"} /\ round' \subseteq Slot
    BY <1>1, <1>2
    DEF UpdateIdle, UpdateStart, FillBatch, Decode, DecodeFail, Goto, Batch, Processing,
        tasks, replies, slots, clients
  <2>2. queue' \in Seq(Tasks)
    BY <1>1, <2>1, NewTasks, AppendProperties
  <2> QED  BY <1>1, <2>1, <2>2, TypeMain
<1>3. ASSUME NEW s \in Slot,
             ContextLimit(s) \/ Reject(s) \/ FailSlot(s) \/ MorePrompt(s) \/ Token(s) \/ Finish(s)
      PROVE  TypeInv'
  <2>1. UNCHANGED <<running, nextId, waiting, job, at, req, ids, got, count>>
    BY <1>3 DEF ContextLimit, Reject, FailSlot, MorePrompt, Token, Finish, replies, clients
  <2>2. loop' \in {loop, "wait"} /\ round' \subseteq round
    BY <1>3 DEF ContextLimit, Reject, FailSlot, MorePrompt, Token, Finish, Advance, Goto, main
  <2>3. \E next \in {"idle", "prompt", "generating", state[s]} : state' = [state EXCEPT ![s] = next]
    BY <1>3 DEF ContextLimit, Reject, FailSlot, MorePrompt, Token, Finish
  <2>4. state' \in [Slot -> {"idle", "started", "prompt", "generating"}]
    BY <1>1, <2>3
  <2>5. PopDeferred(queue) \/ UNCHANGED <<queue, deferred>>
    BY <1>3 DEF ContextLimit, Reject, FailSlot, MorePrompt, Token, Finish, tasks
  <2>6. queue' \in Seq(Tasks) /\ deferred' \in Seq(Tasks)
    BY <1>1, <2>5, PopDeferredType
  <2>7. UNCHANGED results \/ \E seq \in Messages(job[s].id) : Send(seq)
    BY <1>3, MessagesSent
    DEF ContextLimit, Reject, FailSlot, MorePrompt, Token, Finish, Kinds, replies
  <2>8. results' \in Seq(Results)
    BY <1>1, <2>7, SendProperties
  <2> QED  BY <1>1, <2>1, <2>2, <2>4, <2>6, <2>8, TypeMain
<1> QED  BY <1>2, <1>3 DEF Update

\* Every step keeps the types.
LEMMA TypeNext == TypeInv /\ [Next]_vars => TypeInv'
<1> SUFFICES ASSUME TypeInv, [Next]_vars PROVE TypeInv'
  OBVIOUS
<1>1. /\ queue \in Seq(Tasks) /\ deferred \in Seq(Tasks) /\ results \in Seq(Results)
      /\ running \in BOOLEAN /\ job \in [Slot -> Tasks] /\ round \subseteq Slot
      /\ state \in [Slot -> {"idle", "started", "prompt", "generating"}]
      /\ loop \in {"start", "pop", "shift", "prompts", "sample", "fail", "wait", "stopped"}
  BY DEF TypeInv, TypeOK, Results, Kinds
<1>2. CASE StartLoop \/ Stop \/ Terminate \/ UNCHANGED vars
  <2>1. /\ UNCHANGED <<queue, deferred, nextId, waiting, results, state, job, at, req, ids, got, count>>
        /\ round' = round /\ running' \in BOOLEAN /\ loop' \in {loop, "pop", "stopped"}
    BY <1>1, <1>2
    DEF StartLoop, Stop, Terminate, Goto, vars, tasks, replies, slots, main, clients
  <2> QED  BY <1>1, <2>1, TypeMain
<1>3. CASE Process
  BY <1>3, TypeProcess
<1>4. CASE Update
  BY <1>4, TypeUpdate
<1>5. CASE \E c \in Client : Submit(c) \/ Hangup(c) \/ Handle(c)
  BY <1>5, TypeSubmit, TypePost, TypeReceive, TypeLeave DEF Handle
<1> QED  BY <1>2, <1>3, <1>4, <1>5 DEF Next, MainLoop

\* The server starts with them.
LEMMA TypeInit == Init => TypeInv
<1> SUFFICES ASSUME Init PROVE TypeInv
  OBVIOUS
<1>1. 1 \in 1 .. MaxTasks + 1
  BY TaskAssumption
<1>2. <<>> \in Seq(Tasks) /\ <<>> \in Seq([id : TaskId, kind : {"partial", "final", "error"}])
  BY EmptySeq
<1>3. TypeOK
  BY <1>1, <1>2, NewTasks DEF Init, TypeOK
<1>4. ClientsOK
  BY DEF Init, ClientsOK, ClientOK
<1> QED  BY <1>3, <1>4 DEF TypeInv

\* The type invariant, with what the handlers hold, is an invariant.
LEMMA TypeInvariance == Spec => []TypeInv
BY TypeInit, TypeNext, PTL DEF Spec

\* Type correctness: in particular no result of a task that was never drawn
\* reaches the response queue, although an idle slot has none and is sent for
\* all the same when a decode fails.
THEOREM TypeCorrect == Spec => []TypeOK
<1>1. TypeInv => TypeOK
  BY DEF TypeInv
<1> QED  BY <1>1, TypeInvariance, PTL

-----------------------------------------------------------------------------
(* The parts of the inductive invariant.                                   *)

IsRequest(t) == \E r \in Requests, i \in TaskId : t = TaskOf(r, i)
IsCancel(t)  == t.type = "cancel" /\ t.id = None /\ t.target \in TaskId

\* The tasks of requests have ids and those of the server's own have none; only
\* tasks that need a slot are deferred, and only tasks of requests get one.
ShapeOK ==
    /\ \A t \in ToSet(queue) : IsRequest(t) \/ IsCancel(t) \/ t = NextResponse
    /\ \A t \in ToSet(deferred) : IsRequest(t) /\ t.type # "metrics"
    /\ \A s \in Slot : job[s] = NoTask \/ IsRequest(job[s])
    /\ \A s \in Processing : IsRequest(job[s])

\* update_slots has posted the task that wakes the main thread, unless it had
\* nothing to do.
AwakeOK ==
    /\ loop \in {"shift", "prompts", "sample", "fail"} => NextResponse \in ToSet(queue)
    /\ loop = "wait" => NextResponse \in ToSet(queue) \/ Processing = {}

\* Task t is somewhere behind its post.
Used(t) ==
    \/ \E u \in ToSet(queue) \cup ToSet(deferred) : u.id = t
    \/ \E s \in Slot : job[s].id = t
    \/ \E r \in ToSet(results) : r.id = t

\* Who owns which ids: every id is drawn once, belongs to one handler at most, is
\* not used before its post, and is cancelled when its handler is gone.
OwnedOK ==
    /\ \A c, d \in Client : c # d => ids[c] \cap ids[d] = {}
    /\ \A c \in Client : got[c] \subseteq ids[c] /\ \A t \in ids[c] : t < nextId
    /\ \A t \in TaskId : Used(t) => t < nextId
    /\ \A u \in ToSet(queue) : IsCancel(u) =>
         u.target < nextId /\ \A c \in Client : u.target \notin ids[c]
    /\ \A c \in Client : at[c] = "post" => got[c] = {} /\ \A t \in ids[c] : ~Used(t)
    /\ \A c \in Client : at[c] \in {"post", "recv"} => ids[c] \subseteq waiting

\* No id is twice in the queue.
NoTwice(q) == \A i, j \in DOMAIN q : q[i].id = q[j].id /\ q[i].id # None => i = j

\* A task is in one place only, of the queue, the deferred tasks and the slots.
UniqueOK ==
    /\ NoTwice(queue) /\ NoTwice(deferred)
    /\ \A t \in ToSet(queue), u \in ToSet(deferred) : t.id # u.id
    /\ \A t \in ToSet(queue) \cup ToSet(deferred), s \in Slot : t.id # None => job[s].id # t.id
    /\ OneSlotPerTask

\* The slots of the batch are processing until they are sampled.
RoundOK ==
    /\ loop \in {"prompts", "sample"} => round \subseteq Processing
    /\ loop = "fail" => Faults

\* A task can still produce results.
Open(t) ==
    \/ \E u \in ToSet(queue) \cup ToSet(deferred) : u.id = t
    \/ \E s \in Processing : job[s].id = t

\* A result that is the last one of its task, unless a decode fails later: then
\* slots that are idle send a stray error to the task they had last.
Ends(r)  == r.kind = "final" \/ (r.kind = "error" /\ ~Faults)
Stray(r) == r.kind = "error" /\ Faults

\* What a task has been sent as its last result is the end of it.
EndsOK ==
    /\ \A i, j \in DOMAIN results :
         i < j /\ results[i].id = results[j].id /\ Ends(results[i]) => Stray(results[j])
    /\ \A r \in ToSet(results) : Ends(r) => ~Open(r.id)
    /\ \A c \in Client : \A t \in got[c] :
         ~Open(t) /\ \A r \in ToSet(results) : r.id = t => Stray(r)

-----------------------------------------------------------------------------
(* The steps, as changes of the sets of tasks and results.                 *)

\* What a task of a request and a cancel task carry.
LEMMA TaskFields ==
    /\ \A r \in Requests : \A t : /\ TaskOf(r, t).id = t /\ TaskOf(r, t).target = None
                                  /\ TaskOf(r, t).type = r.type /\ r.type \in SlotTypes \cup OtherTypes
    /\ \A t : /\ CancelOf(t).id = None /\ CancelOf(t).target = t /\ CancelOf(t).type = "cancel"
    /\ NextResponse.id = None /\ NextResponse.target = None /\ NextResponse.type = "next"
    /\ NoTask.id = None /\ NoTask.type = "none"
    /\ None \notin TaskId
BY RequestAssumption, TaskAssumption DEF TaskOf, CancelOf, NextResponse, NoTask, AllRequests, TaskId

\* post adds a task for each id.
LEMMA PostFacts ==
    ASSUME TypeInv, NEW c \in Client, Post(c)
    PROVE  /\ at[c] = "post" /\ req[c] \in Requests
           /\ \E place \in {"recv", "gone"} : at' = [at EXCEPT ![c] = place]
           /\ ToSet(queue') = ToSet(queue) \cup {TaskOf(req[c], t) : t \in ids[c]}
           /\ UNCHANGED <<deferred, running, nextId, waiting, results, state, job, loop, round,
                          req, ids, got, count>>
<1>1. /\ at[c] = "post" /\ \E place \in {"recv", "gone"} : at' = [at EXCEPT ![c] = place]
      /\ queue' = IF req[c].type = "metrics" THEN Posted(c) \o queue ELSE queue \o Posted(c)
      /\ UNCHANGED <<deferred, running, nextId, waiting, results, state, job, loop, round,
                     req, ids, got, count>>
  BY DEF Post, Posted, replies, slots, main
<1>2. req[c] \in Requests
  BY <1>1 DEF TypeInv, ClientsOK, ClientOK
<1>3. Posted(c) \in Seq(Tasks) /\ queue \in Seq(Tasks) /\ NoTask \in Tasks
  BY <1>2, PostedType, NewTasks DEF TypeInv, TypeOK
<1>4. ToSet(queue') = ToSet(queue) \cup ToSet(Posted(c))
  BY <1>1, <1>3, ToSetProperties
<1>5. ToSet(Posted(c)) = {TaskOf(req[c], t) : t \in ids[c]}
  <2> DEFINE N == Cardinality(ids[c])
  <2>1. ids[c] \in SUBSET TaskId
    BY DEF TypeInv, TypeOK
  <2>2. /\ InOrder(ids[c]) \in [1 .. N -> ids[c]]
        /\ \A t \in ids[c] : \E n \in 1 .. N : InOrder(ids[c])[n] = t
    BY <2>1, IdsInOrder
  <2> HIDE DEF N
  <2>3. DOMAIN Posted(c) = 1 .. N /\ \A n \in 1 .. N : Posted(c)[n] = TaskOf(req[c], InOrder(ids[c])[n])
    BY DEF Posted, N
  <2>4. \A n \in DOMAIN Posted(c) : \E t \in ids[c] : Posted(c)[n] = TaskOf(req[c], t)
    BY <2>2, <2>3
  <2>5. \A t \in ids[c] : \E n \in DOMAIN Posted(c) : Posted(c)[n] = TaskOf(req[c], t)
    BY <2>2, <2>3
  <2> QED  BY <2>4, <2>5 DEF ToSet
<1> QED  BY <1>1, <1>2, <1>4, <1>5

\* What cleanup_pending_task leaves.
LEMMA CleanedFacts ==
    ASSUME NEW q \in Seq(Tasks), NEW I
    PROVE  ToSet(Cleaned(q, I)) = {u \in ToSet(q) : u.target = None \/ u.target \notin I}
<1> DEFINE K == {i \in DOMAIN q : q[i].target = None \/ q[i].target \notin I}
<1>1. ToSet(Kept(q, K)) = {q[i] : i \in K}
  BY KeptSet
<1> QED  BY <1>1 DEF Cleaned, ToSet

\* cancel_tasks: the handler's cancel tasks come in, and what asks to cancel the
\* same tasks goes out of both queues.
LEMMA CancelFacts ==
    ASSUME TypeInv, NEW c \in Client, CancelTasks(c)
    PROVE  /\ at[c] = "cancel" /\ Return(c)
           /\ ToSet(queue') = {CancelOf(t) : t \in ids[c]} \cup
                              {u \in ToSet(queue) : u.target = None \/ u.target \notin ids[c]}
           /\ ToSet(deferred') = {u \in ToSet(deferred) : u.target = None \/ u.target \notin ids[c]}
           /\ UNCHANGED <<running, nextId, waiting, results, state, job, loop, round>>
<1>1. /\ at[c] = "cancel" /\ Return(c)
      /\ queue' = Reverse(Cancels(c)) \o Cleaned(queue, ids[c])
      /\ deferred' = Cleaned(deferred, ids[c])
      /\ UNCHANGED <<running, nextId, waiting, results, state, job, loop, round>>
  BY DEF CancelTasks, Cancels, replies, slots, main
<1>2. /\ queue \in Seq(Tasks) /\ deferred \in Seq(Tasks) /\ NoTask \in Tasks
      /\ Cleaned(queue, ids[c]) \in Seq(Tasks)
      /\ Reverse(Cancels(c)) \in Seq(Tasks) /\ ToSet(Reverse(Cancels(c))) = ToSet(Cancels(c))
  BY PostedType, CleanedType, NewTasks DEF TypeInv, TypeOK
<1>3. ToSet(queue') = ToSet(Cancels(c)) \cup ToSet(Cleaned(queue, ids[c]))
  BY <1>1, <1>2, ToSetProperties
<1>4. ToSet(Cancels(c)) = {CancelOf(t) : t \in ids[c]}
  <2> DEFINE N == Cardinality(ids[c])
  <2>1. ids[c] \in SUBSET TaskId
    BY DEF TypeInv, TypeOK
  <2>2. /\ InOrder(ids[c]) \in [1 .. N -> ids[c]]
        /\ \A t \in ids[c] : \E n \in 1 .. N : InOrder(ids[c])[n] = t
    BY <2>1, IdsInOrder
  <2> HIDE DEF N
  <2>3. DOMAIN Cancels(c) = 1 .. N /\ \A n \in 1 .. N : Cancels(c)[n] = CancelOf(InOrder(ids[c])[n])
    BY DEF Cancels, N
  <2>4. \A n \in DOMAIN Cancels(c) : \E t \in ids[c] : Cancels(c)[n] = CancelOf(t)
    BY <2>2, <2>3
  <2>5. \A t \in ids[c] : \E n \in DOMAIN Cancels(c) : Cancels(c)[n] = CancelOf(t)
    BY <2>2, <2>3
  <2> QED  BY <2>4, <2>5 DEF ToSet
<1> QED  BY <1>1, <1>2, <1>3, <1>4, CleanedFacts

\* pop_deferred_task moves the first deferred task.
LEMMA PopFacts ==
    ASSUME TypeInv, NEW q \in Seq(Tasks), PopDeferred(q)
    PROVE  \/ /\ deferred = <<>> /\ queue' = q /\ deferred' = deferred
           \/ /\ deferred # <<>> /\ queue' = Append(q, Head(deferred)) /\ deferred' = Tail(deferred)
              /\ ToSet(queue') = ToSet(q) \cup {Head(deferred)}
              /\ ToSet(deferred) = {Head(deferred)} \cup ToSet(deferred')
<1>1. CASE deferred = <<>>
  BY <1>1 DEF PopDeferred
<1>2. CASE deferred # <<>>
  <2>1. queue' = Append(q, Head(deferred)) /\ deferred' = Tail(deferred)
    BY <1>2 DEF PopDeferred
  <2>2. deferred \in Seq(Tasks) /\ Head(deferred) \in Tasks
    BY <1>2, HeadTailProperties DEF TypeInv, TypeOK
  <2> DEFINE h == Head(deferred)
             rest == Tail(deferred)
  <2> HIDE DEF h, rest
  <2>3. ToSet(Append(q, h)) = ToSet(q) \cup {h} /\ ToSet(deferred) = {h} \cup ToSet(rest)
    BY <1>2, <2>2, ToSetProperties DEF h, rest
  <2> QED  BY <1>2, <2>1, <2>3 DEF h, rest
<1> QED  BY <1>1, <1>2

\* The first task is taken.
LEMMA TakeFacts ==
    ASSUME TypeInv, NEW types, Takes(types)
    PROVE  /\ ToSet(queue) = {Task} \cup ToSet(Rest) /\ Task \in Tasks /\ Task.type \in types
           /\ Rest \in Seq(Tasks) /\ queue \in Seq(Tasks) /\ queue # <<>>
<1>1. /\ queue # <<>> /\ Task \in Tasks /\ Task.type \in types /\ Rest \in Seq(Tasks)
      /\ queue \in Seq(Tasks)
  BY TakesType DEF TypeInv
<1>2. ToSet(queue) = {Head(queue)} \cup ToSet(Tail(queue))
  BY <1>1, ToSetProperties, NewTasks
<1> QED  BY <1>1, <1>2 DEF Task, Rest

\* send adds results of the one task, or none.
LEMMA SendFacts ==
    ASSUME TypeInv, NEW t, NEW seq \in Messages(t), Send(seq)
    PROVE  /\ t \notin waiting => results' = results
           /\ t \in waiting => ToSet(results') = ToSet(results) \cup ToSet(seq)
           /\ \A r \in ToSet(seq) : r.id = t
           /\ \A r \in ToSet(results') : r \in ToSet(results) \/ r.id = t
           /\ ToSet(results) \subseteq ToSet(results')
<1>1. /\ t \in waiting => results' = results \o seq /\ seq \in Seq(Results)
      /\ t \notin waiting => results' = results
  BY SendProperties DEF TypeInv
<1>2. \A r \in ToSet(seq) : r.id = t
  BY DEF Messages, Result, ToSet
<1>3. ASSUME t \in waiting PROVE ToSet(results') = ToSet(results) \cup ToSet(seq)
  <2>1. results \in Seq(Results) /\ seq \in Seq(Results)
    BY <1>1, <1>3 DEF TypeInv, TypeOK, Results, Kinds
  <2>2. [id |-> t, kind |-> "final"] \in Results
    BY <1>3 DEF TypeInv, TypeOK, Results, Kinds
  <2>3. ToSet(results \o seq) = ToSet(results) \cup ToSet(seq)
    BY <2>1, <2>2, ToSetProperties
  <2> QED  BY <1>1, <1>3, <2>3
<1> QED  BY <1>1, <1>2, <1>3

\* The results that are left when those of some ids are dropped.
LEMMA UnreadFacts ==
    ASSUME TypeInv, NEW I
    PROVE  ToSet(Unread(I)) = {r \in ToSet(results) : r.id \notin I}
<1> DEFINE K == {i \in DOMAIN results : results[i].id \notin I}
<1>1. results \in Seq(Results) /\ K \in SUBSET DOMAIN results
  BY DEF TypeInv, TypeOK, Results, Kinds
<1>2. ToSet(Kept(results, K)) = {results[i] : i \in K}
  <2> HIDE DEF K
  <2> QED  BY <1>1, KeptSet
<1> QED  BY <1>2 DEF Unread, ToSet

\* What is known of a task of a request.
LEMMA RequestFields ==
    ASSUME NEW t, IsRequest(t)
    PROVE  /\ t.id \in TaskId /\ t.id # None /\ t.target = None
           /\ t.type \in SlotTypes \cup OtherTypes
           /\ \E r \in Requests : t.type = r.type /\ t.slot = r.slot /\ (t.bad <=> r.bad)
<1>1. PICK r \in Requests, i \in TaskId : t = TaskOf(r, i)
  BY DEF IsRequest
<1>2. t.id = i /\ t.target = None /\ t.type = r.type /\ r.type \in SlotTypes \cup OtherTypes
  BY <1>1, TaskFields
<1>3. t.slot = r.slot /\ (t.bad <=> r.bad)
  BY <1>1 DEF TaskOf, NoTask
<1> QED  BY <1>1, <1>2, <1>3, TaskFields

\* The three kinds of tasks of the queue.
LEMMA KindsOfTasks ==
    ASSUME ShapeOK, NEW t \in ToSet(queue)
    PROVE  /\ t.type \in SlotTypes \cup OtherTypes => IsRequest(t)
           /\ t.type = "cancel" => IsCancel(t)
           /\ t.id \in TaskId => IsRequest(t)
           /\ t.id = None \/ t.id \in TaskId
           /\ t.type \in {"cancel", "next"} => t.id = None
<1>1. IsRequest(t) \/ IsCancel(t) \/ t = NextResponse
  BY DEF ShapeOK
<1>2. CASE IsRequest(t)
  BY <1>2, RequestFields DEF SlotTypes, OtherTypes
<1>3. CASE IsCancel(t)
  BY <1>3, TaskFields DEF IsCancel, SlotTypes, OtherTypes
<1>4. CASE t = NextResponse
  BY <1>4, TaskFields DEF SlotTypes, OtherTypes
<1> QED  BY <1>1, <1>2, <1>3, <1>4

-----------------------------------------------------------------------------
(* The steps of the main thread, sorted by what they do to the tasks, the  *)
(* results and the slots.                                                  *)

\* Nothing but where the main thread is.
Still == UNCHANGED <<queue, deferred, results, state, job>>

\* NEXT_RESPONSE is posted.
Wakes == queue' = Append(queue, NextResponse) /\ UNCHANGED <<deferred, results, state, job>>

\* The first task is taken: and put off, dropped, answered, launched in slot s,
\* refused by slot s, or it cancels the task of slot s.
TakeFirst  == queue \in Seq(Tasks) /\ queue # <<>> /\ Task \in Tasks
PutsOff    == /\ TakeFirst /\ Task.type \in SlotTypes \cup {"action"}
              /\ Task.type \in SlotTypes => Available = {}
              /\ queue' = Rest /\ deferred' = Append(deferred, Task)
              /\ UNCHANGED <<results, state, job>>
Drops      == /\ TakeFirst /\ Task.type \in {"cancel", "next"}
              /\ queue' = Rest /\ UNCHANGED <<deferred, results, state, job>>
Answers    == /\ TakeFirst /\ Task.type \in {"metrics", "action"}
              /\ queue' = Rest /\ UNCHANGED <<deferred, state, job>>
              /\ \E kind \in {"final", "error"} : Send(<<Result(Task.id, kind)>>)
Launches(s) == /\ TakeFirst /\ Task.type \in SlotTypes /\ state[s] = "idle" /\ ~Task.bad
               /\ queue' = Rest /\ UNCHANGED <<deferred, results>>
               /\ job' = [job EXCEPT ![s] = Task] /\ state' = [state EXCEPT ![s] = "started"]
Refuses(s)  == /\ TakeFirst /\ Task.type \in SlotTypes /\ state[s] = "idle" /\ Task.bad
               /\ queue' = Rest /\ UNCHANGED <<deferred, state>>
               /\ job' = [job EXCEPT ![s] = Task] /\ Send(<<Result(Task.id, "error")>>)
Cancelled(s) == /\ TakeFirst /\ Task.type = "cancel" /\ job[s].id = Task.target
                /\ state[s] # "idle" /\ state' = [state EXCEPT ![s] = "idle"]
                /\ PopDeferred(Rest) /\ UNCHANGED <<results, job>>

\* Slot s goes on with its task, or is released with a last result of it; a
\* slot that was idle when the decode failed only sends.
GoesOn(s)   == /\ state[s] # "idle" /\ UNCHANGED <<queue, deferred, job>>
               /\ \E next \in {"started", "prompt", "generating"} : state' = [state EXCEPT ![s] = next]
               /\ UNCHANGED results \/ Send(<<Result(job[s].id, "partial")>>)
LastOf(t)   == {<<Result(t, "error")>>, <<Result(t, "final")>>,
                <<Result(t, "partial"), Result(t, "final")>>}
Releases(s) == /\ state[s] # "idle" /\ state' = [state EXCEPT ![s] = "idle"]
               /\ PopDeferred(queue) /\ UNCHANGED job
               /\ \E seq \in LastOf(job[s].id) : Send(seq)
FailsIdle(s) == /\ Faults /\ state[s] = "idle" /\ UNCHANGED <<queue, deferred, state, job>>
                /\ Send(<<Result(job[s].id, "error")>>)

\* The handlers are left alone.
Frame == UNCHANGED <<nextId, waiting, at, req, ids, got, count>>

MainStep ==
    \/ Still \/ Wakes \/ PutsOff \/ Drops \/ Answers
    \/ \E s \in Slot : \/ Launches(s) \/ Refuses(s) \/ Cancelled(s)
                       \/ GoesOn(s) \/ Releases(s) \/ FailsIdle(s)

-----------------------------------------------------------------------------
(* Where the main thread is.                                               *)

\* The handlers and the signal leave the main thread and the slots alone.
LEMMA OtherThreads ==
    ASSUME [Next]_vars
    PROVE  \/ StartLoop \/ Stop \/ Process \/ Update
           \/ UNCHANGED <<loop, round, state, job>>
<1>1. CASE Terminate \/ UNCHANGED vars
  BY <1>1 DEF Terminate, vars, slots, main
<1>2. ASSUME NEW c \in Client, Submit(c) \/ Hangup(c) \/ Handle(c)
      PROVE  UNCHANGED <<loop, round, state, job>>
  BY <1>2 DEF Submit, Hangup, Handle, Post, Receive, Forget, CancelTasks, Leave, slots, main
<1> QED  BY <1>1, <1>2 DEF Next, MainLoop

\* A slot is processing until it is sampled or failed.
LEMMA RoundNext == ASSUME TypeInv, RoundOK, [Next]_vars PROVE RoundOK'
<1>1. state \in [Slot -> {"idle", "started", "prompt", "generating"}] /\ round \subseteq Slot
  BY DEF TypeInv, TypeOK
<1>2. CASE StartLoop \/ Stop \/ Process
  <2>1. loop' \in {"pop", "stopped"}
    BY <1>2 DEF StartLoop, Stop, Process, Defer, CancelRelease, ProcessNothing, Answer, Launch, Done, Goto
  <2> QED  BY <2>1 DEF RoundOK
<1>3. CASE UNCHANGED <<loop, round, state, job>>
  BY <1>3 DEF RoundOK, Processing
<1>4. CASE UpdateIdle \/ UpdateStart
  BY <1>4 DEF UpdateIdle, UpdateStart, Goto, RoundOK
<1>5. CASE FillBatch \/ Decode \/ DecodeFail
  BY <1>5 DEF FillBatch, Decode, DecodeFail, Batch, Goto, RoundOK, Processing, slots
<1>6. ASSUME NEW s \in Slot, ContextLimit(s) PROVE RoundOK'
  BY <1>6 DEF ContextLimit, RoundOK, main
<1>7. ASSUME NEW s \in Slot, Reject(s) \/ FailSlot(s) \/ MorePrompt(s) \/ Token(s) \/ Finish(s)
      PROVE  RoundOK'
  <2>1. /\ round' = round \ {s} /\ loop' \in {loop, "wait"}
        /\ \E next : state' = [state EXCEPT ![s] = next]
    BY <1>7 DEF Reject, FailSlot, MorePrompt, Token, Finish, Advance, Goto
  <2> QED  BY <1>1, <2>1 DEF RoundOK, Processing
<1>8. CASE Update
  BY <1>4, <1>5, <1>6, <1>7, <1>8 DEF Update
<1> QED  BY <1>2, <1>3, <1>8, OtherThreads

\* update_slots posts NEXT_RESPONSE before it goes on; the main thread takes no
\* task before it is through.
LEMMA AwakeNext == ASSUME TypeInv, AwakeOK, [Next]_vars PROVE AwakeOK'
<1> DEFINE Busy == loop \in {"shift", "prompts", "sample", "fail"}
<1>1. queue \in Seq(Tasks) /\ NextResponse \in Tasks
  BY NewTasks DEF TypeInv, TypeOK
<1>2. CASE StartLoop \/ Stop \/ Process
  <2>1. loop' \in {"pop", "stopped"}
    BY <1>2 DEF StartLoop, Stop, Process, Defer, CancelRelease, ProcessNothing, Answer, Launch, Done, Goto
  <2> QED  BY <2>1 DEF AwakeOK
<1>3. ASSUME UNCHANGED <<loop, round, state, job>>, NextResponse \in ToSet(queue) => NextResponse \in ToSet(queue')
      PROVE  AwakeOK'
  BY <1>3 DEF AwakeOK, Processing
<1>4. CASE Terminate \/ UNCHANGED vars
  BY <1>3, <1>4 DEF Terminate, vars, tasks, slots, main
<1>5. ASSUME NEW c \in Client, Submit(c) \/ Hangup(c) \/ Handle(c) PROVE AwakeOK'
  <2>1. UNCHANGED <<loop, round, state, job>>
    BY <1>5 DEF Submit, Hangup, Handle, Post, Receive, Forget, CancelTasks, Leave, slots, main
  <2>2. CASE Post(c)
    BY <1>3, <2>1, <2>2, PostFacts
  <2>3. CASE CancelTasks(c)
    BY <1>3, <2>1, <2>3, CancelFacts, TaskFields
  <2>4. CASE Submit(c) \/ Hangup(c) \/ Receive(c) \/ Forget(c) \/ Leave(c)
    BY <1>3, <2>1, <2>4 DEF Submit, Hangup, Receive, Forget, Leave, tasks
  <2> QED  BY <1>5, <2>2, <2>3, <2>4 DEF Handle
<1>6. CASE UpdateIdle
  BY <1>6 DEF UpdateIdle, Goto, AwakeOK, Processing, slots
<1>7. CASE UpdateStart
  <2>1. ToSet(queue') = ToSet(queue) \cup {NextResponse}
    BY <1>1, <1>7, ToSetProperties DEF UpdateStart
  <2> QED  BY <1>7, <2>1 DEF UpdateStart, Goto, AwakeOK
<1>8. ASSUME NextResponse \in ToSet(queue) => NextResponse \in ToSet(queue'), Busy,
             loop' \in {"shift", "prompts", "sample", "fail", "wait"}
      PROVE  AwakeOK'
  BY <1>8 DEF AwakeOK
<1>9. CASE FillBatch \/ Decode \/ DecodeFail
  BY <1>8, <1>9 DEF FillBatch, Decode, DecodeFail, Goto, tasks
<1>10. ASSUME NEW s \in Slot,
              ContextLimit(s) \/ Reject(s) \/ FailSlot(s) \/ MorePrompt(s) \/ Token(s) \/ Finish(s)
       PROVE  AwakeOK'
  <2>1. Busy /\ loop' \in {loop, "wait"}
    BY <1>10 DEF ContextLimit, Reject, FailSlot, MorePrompt, Token, Finish, Turn, Advance, Goto, main
  <2>2. PopDeferred(queue) \/ UNCHANGED <<queue, deferred>>
    BY <1>10 DEF ContextLimit, Reject, FailSlot, MorePrompt, Token, Finish, tasks
  <2>3. NextResponse \in ToSet(queue) => NextResponse \in ToSet(queue')
    BY <1>1, <2>2, PopFacts
  <2> QED  BY <1>8, <2>1, <2>3
<1>11. CASE Update
  BY <1>6, <1>7, <1>9, <1>10, <1>11 DEF Update
<1> QED  BY <1>2, <1>4, <1>5, <1>11 DEF Next, MainLoop

\* The main thread never sleeps on condition_tasks while a slot has work: it has
\* NEXT_RESPONSE in its queue whenever update_slots has found a slot processing.
THEOREM Awake == Spec => []LoopAwake
<1>1. Init => AwakeOK
  BY DEF Init, AwakeOK, Processing
<1>2. TypeInv /\ AwakeOK /\ [Next]_vars => AwakeOK'
  BY AwakeNext
<1>3. AwakeOK => LoopAwake
  BY DEF AwakeOK, LoopAwake, ToSet
<1> QED  BY <1>1, <1>2, <1>3, TypeInvariance, PTL DEF Spec

\* Every step of the main thread is one of those above.
LEMMA MainSteps ==
    ASSUME TypeInv, RoundOK, MainLoop \/ Terminate \/ UNCHANGED vars
    PROVE  Frame /\ MainStep
<1>1. /\ queue \in Seq(Tasks) /\ deferred \in Seq(Tasks) /\ round \subseteq Slot
      /\ state \in [Slot -> {"idle", "started", "prompt", "generating"}]
  BY DEF TypeInv, TypeOK
<1>2. CASE StartLoop \/ Stop \/ Terminate \/ UNCHANGED vars
  BY <1>2 DEF StartLoop, Stop, Terminate, vars, tasks, replies, slots, main, clients, Frame, MainStep, Still
<1>3. CASE UpdateIdle \/ UpdateStart \/ FillBatch \/ Decode \/ DecodeFail
  BY <1>3 DEF UpdateIdle, UpdateStart, FillBatch, Decode, DecodeFail, tasks, replies, slots, clients,
              Frame, MainStep, Still, Wakes
<1>4. CASE Process
  <2>1. Frame
    BY <1>4 DEF Process, Defer, CancelRelease, ProcessNothing, Answer, Launch, Done, clients, Frame
  <2>2. \A types : Takes(types) => TakeFirst /\ Task.type \in types
    BY TakesType DEF TakeFirst, TypeInv
  <2>3. CASE Defer
    BY <2>1, <2>2, <2>3 DEF Defer, PutsOff, MainStep, slots, SlotTypes
  <2>4. CASE ProcessNothing
    BY <2>1, <2>2, <2>4 DEF ProcessNothing, Drops, MainStep, slots
  <2>5. CASE Answer
    BY <2>1, <2>2, <2>5 DEF Answer, Answers, MainStep, slots
  <2>6. ASSUME NEW s \in Slot, Launch(s) PROVE MainStep
    <3>1. state[s] = "idle"
      BY <2>6 DEF Launch, Available, Processing
    <3> QED  BY <2>2, <2>6, <3>1 DEF Launch, Launches, Refuses, MainStep
  <2>7. CASE CancelRelease
    <3>1. Targeted # {} /\ TakeFirst /\ Task.type = "cancel" /\ UNCHANGED <<results, job>>
      BY <2>2, <2>7 DEF CancelRelease
    <3> DEFINE s == Min(Targeted)
    <3>2. s \in Slot /\ job[s].id = Task.target
      <4>1. s \in Targeted
        BY <3>1, LeastElement, SlotAssumption DEF Targeted
      <4> QED  BY <4>1 DEF Targeted
    <3>3. IF state[s] # "idle"
          THEN state' = [state EXCEPT ![s] = "idle"] /\ PopDeferred(Rest)
          ELSE queue' = Rest /\ UNCHANGED <<state, deferred>>
      BY <2>7 DEF CancelRelease
    <3> HIDE DEF s
    <3> QED  BY <2>1, <3>1, <3>2, <3>3 DEF Cancelled, Drops, MainStep
  <2> QED  BY <1>4, <2>1, <2>3, <2>4, <2>5, <2>6, <2>7 DEF Process
<1>5. ASSUME NEW s \in Slot,
             ContextLimit(s) \/ Reject(s) \/ FailSlot(s) \/ MorePrompt(s) \/ Token(s) \/ Finish(s)
      PROVE  Frame /\ MainStep
  <2>1. Frame /\ UNCHANGED job
    BY <1>5 DEF ContextLimit, Reject, FailSlot, MorePrompt, Token, Finish, replies, clients, Frame
  <2>2. CASE ContextLimit(s) \/ Reject(s)
    BY <2>1, <2>2 DEF ContextLimit, Reject, Releases, LastOf, MainStep
  <2>3. CASE FailSlot(s)
    <3>1. CASE state[s] # "idle"
      BY <2>1, <2>3, <3>1 DEF FailSlot, Releases, LastOf, MainStep
    <3>2. CASE state[s] = "idle"
      <4>1. Faults
        BY <2>3 DEF FailSlot, Turn, RoundOK
      <4>2. state' = state
        BY <1>1, <2>3, <3>2 DEF FailSlot
      <4> QED  BY <2>1, <2>3, <3>2, <4>1, <4>2 DEF FailSlot, FailsIdle, MainStep, tasks
    <3> QED  BY <3>1, <3>2
  <2>4. CASE MorePrompt(s) \/ Token(s) \/ Finish(s)
    <3>1. state[s] # "idle"
      BY <2>4 DEF MorePrompt, Token, Finish, Turn, RoundOK, Processing
    <3>2. Partial(s) \in {<<>>, <<Result(job[s].id, "partial")>>}
      BY DEF Partial
    <3>3. CASE MorePrompt(s)
      BY <1>1, <2>1, <3>1, <3>3 DEF MorePrompt, GoesOn, MainStep, tasks, replies
    <3>4. CASE Token(s)
      <4>1. Send(<<>>) => UNCHANGED results
        <5>1. <<>> \in Messages(1)
          BY DEF Messages
        <5>2. results \in Seq(Results)
          BY DEF TypeInv, TypeOK, Results, Kinds
        <5> QED  BY <5>1, <5>2, SendProperties, ConcatEmptySeq DEF TypeInv
      <4> QED  BY <2>1, <3>1, <3>2, <3>4, <4>1 DEF Token, GoesOn, MainStep, tasks
    <3>5. CASE Finish(s)
      <4>1. Partial(s) \o <<Result(job[s].id, "final")>> \in LastOf(job[s].id)
        <5>1. CASE Partial(s) = <<>>
          <6> DEFINE last == <<Result(job[s].id, "final")>>
          <6>1. last \in Seq({Result(job[s].id, "final")})
            OBVIOUS
          <6> HIDE DEF last
          <6>2. <<>> \o last = last
            BY <6>1, ConcatEmptySeq
          <6> QED  BY <5>1, <6>2 DEF LastOf, last
        <5>2. CASE Partial(s) = <<Result(job[s].id, "partial")>>
          BY <5>2, PairConcat DEF LastOf
        <5> QED  BY <3>2, <5>1, <5>2
      <4> QED  BY <2>1, <3>1, <3>5, <4>1 DEF Finish, Releases, MainStep
    <3> QED  BY <2>4, <3>3, <3>4, <3>5
  <2> QED  BY <1>5, <2>1, <2>2, <2>3, <2>4
<1> QED  BY <1>2, <1>3, <1>4, <1>5 DEF MainLoop, Update

\* pop_deferred_task keeps all the tasks.
LEMMA PopSets ==
    ASSUME TypeInv, NEW q \in Seq(Tasks), PopDeferred(q)
    PROVE  /\ ToSet(queue') \cup ToSet(deferred') = ToSet(q) \cup ToSet(deferred)
           /\ ToSet(q) \subseteq ToSet(queue') /\ ToSet(deferred') \subseteq ToSet(deferred)
           /\ ToSet(queue') \subseteq ToSet(q) \cup ToSet(deferred)
<1>1. CASE deferred = <<>> /\ queue' = q /\ deferred' = deferred
  BY <1>1, ToSetProperties, NewTasks
<1>2. CASE /\ ToSet(queue') = ToSet(q) \cup {Head(deferred)}
           /\ ToSet(deferred) = {Head(deferred)} \cup ToSet(deferred')
  <2> DEFINE h == Head(deferred)
  <2> HIDE DEF h
  <2>1. ToSet(queue') = ToSet(q) \cup {h} /\ ToSet(deferred) = {h} \cup ToSet(deferred')
    BY <1>2 DEF h
  <2> QED  BY <2>1
<1> QED  BY <1>1, <1>2, PopFacts

\* A task that is taken leaves the queue.
LEMMA TakeSets ==
    ASSUME TypeInv, TakeFirst
    PROVE  /\ ToSet(queue) = {Task} \cup ToSet(Rest) /\ Rest \in Seq(Tasks) /\ Task \in ToSet(queue)
           /\ ToSet(Append(deferred, Task)) = ToSet(deferred) \cup {Task}
<1>1. deferred \in Seq(Tasks) /\ queue \in Seq(Tasks) /\ queue # <<>> /\ Task \in Tasks
  BY DEF TakeFirst, TypeInv, TypeOK
<1>2. ToSet(queue) = {Head(queue)} \cup ToSet(Tail(queue)) /\ Tail(queue) \in Seq(Tasks)
  BY <1>1, ToSetProperties, HeadTailProperties
<1>3. ToSet(Append(deferred, Task)) = ToSet(deferred) \cup {Task}
  <2> HIDE DEF Task
  <2> QED  BY <1>1, ToSetProperties
<1> QED  BY <1>2, <1>3 DEF Task, Rest

\* recv takes the first of the client's results.
LEMMA ReceiveFacts ==
    ASSUME TypeInv, NEW c \in Client, Receive(c)
    PROVE  /\ at[c] = "recv" /\ req[c] \in Requests
           /\ Min(Mine(c)) \in DOMAIN results /\ results[Min(Mine(c))].id \in ids[c]
           /\ results' = RemoveAt(results, Min(Mine(c)))
           /\ \A r \in ToSet(results') : r \in ToSet(results)
           /\ \A r \in ToSet(results) : r \in ToSet(results') \/ r = results[Min(Mine(c))]
           /\ \E next \in {"leave", "forget", "recv"} : at' = [at EXCEPT ![c] = next]
           /\ at'[c] = "recv" => ~OneShot(c) /\ results[Min(Mine(c))].kind # "error"
           /\ at'[c] = "leave" => OneShot(c) \/ count'[c] = req[c].prompts
           /\ IF results[Min(Mine(c))].kind = "final"
              THEN /\ got' = [got EXCEPT ![c] = @ \cup {results[Min(Mine(c))].id}]
                   /\ count' = [count EXCEPT ![c] = @ + 1]
              ELSE UNCHANGED <<got, count>>
           /\ UNCHANGED <<queue, deferred, running, nextId, waiting, state, job, loop, round, req, ids>>
<1> DEFINE i == Min(Mine(c))
<1>1. /\ at[c] = "recv" /\ Mine(c) # {} /\ results' = RemoveAt(results, i)
      /\ IF results[i].kind = "final"
         THEN /\ got' = [got EXCEPT ![c] = @ \cup {results[i].id}]
              /\ count' = [count EXCEPT ![c] = @ + 1]
         ELSE UNCHANGED <<got, count>>
      /\ at' = [at EXCEPT ![c] =
                  IF OneShot(c) THEN "leave"
                  ELSE IF results[i].kind = "error" THEN "forget"
                  ELSE IF count'[c] = req[c].prompts THEN "leave" ELSE "recv"]
      /\ UNCHANGED <<queue, deferred, running, nextId, waiting, state, job, loop, round, req, ids>>
  BY DEF Receive, tasks, slots, main
<1>2. i \in DOMAIN results /\ results[i].id \in ids[c]
  BY <1>1, FirstOfMine DEF TypeInv
<1>3. at \in [Client -> {"idle", "post", "recv", "gone", "forget", "cancel", "leave"}] /\ req[c] \in Requests
  BY <1>1 DEF TypeInv, TypeOK, ClientsOK, ClientOK
<1> HIDE DEF i
<1>4. /\ \E next \in {"leave", "forget", "recv"} : at' = [at EXCEPT ![c] = next]
      /\ at'[c] = "recv" => ~OneShot(c) /\ results[i].kind # "error"
      /\ at'[c] = "leave" => OneShot(c) \/ count'[c] = req[c].prompts
  BY <1>1, <1>3
<1>5. /\ \A r \in ToSet(results') : r \in ToSet(results)
      /\ \A r \in ToSet(results) : r \in ToSet(results') \/ r = results[i]
  <2>1. results \in Seq(Results)
    BY DEF TypeInv, TypeOK, Results, Kinds
  <2>2. Len(results) \in Nat /\ DOMAIN results = 1 .. Len(results)
    BY <2>1, LenProperties
  <2>3. /\ DOMAIN results' = 1 .. Len(results) - 1
        /\ \A n \in 1 .. Len(results) - 1 : results'[n] = IF n < i THEN results[n] ELSE results[n + 1]
    BY <1>1, <1>2, <2>1, RemoveAtProperties
  <2>4. \A n \in DOMAIN results' : \E m \in DOMAIN results : results'[n] = results[m]
    <3>1. \A n \in 1 .. Len(results) - 1 : n \in 1 .. Len(results) /\ n + 1 \in 1 .. Len(results)
      BY <2>2
    <3> QED  BY <2>2, <2>3, <3>1
  <2>5. \A m \in DOMAIN results : m = i \/ \E n \in DOMAIN results' : results'[n] = results[m]
    <3>1. ASSUME NEW m \in DOMAIN results, m < i PROVE m \in DOMAIN results' /\ results'[m] = results[m]
      BY <1>2, <2>2, <2>3, <3>1
    <3>2. ASSUME NEW m \in DOMAIN results, m > i
          PROVE  m - 1 \in DOMAIN results' /\ results'[m - 1] = results[m]
      <4>1. m - 1 \in 1 .. Len(results) - 1 /\ ~(m - 1 < i) /\ (m - 1) + 1 = m
        BY <1>2, <2>2, <3>2
      <4> QED  BY <2>3, <4>1
    <3>3. \A m \in DOMAIN results : m = i \/ m < i \/ m > i
      BY <1>2, <2>2
    <3> QED  BY <3>1, <3>2, <3>3
  <2> QED  BY <2>4, <2>5 DEF ToSet
<1> QED  BY <1>1, <1>2, <1>3, <1>4, <1>5 DEF i

\* The handler returns.
LEMMA LeaveFacts ==
    ASSUME TypeInv, NEW c \in Client, Leave(c)
    PROVE  /\ at[c] \in {"leave", "gone"} /\ Return(c) /\ req[c] \in Requests
           /\ waiting' = (IF req[c].type = "rerank" THEN waiting ELSE waiting \ ids[c])
           /\ results' = Unread(ids[c]) \/ (results' = results /\ ~OneShot(c))
           /\ \A r \in ToSet(results') : r \in ToSet(results)
           /\ \A r \in ToSet(results) : r \in ToSet(results') \/ r.id \in ids[c]
           /\ UNCHANGED <<queue, deferred, running, nextId, state, job, loop, round>>
<1>1. /\ at[c] \in {"leave", "gone"} /\ Return(c)
      /\ waiting' = IF req[c].type = "rerank" THEN waiting ELSE waiting \ ids[c]
      /\ results' = Unread(ids[c]) \/ (results' = results /\ ~OneShot(c))
      /\ UNCHANGED <<queue, deferred, running, nextId, state, job, loop, round>>
  BY DEF Leave, tasks, slots, main
<1>2. req[c] \in Requests
  BY <1>1 DEF TypeInv, ClientsOK, ClientOK
<1>3. results' = results => ToSet(results') = ToSet(results)
  BY DEF ToSet
<1> QED  BY <1>1, <1>2, <1>3, UnreadFacts

\* cancel_tasks drops the registrations and the results.
LEMMA ForgetFacts ==
    ASSUME TypeInv, NEW c \in Client, Forget(c)
    PROVE  /\ at[c] = "forget" /\ at' = [at EXCEPT ![c] = "cancel"] /\ waiting' = waiting \ ids[c]
           /\ results' = Unread(ids[c])
           /\ ToSet(results') = {r \in ToSet(results) : r.id \notin ids[c]}
           /\ UNCHANGED <<queue, deferred, running, nextId, state, job, loop, round, req, ids, got, count>>
BY UnreadFacts DEF Forget, tasks, slots, main

\* What a handler that returns keeps.
LEMMA ReturnFacts ==
    ASSUME TypeInv, NEW c \in Client, Return(c)
    PROVE  /\ at' \in [Client -> {"idle", "post", "recv", "gone", "forget", "cancel", "leave"}]
           /\ at'[c] = "idle" /\ ids'[c] = {} /\ got'[c] = {} /\ count'[c] = 0
           /\ \A d \in Client \ {c} : /\ at'[d] = at[d] /\ ids'[d] = ids[d] /\ got'[d] = got[d]
                                      /\ count'[d] = count[d] /\ req'[d] = req[d]
BY DEF Return, TypeInv, TypeOK

-----------------------------------------------------------------------------
(* The kinds of tasks.                                                     *)

\* Tasks keep to their places.
LEMMA ShapeNext == ASSUME TypeInv, RoundOK, ShapeOK, [Next]_vars PROVE ShapeOK'
<1> DEFINE InQueue(t) == IsRequest(t) \/ IsCancel(t) \/ t = NextResponse
<1>1. /\ \A t \in ToSet(queue) : InQueue(t)
      /\ \A t \in ToSet(deferred) : IsRequest(t) /\ t.type # "metrics"
      /\ \A s \in Slot : job[s] = NoTask \/ IsRequest(job[s])
      /\ \A s \in Slot : state[s] # "idle" => IsRequest(job[s])
      /\ queue \in Seq(Tasks) /\ NextResponse \in Tasks
      /\ job \in [Slot -> Tasks] /\ state \in [Slot -> {"idle", "started", "prompt", "generating"}]
  BY NewTasks DEF ShapeOK, Processing, TypeInv, TypeOK
<1>2. ASSUME \A t \in ToSet(queue') : InQueue(t),
             \A t \in ToSet(deferred') : IsRequest(t) /\ t.type # "metrics",
             \A s \in Slot : job'[s] = NoTask \/ IsRequest(job'[s]),
             \A s \in Slot : state'[s] # "idle" => IsRequest(job'[s])
      PROVE  ShapeOK'
  BY <1>2 DEF ShapeOK, Processing
<1> HIDE DEF InQueue
<1>3. CASE MainLoop \/ Terminate \/ UNCHANGED vars
  <2>1. MainStep
    BY <1>3, MainSteps
  <2>2. CASE Still
    BY <1>1, <1>2, <2>2 DEF Still
  <2>3. CASE Wakes
    <3>1. ToSet(queue') = ToSet(queue) \cup {NextResponse}
      BY <1>1, <2>3, ToSetProperties DEF Wakes
    <3> QED  BY <1>1, <1>2, <2>3, <3>1 DEF Wakes, InQueue
  <2>4. CASE PutsOff
    <3>1. ToSet(queue) = {Task} \cup ToSet(queue') /\ ToSet(deferred') = ToSet(deferred) \cup {Task}
      BY <2>4, TakeSets DEF PutsOff
    <3>2. IsRequest(Task) /\ Task.type # "metrics"
      BY <2>4, <3>1, KindsOfTasks DEF PutsOff, SlotTypes, OtherTypes
    <3> QED  BY <1>1, <1>2, <2>4, <3>1, <3>2 DEF PutsOff
  <2>5. CASE Drops \/ Answers
    <3>1. ToSet(queue) = {Task} \cup ToSet(queue')
      BY <2>5, TakeSets DEF Drops, Answers
    <3> QED  BY <1>1, <1>2, <2>5, <3>1 DEF Drops, Answers
  <2>6. ASSUME NEW s \in Slot, Launches(s) \/ Refuses(s) PROVE ShapeOK'
    <3>1. ToSet(queue) = {Task} \cup ToSet(queue')
      BY <2>6, TakeSets DEF Launches, Refuses
    <3>2. IsRequest(Task)
      BY <2>6, <3>1, KindsOfTasks DEF Launches, Refuses
    <3>3. /\ job' = [job EXCEPT ![s] = Task] /\ deferred' = deferred
          /\ state' = state \/ state' = [state EXCEPT ![s] = "started"]
      BY <2>6 DEF Launches, Refuses
    <3>4. \A p \in Slot : job'[p] = (IF p = s THEN Task ELSE job[p])
      BY <1>1, <3>3
    <3>5. \A p \in Slot : p # s => state'[p] = state[p]
      BY <1>1, <3>3
    <3> QED  BY <1>1, <1>2, <3>1, <3>2, <3>3, <3>4, <3>5
  <2>7. ASSUME NEW s \in Slot, Cancelled(s) PROVE ShapeOK'
    <3>1. ToSet(queue) = {Task} \cup ToSet(Rest) /\ Rest \in Seq(Tasks)
      BY <2>7, TakeSets DEF Cancelled
    <3>2. /\ ToSet(queue') \subseteq ToSet(Rest) \cup ToSet(deferred)
          /\ ToSet(deferred') \subseteq ToSet(deferred)
      BY <2>7, <3>1, PopSets DEF Cancelled
    <3> QED  BY <1>1, <1>2, <2>7, <3>1, <3>2 DEF Cancelled, InQueue
  <2>8. ASSUME NEW s \in Slot, Releases(s) PROVE ShapeOK'
    <3>1. /\ ToSet(queue') \subseteq ToSet(queue) \cup ToSet(deferred)
          /\ ToSet(deferred') \subseteq ToSet(deferred)
      BY <1>1, <2>8, PopSets DEF Releases
    <3> QED  BY <1>1, <1>2, <2>8, <3>1 DEF Releases, InQueue
  <2>9. ASSUME NEW s \in Slot, GoesOn(s) \/ FailsIdle(s) PROVE ShapeOK'
    BY <1>1, <1>2, <2>9 DEF GoesOn, FailsIdle
  <2> QED  BY <2>1, <2>2, <2>3, <2>4, <2>5, <2>6, <2>7, <2>8, <2>9 DEF MainStep
<1>4. ASSUME NEW c \in Client, Post(c) PROVE ShapeOK'
  <2>1. /\ ToSet(queue') = ToSet(queue) \cup {TaskOf(req[c], t) : t \in ids[c]}
        /\ UNCHANGED <<deferred, state, job>> /\ req[c] \in Requests
    BY <1>4, PostFacts
  <2>2. \A t \in ids[c] : IsRequest(TaskOf(req[c], t))
    BY <2>1 DEF IsRequest, TypeInv, TypeOK
  <2> QED  BY <1>1, <1>2, <2>1, <2>2 DEF InQueue
<1>5. ASSUME NEW c \in Client, CancelTasks(c) PROVE ShapeOK'
  <2>1. \A t \in ids[c] : IsCancel(CancelOf(t))
    BY TaskFields DEF IsCancel, TypeInv, TypeOK
  <2> QED  BY <1>1, <1>2, <1>5, <2>1, CancelFacts DEF InQueue
<1>6. ASSUME NEW c \in Client, Submit(c) \/ Hangup(c) \/ Receive(c) \/ Forget(c) \/ Leave(c)
      PROVE  ShapeOK'
  <2>1. UNCHANGED <<queue, deferred, state, job>>
    BY <1>6 DEF Submit, Hangup, Receive, Forget, Leave, tasks, slots
  <2> QED  BY <1>1, <1>2, <2>1
<1> QED  BY <1>3, <1>4, <1>5, <1>6 DEF Next, Handle

-----------------------------------------------------------------------------
(* Who owns which ids.                                                     *)

\* The main thread makes no id turn up where it was not known before.
LEMMA MainUsed ==
    ASSUME TypeInv, ShapeOK, MainStep, NEW t \in TaskId, Used(t)'
    PROVE  Used(t)
<1> DEFINE All == ToSet(queue) \cup ToSet(deferred)
<1>1. /\ queue \in Seq(Tasks) /\ NextResponse \in Tasks /\ job \in [Slot -> Tasks]
      /\ t # None /\ NextResponse.id = None
  BY TaskFields, NewTasks DEF TypeInv, TypeOK
<1>2. ASSUME \A u \in All' : u.id = t => Used(t),
             \A s \in Slot : job'[s].id = t => Used(t),
             \A r \in ToSet(results') : r.id = t => Used(t)
      PROVE  Used(t)
  BY <1>2 DEF Used
<1>3. /\ \A u \in All : u.id = t => Used(t)
      /\ \A s \in Slot : job[s].id = t => Used(t)
      /\ \A r \in ToSet(results) : r.id = t => Used(t)
  BY DEF Used
<1>4. CASE Still
  BY <1>2, <1>3, <1>4 DEF Still
<1>5. CASE Wakes
  <2>1. ToSet(queue') = ToSet(queue) \cup {NextResponse}
    BY <1>1, <1>5, ToSetProperties DEF Wakes
  <2> QED  BY <1>1, <1>2, <1>3, <1>5, <2>1 DEF Wakes
<1>6. CASE PutsOff
  <2>1. ToSet(queue) = {Task} \cup ToSet(queue') /\ ToSet(deferred') = ToSet(deferred) \cup {Task}
    BY <1>6, TakeSets DEF PutsOff
  <2> QED  BY <1>2, <1>3, <1>6, <2>1 DEF PutsOff
<1>7. CASE Drops
  <2>1. ToSet(queue) = {Task} \cup ToSet(queue')
    BY <1>7, TakeSets DEF Drops
  <2> QED  BY <1>2, <1>3, <1>7, <2>1 DEF Drops
<1>8. CASE Answers
  <2>1. ToSet(queue) = {Task} \cup ToSet(queue') /\ Task \in ToSet(queue)
    BY <1>8, TakeSets DEF Answers
  <2>2. \A r \in ToSet(results') : r \in ToSet(results) \/ r.id = Task.id
    BY <1>8, MessagesSent, SendFacts DEF Answers, Kinds
  <2> QED  BY <1>2, <1>3, <1>8, <2>1, <2>2 DEF Answers
<1>9. ASSUME NEW s \in Slot, Launches(s) \/ Refuses(s) PROVE Used(t)
  <2>1. ToSet(queue) = {Task} \cup ToSet(queue') /\ Task \in ToSet(queue)
    BY <1>9, TakeSets DEF Launches, Refuses
  <2>2. \A r \in ToSet(results') : r \in ToSet(results) \/ r.id = Task.id
    BY <1>9, MessagesSent, SendFacts DEF Launches, Refuses, Kinds
  <2>3. job' = [job EXCEPT ![s] = Task] /\ deferred' = deferred
    BY <1>9 DEF Launches, Refuses
  <2>4. \A p \in Slot : job'[p] = (IF p = s THEN Task ELSE job[p])
    BY <1>1, <2>3
  <2> QED  BY <1>2, <1>3, <2>1, <2>2, <2>3, <2>4
<1>10. ASSUME NEW s \in Slot, Cancelled(s) PROVE Used(t)
  <2>1. ToSet(queue) = {Task} \cup ToSet(Rest) /\ Rest \in Seq(Tasks)
    BY <1>10, TakeSets DEF Cancelled
  <2>2. All' = ToSet(Rest) \cup ToSet(deferred)
    BY <1>10, <2>1, PopSets DEF Cancelled
  <2> QED  BY <1>2, <1>3, <1>10, <2>1, <2>2 DEF Cancelled
<1>11. ASSUME NEW s \in Slot, Releases(s) PROVE Used(t)
  <2>1. All' = All
    BY <1>1, <1>11, PopSets DEF Releases
  <2>2. PICK seq \in LastOf(job[s].id) : Send(seq)
    BY <1>11 DEF Releases
  <2>3. seq \in Messages(job[s].id)
    BY DEF LastOf, Messages, Kinds
  <2>4. \A r \in ToSet(results') : r \in ToSet(results) \/ r.id = job[s].id
    BY <2>2, <2>3, SendFacts
  <2> QED  BY <1>2, <1>3, <1>11, <2>1, <2>4 DEF Releases
<1>12. ASSUME NEW s \in Slot, GoesOn(s) \/ FailsIdle(s) PROVE Used(t)
  <2>1. \A r \in ToSet(results') : r \in ToSet(results) \/ r.id = job[s].id
    <3>1. ASSUME NEW k \in Kinds, Send(<<Result(job[s].id, k)>>)
          PROVE  \A r \in ToSet(results') : r \in ToSet(results) \/ r.id = job[s].id
      BY <3>1, MessagesSent, SendFacts
    <3>2. results' = results => ToSet(results') = ToSet(results)
      BY DEF ToSet
    <3> QED  BY <1>12, <3>1, <3>2 DEF GoesOn, FailsIdle, Kinds
  <2>2. UNCHANGED <<queue, deferred, job>>
    BY <1>12 DEF GoesOn, FailsIdle
  <2> QED  BY <1>2, <1>3, <2>1, <2>2
<1> QED  BY <1>4, <1>5, <1>6, <1>7, <1>8, <1>9, <1>10, <1>11, <1>12 DEF MainStep

\* The main thread posts no cancel task.
LEMMA MainCancels ==
    ASSUME TypeInv, ShapeOK, MainStep, NEW u \in ToSet(queue'), IsCancel(u)
    PROVE  u \in ToSet(queue)
<1>1. queue \in Seq(Tasks) /\ NextResponse \in Tasks /\ ~IsCancel(NextResponse)
  BY TaskFields, NewTasks DEF TypeInv, TypeOK, IsCancel
<1>2. u \notin ToSet(deferred)
  BY RequestFields DEF ShapeOK, IsCancel, SlotTypes, OtherTypes
<1>3. CASE Wakes
  <2>1. ToSet(queue') = ToSet(queue) \cup {NextResponse}
    BY <1>1, <1>3, ToSetProperties DEF Wakes
  <2> QED  BY <1>1, <2>1
<1>4. CASE PutsOff \/ Drops \/ Answers \/ \E s \in Slot : Launches(s) \/ Refuses(s)
  BY <1>4, TakeSets DEF PutsOff, Drops, Answers, Launches, Refuses
<1>5. ASSUME NEW s \in Slot, Cancelled(s) PROVE u \in ToSet(queue)
  BY <1>2, <1>5, TakeSets, PopSets DEF Cancelled
<1>6. ASSUME NEW s \in Slot, Releases(s) PROVE u \in ToSet(queue)
  BY <1>1, <1>2, <1>6, PopSets DEF Releases
<1>7. CASE Still \/ \E s \in Slot : GoesOn(s) \/ FailsIdle(s)
  BY <1>7 DEF Still, GoesOn, FailsIdle
<1> QED  BY <1>3, <1>4, <1>5, <1>6, <1>7 DEF MainStep

\* Ids are drawn once and cancelled after their handler has let go of them.
LEMMA OwnedNext == ASSUME TypeInv, RoundOK, ShapeOK, OwnedOK, [Next]_vars PROVE OwnedOK'
<1>1. /\ \A c, d \in Client : c # d => ids[c] \cap ids[d] = {}
      /\ \A c \in Client : got[c] \subseteq ids[c] /\ \A t \in ids[c] : t < nextId
      /\ \A t \in TaskId : Used(t) => t < nextId
      /\ \A u \in ToSet(queue) : IsCancel(u) =>
           u.target < nextId /\ \A c \in Client : u.target \notin ids[c]
      /\ \A c \in Client : at[c] = "post" => got[c] = {} /\ \A t \in ids[c] : ~Used(t)
      /\ \A c \in Client : at[c] \in {"post", "recv"} => ids[c] \subseteq waiting
  BY DEF OwnedOK
<1>2. /\ at \in [Client -> {"idle", "post", "recv", "gone", "forget", "cancel", "leave"}]
      /\ ids \in [Client -> SUBSET TaskId] /\ got \in [Client -> SUBSET TaskId]
      /\ nextId \in Nat /\ TaskId \subseteq Nat
  BY TaskAssumption DEF TypeInv, TypeOK, TaskId
<1>3. CASE MainLoop \/ Terminate \/ UNCHANGED vars
  <2>1. Frame /\ MainStep
    BY <1>3, MainSteps
  <2>2. /\ \A t \in TaskId : Used(t)' => Used(t)
        /\ \A u \in ToSet(queue') : IsCancel(u) => u \in ToSet(queue)
    BY <2>1, MainUsed, MainCancels
  <2> QED  BY <1>1, <1>2, <2>1, <2>2 DEF OwnedOK, Frame
<1>4. ASSUME NEW c \in Client, Submit(c) PROVE OwnedOK'
  <2>1. PICK r \in Requests :
          /\ nextId' = nextId + r.prompts
          /\ ids' = [ids EXCEPT ![c] = nextId .. nextId' - 1] /\ waiting' = waiting \cup ids'[c]
    BY <1>4 DEF Submit
  <2>2. at[c] = "idle" /\ at' = [at EXCEPT ![c] = "post"] /\ UNCHANGED <<queue, deferred, results, job, got>>
    BY <1>4 DEF Submit, tasks, slots
  <2>3. r.prompts \in Nat \ {0}
    BY RequestAssumption DEF AllRequests
  <2>4. got[c] = {}
    BY <2>2 DEF TypeInv, ClientsOK, ClientOK
  <2>5. /\ ids'[c] = nextId .. nextId' - 1 /\ \A d \in Client : d # c => ids'[d] = ids[d]
        /\ nextId' \in Nat /\ nextId < nextId' /\ \A t \in nextId .. nextId' - 1 : ~(t < nextId) /\ t < nextId'
    BY <1>2, <2>1, <2>3
  <2>6. \A t \in TaskId : Used(t)' <=> Used(t)
    BY <2>2 DEF Used
  <2>7. \A d \in Client : ids'[d] \in SUBSET TaskId
    BY TypeNext DEF TypeInv, TypeOK
  <2>8. \A t \in TaskId : t < nextId => t < nextId' /\ t \notin ids'[c]
    <3>1. nextId \in Nat /\ nextId' \in Nat /\ nextId < nextId' /\ \A t \in TaskId : t \in Nat
      BY <1>2, <2>5
    <3>2. \A t \in TaskId : t < nextId => t < nextId'
      BY <3>1
    <3>3. \A t \in ids'[c] : ~(t < nextId)
      BY <2>5
    <3> QED  BY <3>2, <3>3
  <2>9. \A d, e \in Client : d # e => ids'[d] \cap ids'[e] = {}
    BY <1>1, <1>2, <2>5, <2>8
  <2>10. \A d \in Client : got'[d] \subseteq ids'[d] /\ \A t \in ids'[d] : t < nextId'
    BY <1>1, <1>2, <2>2, <2>4, <2>5, <2>8
  <2>11. \A u \in ToSet(queue') : IsCancel(u) =>
           u.target < nextId' /\ \A d \in Client : u.target \notin ids'[d]
    BY <1>1, <2>2, <2>5, <2>8 DEF IsCancel
  <2>12. \A d \in Client : at'[d] = "post" => got'[d] = {} /\ \A t \in ids'[d] : ~Used(t)'
    BY <1>1, <1>2, <2>2, <2>4, <2>5, <2>6, <2>7
  <2>13. \A d \in Client : at'[d] \in {"post", "recv"} => ids'[d] \subseteq waiting'
    BY <1>1, <1>2, <2>1, <2>2, <2>5
  <2> QED  BY <1>1, <2>6, <2>8, <2>9, <2>10, <2>11, <2>12, <2>13 DEF OwnedOK
<1>5. ASSUME NEW c \in Client, Post(c) PROVE OwnedOK'
  <2>1. /\ at[c] = "post" /\ req[c] \in Requests
        /\ \E place \in {"recv", "gone"} : at' = [at EXCEPT ![c] = place]
        /\ ToSet(queue') = ToSet(queue) \cup {TaskOf(req[c], t) : t \in ids[c]}
        /\ UNCHANGED <<deferred, nextId, waiting, results, job, ids, got>>
    BY <1>5, PostFacts
  <2>2. \A t \in ids[c] : TaskOf(req[c], t).id = t /\ ~IsCancel(TaskOf(req[c], t))
    BY <2>1, TaskFields DEF IsCancel, SlotTypes, OtherTypes
  <2>3. \A t \in TaskId : Used(t)' => Used(t) \/ t \in ids[c]
    BY <2>1, <2>2 DEF Used
  <2>4. \A u \in ToSet(queue') : IsCancel(u) => u \in ToSet(queue)
    BY <2>1, <2>2
  <2>5. \A d \in Client : at'[d] = "post" => got'[d] = {} /\ \A t \in ids'[d] : ~Used(t)'
    BY <1>1, <1>2, <2>1, <2>3
  <2> QED  BY <1>1, <1>2, <2>1, <2>3, <2>4, <2>5 DEF OwnedOK
<1>6. ASSUME NEW c \in Client, Receive(c) PROVE OwnedOK'
  <2>1. /\ \E next \in {"leave", "forget", "recv"} : at' = [at EXCEPT ![c] = next]
        /\ at[c] = "recv" /\ \A r \in ToSet(results') : r \in ToSet(results)
        /\ UNCHANGED <<queue, deferred, nextId, waiting, job, ids>>
    BY <1>6, ReceiveFacts
  <2>2. \A d \in Client : got'[d] \subseteq ids[d] /\ (d # c => got'[d] = got[d])
    BY <1>1, <1>2, <1>6, ReceiveFacts
  <2>3. \A t \in TaskId : Used(t)' => Used(t)
    BY <2>1 DEF Used
  <2> QED  BY <1>1, <1>2, <2>1, <2>2, <2>3 DEF OwnedOK
<1>7. ASSUME NEW c \in Client, Hangup(c) PROVE OwnedOK'
  <2>1. /\ at[c] = "recv" /\ at' = [at EXCEPT ![c] = "forget"]
        /\ UNCHANGED <<queue, deferred, nextId, waiting, results, job, ids, got>>
    BY <1>7 DEF Hangup, tasks, replies, slots
  <2> QED  BY <1>1, <1>2, <2>1 DEF OwnedOK, Used
<1>8. ASSUME NEW c \in Client, Forget(c) PROVE OwnedOK'
  <2>1. /\ at' = [at EXCEPT ![c] = "cancel"] /\ waiting' = waiting \ ids[c]
        /\ \A r \in ToSet(results') : r \in ToSet(results)
        /\ UNCHANGED <<queue, deferred, nextId, job, ids, got>>
    BY <1>8, ForgetFacts
  <2>2. \A t \in TaskId : Used(t)' => Used(t)
    BY <2>1 DEF Used
  <2> QED  BY <1>1, <1>2, <2>1, <2>2 DEF OwnedOK
<1>9. ASSUME NEW c \in Client, CancelTasks(c) PROVE OwnedOK'
  <2>1. /\ Return(c)
        /\ ToSet(queue') = {CancelOf(t) : t \in ids[c]} \cup
                           {u \in ToSet(queue) : u.target = None \/ u.target \notin ids[c]}
        /\ ToSet(deferred') \subseteq ToSet(deferred)
        /\ UNCHANGED <<nextId, waiting, results, job>>
    BY <1>9, CancelFacts
  <2>2. \A t \in ids[c] : CancelOf(t).id = None /\ CancelOf(t).target = t
    BY TaskFields
  <2>3. \A t \in TaskId : Used(t)' => Used(t)
    BY <2>1, <2>2, TaskFields DEF Used
  <2>4. \A u \in ToSet(queue') : IsCancel(u) => u.target \in ids[c] \/ u \in ToSet(queue)
    BY <2>1, <2>2
  <2>5. /\ ids'[c] = {} /\ got'[c] = {} /\ at'[c] = "idle"
        /\ \A d \in Client \ {c} : at'[d] = at[d] /\ ids'[d] = ids[d] /\ got'[d] = got[d]
    BY <2>1, ReturnFacts
  <2>6. \A u \in ToSet(queue') : IsCancel(u) =>
          u.target < nextId' /\ \A d \in Client : u.target \notin ids'[d]
    BY <1>1, <1>2, <2>1, <2>4, <2>5
  <2> QED  BY <1>1, <1>2, <2>1, <2>3, <2>5, <2>6 DEF OwnedOK
<1>10. ASSUME NEW c \in Client, Leave(c) PROVE OwnedOK'
  <2>1. /\ Return(c) /\ \A t \in waiting : t \in waiting' \/ t \in ids[c]
        /\ \A r \in ToSet(results') : r \in ToSet(results)
        /\ UNCHANGED <<queue, deferred, nextId, job>>
    BY <1>10, LeaveFacts
  <2>2. \A t \in TaskId : Used(t)' => Used(t)
    BY <2>1 DEF Used
  <2>3. /\ ids'[c] = {} /\ got'[c] = {} /\ at'[c] = "idle"
        /\ \A d \in Client \ {c} : at'[d] = at[d] /\ ids'[d] = ids[d] /\ got'[d] = got[d]
    BY <2>1, ReturnFacts
  <2>4. \A d \in Client : at'[d] \in {"post", "recv"} => ids'[d] \subseteq waiting'
    BY <1>1, <1>2, <2>1, <2>3
  <2> QED  BY <1>1, <1>2, <2>1, <2>2, <2>3, <2>4 DEF OwnedOK
<1> QED  BY <1>3, <1>4, <1>5, <1>6, <1>7, <1>8, <1>9, <1>10 DEF Next, Handle

-----------------------------------------------------------------------------
(* No task is lost.                                                        *)

\* The last result of a task that is waited for is delivered.
LEMMA LastSent ==
    ASSUME TypeInv, NEW t \in waiting, NEW seq \in LastOf(t), Send(seq)
    PROVE  \E r \in ToSet(results') : r.id = t /\ r.kind # "partial"
<1>1. seq \in Messages(t)
  BY DEF LastOf, Messages, Kinds
<1>2. ToSet(results') = ToSet(results) \cup ToSet(seq)
  BY <1>1, SendFacts
<1>3. \E r \in ToSet(seq) : r.id = t /\ r.kind # "partial"
  <2>1. \A k : Result(t, k).id = t /\ Result(t, k).kind = k
    BY DEF Result
  <2>2. ASSUME NEW k, seq = <<Result(t, k)>> PROVE Result(t, k) \in ToSet(seq)
    BY <2>2 DEF ToSet
  <2>3. ASSUME seq = <<Result(t, "partial"), Result(t, "final")>> PROVE Result(t, "final") \in ToSet(seq)
    <3>1. 2 \in DOMAIN seq /\ seq[2] = Result(t, "final")
      BY <2>3
    <3> QED  BY <3>1 DEF ToSet
  <2>4. CASE seq = <<Result(t, "error")>>
    <3>1. Result(t, "error") \in ToSet(seq) /\ Result(t, "error").id = t /\ Result(t, "error").kind = "error"
      BY <2>1, <2>2, <2>4
    <3> QED  BY <3>1
  <2>5. CASE seq = <<Result(t, "final")>> \/ seq = <<Result(t, "partial"), Result(t, "final")>>
    <3>1. Result(t, "final") \in ToSet(seq) /\ Result(t, "final").id = t /\ Result(t, "final").kind = "final"
      BY <2>1, <2>2, <2>3, <2>5
    <3> QED  BY <3>1
  <2> QED  BY <2>4, <2>5 DEF LastOf
<1> QED  BY <1>2, <1>3

\* The main thread loses no task that is waited for: it moves it on, or ends it
\* with a result.
LEMMA MainPending ==
    ASSUME TypeInv, ShapeOK, OwnedOK, MainStep, NEW c \in Client, at[c] = "recv",
           NEW t \in ids[c], Pending(t)
    PROVE  Pending(t)'
<1> DEFINE All == ToSet(queue) \cup ToSet(deferred)
<1>1. /\ queue \in Seq(Tasks) /\ NextResponse \in Tasks /\ job \in [Slot -> Tasks]
      /\ t \in waiting /\ t # None
      /\ state \in [Slot -> {"idle", "started", "prompt", "generating"}]
  BY TaskFields, NewTasks DEF TypeInv, TypeOK, OwnedOK
<1>2. /\ (\E u \in All' : u.id = t) => Pending(t)'
      /\ (\E s \in Slot : state'[s] # "idle" /\ job'[s].id = t) => Pending(t)'
      /\ (\E r \in ToSet(results') : r.id = t /\ r.kind # "partial") => Pending(t)'
  BY DEF Pending, Processing
<1>3. \/ \E u \in All : u.id = t
      \/ \E s \in Slot : state[s] # "idle" /\ job[s].id = t
      \/ \E r \in ToSet(results) : r.id = t /\ r.kind # "partial"
  BY DEF Pending, Processing
<1>4. /\ \A s, k : k \in Kinds => (Send(<<Result(s, k)>>) => ToSet(results) \subseteq ToSet(results'))
      /\ \A s : \A seq \in LastOf(s) : Send(seq) => ToSet(results) \subseteq ToSet(results')
      /\ results' = results => ToSet(results) \subseteq ToSet(results')
  <2>1. \A s : \A seq \in Messages(s) : Send(seq) => ToSet(results) \subseteq ToSet(results')
    BY SendFacts
  <2>2. \A s : LastOf(s) \subseteq Messages(s)
    BY DEF LastOf, Messages, Kinds
  <2>3. results' = results => ToSet(results) = ToSet(results')
    BY DEF ToSet
  <2> QED  BY <2>1, <2>2, <2>3, MessagesSent
<1>5. CASE Still
  BY <1>2, <1>3, <1>5 DEF Still
<1>6. CASE Wakes
  <2>1. ToSet(queue') = ToSet(queue) \cup {NextResponse}
    BY <1>1, <1>6, ToSetProperties DEF Wakes
  <2> QED  BY <1>2, <1>3, <1>6, <2>1 DEF Wakes
<1>7. CASE PutsOff
  <2>1. ToSet(queue) = {Task} \cup ToSet(queue') /\ ToSet(deferred') = ToSet(deferred) \cup {Task}
    BY <1>7, TakeSets DEF PutsOff
  <2> QED  BY <1>2, <1>3, <1>7, <2>1 DEF PutsOff
<1>8. CASE Drops
  <2>1. ToSet(queue) = {Task} \cup ToSet(queue')
    BY <1>8, TakeSets DEF Drops
  <2>2. Task.id # t
    BY <1>1, <1>8, <2>1, KindsOfTasks DEF Drops
  <2> QED  BY <1>2, <1>3, <1>8, <2>1, <2>2 DEF Drops
<1>9. CASE Answers
  <2>1. ToSet(queue) = {Task} \cup ToSet(queue')
    BY <1>9, TakeSets DEF Answers
  <2>2. PICK kind \in {"final", "error"} : Send(<<Result(Task.id, kind)>>)
    BY <1>9 DEF Answers
  <2>3. ToSet(results) \subseteq ToSet(results')
    BY <1>4, <2>2 DEF Kinds
  <2>4. Task.id = t => \E r \in ToSet(results') : r.id = t /\ r.kind # "partial"
    BY <1>1, <2>2, LastSent DEF LastOf
  <2> QED  BY <1>2, <1>3, <1>9, <2>1, <2>3, <2>4 DEF Answers
<1>10. ASSUME NEW s \in Slot, Launches(s) PROVE Pending(t)'
  <2>1. ToSet(queue) = {Task} \cup ToSet(queue')
    BY <1>10, TakeSets DEF Launches
  <2>2. /\ state[s] = "idle" /\ UNCHANGED <<deferred, results>>
        /\ job' = [job EXCEPT ![s] = Task] /\ state' = [state EXCEPT ![s] = "started"]
    BY <1>10 DEF Launches
  <2>3. /\ job'[s] = Task /\ state'[s] # "idle"
        /\ \A p \in Slot : p # s => job'[p] = job[p] /\ state'[p] = state[p]
    BY <1>1, <2>2
  <2> QED  BY <1>2, <1>3, <2>1, <2>2, <2>3
<1>11. ASSUME NEW s \in Slot, Refuses(s) PROVE Pending(t)'
  <2>1. ToSet(queue) = {Task} \cup ToSet(queue')
    BY <1>11, TakeSets DEF Refuses
  <2>2. /\ state[s] = "idle" /\ UNCHANGED <<deferred, state>>
        /\ job' = [job EXCEPT ![s] = Task] /\ Send(<<Result(Task.id, "error")>>)
    BY <1>11 DEF Refuses
  <2>3. \A p \in Slot : state[p] # "idle" => job'[p] = job[p]
    BY <1>1, <2>2
  <2>4. ToSet(results) \subseteq ToSet(results')
    BY <1>4, <2>2 DEF Kinds
  <2>5. Task.id = t => \E r \in ToSet(results') : r.id = t /\ r.kind # "partial"
    BY <1>1, <2>2, LastSent DEF LastOf
  <2> QED  BY <1>2, <1>3, <2>1, <2>2, <2>3, <2>4, <2>5
<1>12. ASSUME NEW s \in Slot, Cancelled(s) PROVE Pending(t)'
  <2>1. ToSet(queue) = {Task} \cup ToSet(Rest) /\ Rest \in Seq(Tasks) /\ Task \in ToSet(queue)
    BY <1>12, TakeSets DEF Cancelled
  <2>2. All' = ToSet(Rest) \cup ToSet(deferred)
    BY <1>12, <2>1, PopSets DEF Cancelled
  <2>3. IsCancel(Task) /\ Task.id # t
    BY <1>1, <1>12, <2>1, KindsOfTasks DEF Cancelled
  <2>4. job[s].id # t
    BY <1>12, <2>1, <2>3 DEF Cancelled, OwnedOK
  <2>5. \A p \in Slot : p # s => state'[p] = state[p]
    BY <1>1, <1>12 DEF Cancelled
  <2> QED  BY <1>2, <1>3, <1>12, <2>1, <2>2, <2>3, <2>4, <2>5 DEF Cancelled
<1>13. ASSUME NEW s \in Slot, Releases(s) PROVE Pending(t)'
  <2>1. All' = All
    BY <1>1, <1>13, PopSets DEF Releases
  <2>2. PICK seq \in LastOf(job[s].id) : Send(seq)
    BY <1>13 DEF Releases
  <2>3. ToSet(results) \subseteq ToSet(results')
    BY <1>4, <2>2
  <2>4. job[s].id = t => \E r \in ToSet(results') : r.id = t /\ r.kind # "partial"
    BY <1>1, <2>2, LastSent
  <2>5. job' = job /\ \A p \in Slot : p # s => state'[p] = state[p]
    BY <1>1, <1>13 DEF Releases
  <2> QED  BY <1>2, <1>3, <2>1, <2>3, <2>4, <2>5
<1>14. ASSUME NEW s \in Slot, GoesOn(s) \/ FailsIdle(s) PROVE Pending(t)'
  <2>1. ToSet(results) \subseteq ToSet(results')
    BY <1>4, <1>14 DEF GoesOn, FailsIdle, Kinds
  <2>2. UNCHANGED <<queue, deferred, job>>
    BY <1>14 DEF GoesOn, FailsIdle
  <2>3. \A p \in Slot : state[p] # "idle" => state'[p] # "idle"
    BY <1>1, <1>14 DEF GoesOn, FailsIdle
  <2> QED  BY <1>2, <1>3, <2>1, <2>2, <2>3
<1> QED  BY <1>5, <1>6, <1>7, <1>8, <1>9, <1>10, <1>11, <1>12, <1>13, <1>14 DEF MainStep

\* Neither do the other clients, whatever they read, drop or cancel.
LEMMA LostNext ==
    ASSUME TypeInv, RoundOK, ShapeOK, OwnedOK, NothingLost, [Next]_vars
    PROVE  NothingLost'
<1>1. /\ \A c, d \in Client : c # d => ids[c] \cap ids[d] = {}
      /\ at \in [Client -> {"idle", "post", "recv", "gone", "forget", "cancel", "leave"}]
      /\ ids \in [Client -> SUBSET TaskId] /\ got \in [Client -> SUBSET TaskId]
      /\ \A c \in Client : at[c] = "recv" => \A t \in ids[c] \ got[c] : Pending(t)
      /\ \A c \in Client : at[c] = "post" => got[c] = {}
  BY DEF OwnedOK, TypeInv, TypeOK, NothingLost
<1>2. CASE MainLoop \/ Terminate \/ UNCHANGED vars
  <2>1. Frame /\ MainStep
    BY <1>2, MainSteps
  <2>2. \A c \in Client : at[c] = "recv" => \A t \in ids[c] \ got[c] : Pending(t)'
    BY <1>1, <2>1, MainPending
  <2> QED  BY <2>1, <2>2 DEF NothingLost, Frame
<1>3. ASSUME NEW t, Pending(t), UNCHANGED <<state, job>>,
             \A u \in ToSet(queue) \cup ToSet(deferred) : u.id = t => u \in ToSet(queue') \cup ToSet(deferred'),
             \A r \in ToSet(results) : r.id = t => r \in ToSet(results')
      PROVE  Pending(t)'
  BY <1>3 DEF Pending, Processing
<1>4. ASSUME NEW c \in Client, Submit(c) \/ Hangup(c) PROVE NothingLost'
  <2>1. /\ UNCHANGED <<queue, deferred, results, state, job>>
        /\ at'[c] # "recv" /\ \A d \in Client \ {c} : at'[d] = at[d] /\ ids'[d] = ids[d]
        /\ got' = got
    BY <1>1, <1>4 DEF Submit, Hangup, tasks, replies, slots
  <2>2. \A t : Pending(t)' <=> Pending(t)
    BY <2>1 DEF Pending, Processing
  <2> QED  BY <1>1, <2>1, <2>2 DEF NothingLost
<1>5. ASSUME NEW c \in Client, Post(c) PROVE NothingLost'
  <2>1. /\ req[c] \in Requests /\ at[c] = "post"
        /\ \E place \in {"recv", "gone"} : at' = [at EXCEPT ![c] = place]
        /\ ToSet(queue') = ToSet(queue) \cup {TaskOf(req[c], t) : t \in ids[c]}
        /\ UNCHANGED <<deferred, results, state, job, ids, got>>
    BY <1>5, PostFacts
  <2>2. \A t \in ids[c] : Pending(t)'
    <3>1. \A t \in ids[c] : TaskOf(req[c], t).id = t /\ TaskOf(req[c], t) \in ToSet(queue')
      BY <2>1, TaskFields
    <3> QED  BY <3>1 DEF Pending
  <2>3. \A t : Pending(t) => Pending(t)'
    BY <1>3, <2>1
  <2> QED  BY <1>1, <2>1, <2>2, <2>3 DEF NothingLost
<1>6. ASSUME NEW c \in Client, Receive(c) PROVE NothingLost'
  <2> DEFINE r == results[Min(Mine(c))]
  <2>1. /\ \E next \in {"leave", "forget", "recv"} : at' = [at EXCEPT ![c] = next]
        /\ at[c] = "recv" /\ r.id \in ids[c] /\ \A x \in ToSet(results) : x \in ToSet(results') \/ x = r
        /\ UNCHANGED <<queue, deferred, state, job, ids>>
        /\ at'[c] = "recv" => r.kind # "error"
        /\ IF r.kind = "final" THEN got' = [got EXCEPT ![c] = @ \cup {r.id}] ELSE UNCHANGED got
        /\ Min(Mine(c)) \in DOMAIN results
    BY <1>6, ReceiveFacts
  <2>2. r.kind \in Kinds
    <3>1. results \in Seq(Results)
      BY DEF TypeInv, TypeOK, Results, Kinds
    <3>2. r \in Results
      BY <2>1, <3>1, LenProperties, ElementOfSeq
    <3> QED  BY <3>2 DEF Results
  <2> HIDE DEF r
  <2>3. \A t : Pending(t) /\ t # r.id => Pending(t)'
    BY <1>3, <2>1
  <2>4. \A t : Pending(t) /\ r.kind = "partial" => Pending(t)'
    BY <2>1 DEF Pending, Processing
  <2>5. \A d \in Client \ {c} : at'[d] = at[d] /\ got'[d] = got[d] /\ r.id \notin ids[d]
    BY <1>1, <2>1
  <2>6. \A d \in Client \ {c} : at'[d] = "recv" => \A t \in ids[d] \ got'[d] : Pending(t)'
    BY <1>1, <2>3, <2>5
  <2>7. ASSUME at'[c] = "recv", NEW t \in ids[c] \ got'[c] PROVE Pending(t)'
    <3>1. CASE r.kind = "final"
      <4>1. got'[c] = got[c] \cup {r.id}
        BY <1>1, <2>1, <3>1
      <4> QED  BY <1>1, <2>1, <2>3, <2>7, <4>1
    <3>2. CASE r.kind = "partial"
      BY <1>1, <2>1, <2>4, <2>7, <3>2
    <3> QED  BY <2>1, <2>2, <2>7, <3>1, <3>2 DEF Kinds
  <2> QED  BY <2>1, <2>6, <2>7 DEF NothingLost
<1>7. ASSUME NEW c \in Client, Forget(c) PROVE NothingLost'
  <2>1. /\ at' = [at EXCEPT ![c] = "cancel"]
        /\ ToSet(results') = {x \in ToSet(results) : x.id \notin ids[c]}
        /\ UNCHANGED <<queue, deferred, state, job, ids, got>>
    BY <1>7, ForgetFacts
  <2>2. \A t : Pending(t) /\ t \notin ids[c] => Pending(t)'
    BY <1>3, <2>1
  <2> QED  BY <1>1, <2>1, <2>2 DEF NothingLost
<1>8. ASSUME NEW c \in Client, CancelTasks(c) PROVE NothingLost'
  <2>1. /\ Return(c) /\ UNCHANGED <<results, state, job>>
        /\ \A u \in ToSet(queue) : u.target = None => u \in ToSet(queue')
        /\ \A u \in ToSet(deferred) : u.target = None => u \in ToSet(deferred')
    BY <1>8, CancelFacts
  <2>2. \A u \in ToSet(queue) \cup ToSet(deferred) : u.id \in TaskId => u.target = None
    BY KindsOfTasks, RequestFields DEF ShapeOK
  <2>3. \A t \in TaskId : Pending(t) => Pending(t)'
    BY <1>3, <2>1, <2>2
  <2>4. at'[c] = "idle" /\ \A d \in Client \ {c} : at'[d] = at[d] /\ ids'[d] = ids[d] /\ got'[d] = got[d]
    BY <2>1, ReturnFacts
  <2>5. \A d \in Client \ {c} : at'[d] = "recv" => \A t \in ids'[d] \ got'[d] : t \in TaskId /\ Pending(t)
    BY <1>1, <2>4
  <2> QED  BY <2>3, <2>4, <2>5 DEF NothingLost
<1>9. ASSUME NEW c \in Client, Leave(c) PROVE NothingLost'
  <2>1. /\ Return(c) /\ UNCHANGED <<queue, deferred, state, job>>
        /\ \A x \in ToSet(results) : x \in ToSet(results') \/ x.id \in ids[c]
    BY <1>9, LeaveFacts
  <2>2. \A t : Pending(t) /\ t \notin ids[c] => Pending(t)'
    BY <1>3, <2>1
  <2>3. at'[c] = "idle" /\ \A d \in Client \ {c} : at'[d] = at[d] /\ ids'[d] = ids[d] /\ got'[d] = got[d]
    BY <2>1, ReturnFacts
  <2>4. \A d \in Client \ {c} : at'[d] = "recv" =>
          \A t \in ids'[d] \ got'[d] : t \notin ids[c] /\ Pending(t)
    BY <1>1, <2>3
  <2> QED  BY <2>2, <2>3, <2>4 DEF NothingLost
<1> QED  BY <1>2, <1>4, <1>5, <1>6, <1>7, <1>8, <1>9 DEF Next, Handle

\* The parts that hold together.
LEMMA StructureInvariance == Spec => [](TypeInv /\ RoundOK /\ ShapeOK /\ OwnedOK)
<1> DEFINE Parts == RoundOK /\ ShapeOK /\ OwnedOK
<1>1. Init => Parts
  <2> SUFFICES ASSUME Init PROVE Parts
    OBVIOUS
  <2>1. ToSet(<<>>) = {}
    BY DEF ToSet
  <2>2. RoundOK /\ ShapeOK
    BY <2>1 DEF Init, RoundOK, ShapeOK, Processing
  <2>3. \A t \in TaskId : ~Used(t)
    BY <2>1, TaskFields DEF Init, Used
  <2> QED  BY <2>1, <2>2, <2>3 DEF Init, OwnedOK
<1>2. TypeInv /\ Parts /\ [Next]_vars => Parts'
  BY RoundNext, ShapeNext, OwnedNext
<1> QED  BY <1>1, <1>2, TypeInvariance, PTL DEF Spec

\* recv always has an answer to come: every task of a handler that waits is in
\* the queue, deferred, in a slot that is processing, or has its last result
\* queued.
THEOREM Lossless == Spec => []NothingLost
<1>1. Init => NothingLost
  BY DEF Init, NothingLost
<1>2. TypeInv /\ RoundOK /\ ShapeOK /\ OwnedOK /\ NothingLost /\ [Next]_vars => NothingLost'
  BY LostNext
<1> QED  BY <1>1, <1>2, StructureInvariance, PTL DEF Spec

-----------------------------------------------------------------------------
(* A task is in one place.                                                 *)

\* Parts of a queue, and a queue put together of two.
LEMMA TailOnce ==
    ASSUME NEW q \in Seq(Tasks), q # <<>>, NoTwice(q)
    PROVE  /\ NoTwice(Tail(q))
           /\ \A u \in ToSet(Tail(q)) : u.id = Head(q).id => u.id = None
<1>1. Len(q) \in Nat /\ Len(q) # 0 /\ DOMAIN q = 1 .. Len(q)
  BY EmptySeq, LenProperties
<1>2. /\ Tail(q) \in Seq(Tasks) /\ Len(Tail(q)) = Len(q) - 1
      /\ \A i \in 1 .. Len(Tail(q)) : Tail(q)[i] = q[i + 1]
  BY HeadTailProperties
<1>3. DOMAIN Tail(q) = 1 .. Len(Tail(q))
  BY <1>2, LenProperties
<1>4. Head(q) = q[1]
  OBVIOUS
<1> DEFINE r == Tail(q)
           h == Head(q)
<1>5. /\ h = q[1] /\ DOMAIN r = 1 .. Len(q) - 1 /\ \A i \in 1 .. Len(q) - 1 : r[i] = q[i + 1]
  BY <1>2, <1>3, <1>4
<1> HIDE DEF r, h
<1>6. 1 \in DOMAIN q /\ \A i \in DOMAIN r : i \in Int /\ i + 1 \in DOMAIN q /\ i + 1 # 1
  BY <1>1, <1>5
<1>7. \A i, j \in DOMAIN r : i + 1 = j + 1 => i = j
  BY <1>6
<1>8. NoTwice(r)
  BY <1>5, <1>6, <1>7 DEF NoTwice
<1>9. \A i \in DOMAIN r : r[i].id = h.id => r[i].id = None
  BY <1>5, <1>6 DEF NoTwice
<1>10. \A u \in ToSet(r) : u.id = h.id => u.id = None
  BY <1>9 DEF ToSet
<1> QED  BY <1>8, <1>10 DEF r, h

\* Two queues without a task twice, and with no task in common, make one.
LEMMA ConcatOnce ==
    ASSUME NEW q \in Seq(Tasks), NEW r \in Seq(Tasks), NoTwice(q), NoTwice(r),
           \A u \in ToSet(q), v \in ToSet(r) : u.id = v.id => u.id = None
    PROVE  NoTwice(q \o r)
<1> DEFINE c == q \o r
           M == Len(q)
           N == Len(r)
<1>1. M \in Nat /\ N \in Nat /\ DOMAIN q = 1 .. M /\ DOMAIN r = 1 .. N
  BY LenProperties
<1>2. c \in Seq(Tasks) /\ Len(c) = M + N /\ \A i \in 1 .. M + N : c[i] = IF i <= M THEN q[i] ELSE r[i - M]
  BY ConcatProperties
<1>3. DOMAIN c = 1 .. M + N
  BY <1>2, LenProperties
<1> HIDE DEF c, M, N
<1>4. \A i \in DOMAIN c : \/ i \in DOMAIN q /\ c[i] = q[i]
                          \/ i - M \in DOMAIN r /\ c[i] = r[i - M]
  BY <1>1, <1>2, <1>3
<1>5. ASSUME NEW i \in DOMAIN c, NEW j \in DOMAIN c, c[i].id = c[j].id, c[i].id # None
      PROVE  i = j
  <2>1. i \in Int /\ j \in Int /\ (i - M = j - M => i = j)
    BY <1>1, <1>3
  <2>2. CASE i \in DOMAIN q /\ j \in DOMAIN q /\ c[i] = q[i] /\ c[j] = q[j]
    BY <1>5, <2>2 DEF NoTwice
  <2>3. CASE i - M \in DOMAIN r /\ j - M \in DOMAIN r /\ c[i] = r[i - M] /\ c[j] = r[j - M]
    BY <1>5, <2>1, <2>3 DEF NoTwice
  <2>4. ASSUME NEW a \in DOMAIN q, NEW b \in DOMAIN r, q[a].id = r[b].id PROVE q[a].id = None
    <3>1. q[a] \in ToSet(q) /\ r[b] \in ToSet(r)
      BY DEF ToSet
    <3> QED  BY <2>4, <3>1
  <2> QED  BY <1>4, <1>5, <2>2, <2>3, <2>4
<1>6. NoTwice(c)
  BY <1>5 DEF NoTwice
<1> QED  BY <1>6 DEF c

\* A task that is not in the queue can be put at its end.
LEMMA AppendOnce ==
    ASSUME NEW q \in Seq(Tasks), NEW e \in Tasks, NoTwice(q),
           \A u \in ToSet(q) : u.id = e.id => e.id = None
    PROVE  NoTwice(Append(q, e))
<1> DEFINE a == Append(q, e)
           N == Len(q)
<1>1. N \in Nat /\ DOMAIN q = 1 .. N
  BY LenProperties
<1>2. a \in Seq(Tasks) /\ Len(a) = N + 1 /\ a[N + 1] = e /\ \A i \in 1 .. N : a[i] = q[i]
  BY AppendProperties
<1>3. DOMAIN a = 1 .. N + 1
  BY <1>2, LenProperties
<1> HIDE DEF a, N
<1>4. \A i \in DOMAIN a : (i \in DOMAIN q /\ a[i] = q[i] /\ q[i] \in ToSet(q)) \/ (i = N + 1 /\ a[i] = e)
  BY <1>1, <1>2, <1>3 DEF ToSet
<1>5. ASSUME NEW i \in DOMAIN a, NEW j \in DOMAIN a, a[i].id = a[j].id, a[i].id # None
      PROVE  i = j
  BY <1>4, <1>5 DEF NoTwice
<1>6. NoTwice(a)
  BY <1>5 DEF NoTwice
<1> QED  BY <1>6 DEF a

\* Cleaning a queue keeps every task at most once.
LEMMA CleanedOnce ==
    ASSUME NEW q \in Seq(Tasks), NoTwice(q), NEW I
    PROVE  NoTwice(Cleaned(q, I))
<1> DEFINE K == {i \in DOMAIN q : q[i].target = None \/ q[i].target \notin I}
           k == Kept(q, K)
           o == InOrder(K)
<1>0. K \in SUBSET DOMAIN q
  OBVIOUS
<1> HIDE DEF K
<1>1. /\ DOMAIN k = 1 .. Cardinality(K) /\ Cardinality(K) \in Nat
      /\ \A n \in DOMAIN k : o[n] \in K /\ k[n] = q[o[n]]
      /\ \A m, n \in DOMAIN k : m < n => o[m] < o[n]
  BY <1>0, KeptProperties
<1>2. DOMAIN q \subseteq Nat
  BY LenProperties
<1>3. K \subseteq DOMAIN q
  BY <1>0
<1>4. Cleaned(q, I) = k
  BY DEF Cleaned, K
<1> HIDE DEF K, k, o
<1>5. ASSUME NEW m \in DOMAIN k, NEW n \in DOMAIN k, k[m].id = k[n].id, k[m].id # None
      PROVE  m = n
  <2>1. o[m] = o[n] /\ o[m] \in Nat /\ o[n] \in Nat
    BY <1>1, <1>2, <1>3, <1>5 DEF NoTwice
  <2>2. ~(o[m] < o[n]) /\ ~(o[n] < o[m])
    BY <2>1
  <2>3. ~(m < n) /\ ~(n < m) /\ m \in Nat /\ n \in Nat
    BY <1>1, <2>2
  <2> QED  BY <2>3
<1>6. NoTwice(k)
  BY <1>5 DEF NoTwice
<1> QED  BY <1>4, <1>6

\* The tasks that are posted together have different ids, and cancel tasks have
\* none.
LEMMA PostedOnce ==
    ASSUME TypeInv, NEW c \in Client
    PROVE  /\ req[c] \in Requests => NoTwice(Posted(c))
           /\ NoTwice(Reverse(Cancels(c)))
<1> DEFINE N == Cardinality(ids[c])
<1>1. ids[c] \in SUBSET TaskId
  BY DEF TypeInv, TypeOK
<1>2. \A m, n \in 1 .. N : InOrder(ids[c])[m] = InOrder(ids[c])[n] => m = n
  BY <1>1, IdsInOrder
<1>3. ASSUME req[c] \in Requests PROVE NoTwice(Posted(c))
  <2>1. \A t : TaskOf(req[c], t).id = t
    BY <1>3, TaskFields
  <2>2. DOMAIN Posted(c) = 1 .. N /\ \A n \in 1 .. N : Posted(c)[n] = TaskOf(req[c], InOrder(ids[c])[n])
    BY DEF Posted
  <2> HIDE DEF N
  <2> QED  BY <1>2, <2>1, <2>2 DEF NoTwice
<1>4. NoTwice(Reverse(Cancels(c)))
  <2>1. /\ Reverse(Cancels(c)) \in Seq(Tasks)
        /\ ToSet(Reverse(Cancels(c))) = ToSet(Cancels(c))
    BY PostedType DEF TypeInv
  <2>2. \A u \in ToSet(Cancels(c)) : u.id = None
    BY TaskFields DEF ToSet, Cancels
  <2>3. \A n \in DOMAIN Reverse(Cancels(c)) : Reverse(Cancels(c))[n] \in ToSet(Reverse(Cancels(c)))
    BY DEF ToSet
  <2> QED  BY <2>1, <2>2, <2>3 DEF NoTwice
<1> QED  BY <1>3, <1>4

\* pop_deferred_task leaves one of each.
LEMMA PopOnce ==
    ASSUME TypeInv, NEW q \in Seq(Tasks), PopDeferred(q), NoTwice(q), NoTwice(deferred),
           \A t \in ToSet(q), u \in ToSet(deferred) : t.id # u.id,
           \A u \in ToSet(deferred) : u.id # None
    PROVE  /\ NoTwice(queue') /\ NoTwice(deferred')
           /\ \A t \in ToSet(queue'), u \in ToSet(deferred') : t.id # u.id
<1>1. CASE queue' = q /\ deferred' = deferred
  BY <1>1
<1>2. CASE /\ deferred # <<>> /\ queue' = Append(q, Head(deferred)) /\ deferred' = Tail(deferred)
           /\ ToSet(queue') = ToSet(q) \cup {Head(deferred)}
           /\ ToSet(deferred) = {Head(deferred)} \cup ToSet(deferred')
  <2> DEFINE h == Head(deferred)
  <2>1. deferred \in Seq(Tasks) /\ h \in Tasks
    BY <1>2, HeadTailProperties DEF TypeInv, TypeOK
  <2>2. NoTwice(Tail(deferred)) /\ \A u \in ToSet(Tail(deferred)) : u.id = h.id => u.id = None
    BY <1>2, <2>1, TailOnce
  <2>3. /\ queue' = Append(q, h) /\ ToSet(queue') = ToSet(q) \cup {h}
        /\ ToSet(deferred) = {h} \cup ToSet(deferred')
    BY <1>2
  <2> HIDE DEF h
  <2>4. NoTwice(deferred') /\ \A u \in ToSet(deferred') : u.id = h.id => u.id = None
    BY <1>2, <2>2
  <2>5. NoTwice(queue')
    BY <2>1, <2>3, AppendOnce
  <2> QED  BY <2>3, <2>4, <2>5
<1> QED  BY <1>1, <1>2, PopFacts

\* Every step keeps a task in at most one place of the queues and slots.
LEMMA UniqueNext ==
    ASSUME TypeInv, RoundOK, ShapeOK, OwnedOK, UniqueOK, [Next]_vars
    PROVE  UniqueOK'
<1> DEFINE All == ToSet(queue) \cup ToSet(deferred)
<1>1. /\ NoTwice(queue) /\ NoTwice(deferred)
      /\ \A t \in ToSet(queue), u \in ToSet(deferred) : t.id # u.id
      /\ \A t \in All, s \in Slot : t.id # None => job[s].id # t.id
      /\ \A s1, s2 \in Slot : job[s1].id = job[s2].id /\ job[s1].id # None => s1 = s2
      /\ queue \in Seq(Tasks) /\ deferred \in Seq(Tasks) /\ NextResponse \in Tasks
      /\ job \in [Slot -> Tasks] /\ NextResponse.id = None
  BY NewTasks, TaskFields DEF UniqueOK, OneSlotPerTask, TypeInv, TypeOK
<1>2. ASSUME NoTwice(queue'), NoTwice(deferred'),
             \A t \in ToSet(queue'), u \in ToSet(deferred') : t.id # u.id,
             \A t \in All', s \in Slot : t.id # None => job'[s].id # t.id,
             \A s1, s2 \in Slot : job'[s1].id = job'[s2].id /\ job'[s1].id # None => s1 = s2
      PROVE  UniqueOK'
  BY <1>2 DEF UniqueOK, OneSlotPerTask
<1>3. /\ \A u \in ToSet(deferred) : u.id \in TaskId /\ u.id # None
      /\ \A u \in ToSet(queue) : u.type \in SlotTypes \cup OtherTypes => u.id # None
  BY KindsOfTasks, RequestFields DEF ShapeOK
<1>4. CASE MainLoop \/ Terminate \/ UNCHANGED vars
  <2>1. MainStep
    BY <1>4, MainSteps
  <2>2. ASSUME TakeFirst
        PROVE  /\ NoTwice(Rest) /\ ToSet(queue) = {Task} \cup ToSet(Rest) /\ Rest \in Seq(Tasks)
               /\ Task \in Tasks /\ \A u \in ToSet(Rest) : u.id = Task.id => u.id = None
    BY <1>1, <2>2, TailOnce, TakeSets DEF TakeFirst, Task, Rest
  <2>3. CASE Still \/ \E s \in Slot : GoesOn(s) \/ FailsIdle(s)
    BY <1>1, <1>2, <2>3 DEF Still, GoesOn, FailsIdle
  <2>4. CASE Wakes
    <3>1. ToSet(queue') = ToSet(queue) \cup {NextResponse} /\ NoTwice(queue')
      BY <1>1, <2>4, ToSetProperties, AppendOnce DEF Wakes
    <3> QED  BY <1>1, <1>2, <1>3, <2>4, <3>1 DEF Wakes
  <2>5. CASE PutsOff
    <3>1. /\ queue' = Rest /\ deferred' = Append(deferred, Task) /\ job' = job /\ TakeFirst
          /\ Task.type \in SlotTypes \cup OtherTypes
      BY <2>5 DEF PutsOff, OtherTypes
    <3>2. ToSet(deferred') = ToSet(deferred) \cup {Task}
      BY <3>1, TakeSets
    <3>3. Task.id # None
      BY <1>3, <2>2, <3>1
    <3>4. NoTwice(deferred')
      <4> HIDE DEF Task
      <4> QED  BY <1>1, <2>2, <3>1, AppendOnce
    <3> QED  BY <1>1, <1>2, <2>2, <3>1, <3>2, <3>3, <3>4
  <2>6. CASE Drops \/ Answers
    BY <1>1, <1>2, <2>2, <2>6 DEF Drops, Answers
  <2>7. ASSUME NEW s \in Slot, Launches(s) \/ Refuses(s) PROVE UniqueOK'
    <3>1. /\ TakeFirst /\ queue' = Rest /\ deferred' = deferred /\ job' = [job EXCEPT ![s] = Task]
          /\ Task.type \in SlotTypes \cup OtherTypes
      BY <2>7 DEF Launches, Refuses
    <3>2. \A p \in Slot : job'[p] = (IF p = s THEN Task ELSE job[p])
      BY <1>1, <3>1
    <3>3. Task.id # None
      BY <1>3, <2>2, <3>1
    <3>4. /\ Task \in All /\ \A t \in All' : t \in All /\ (t.id = Task.id => t.id = None)
      BY <1>1, <2>2, <3>1, <3>3
    <3>5. \A t \in All', p \in Slot : t.id # None => job'[p].id # t.id
      BY <1>1, <3>2, <3>4
    <3>6. \A p \in Slot : job[p].id # Task.id
      BY <1>1, <3>3, <3>4
    <3>7. \A s1, s2 \in Slot : job'[s1].id = job'[s2].id /\ job'[s1].id # None => s1 = s2
      BY <1>1, <3>2, <3>6
    <3> QED  BY <1>1, <1>2, <2>2, <3>1, <3>5, <3>7
  <2>8. ASSUME NEW s \in Slot, Cancelled(s) PROVE UniqueOK'
    <3>1. TakeFirst /\ PopDeferred(Rest) /\ job' = job
      BY <2>8 DEF Cancelled
    <3>2. All' = ToSet(Rest) \cup ToSet(deferred)
      BY <2>2, <3>1, PopSets
    <3>3. /\ NoTwice(queue') /\ NoTwice(deferred')
          /\ \A t \in ToSet(queue'), u \in ToSet(deferred') : t.id # u.id
      BY <1>1, <1>3, <2>2, <3>1, PopOnce
    <3> QED  BY <1>1, <1>2, <2>2, <3>1, <3>2, <3>3
  <2>9. ASSUME NEW s \in Slot, Releases(s) PROVE UniqueOK'
    <3>1. PopDeferred(queue) /\ job' = job
      BY <2>9 DEF Releases
    <3>2. All' = All
      BY <1>1, <3>1, PopSets
    <3>3. /\ NoTwice(queue') /\ NoTwice(deferred')
          /\ \A t \in ToSet(queue'), u \in ToSet(deferred') : t.id # u.id
      BY <1>1, <1>3, <3>1, PopOnce
    <3> QED  BY <1>1, <1>2, <3>1, <3>2, <3>3
  <2> QED  BY <2>1, <2>3, <2>4, <2>5, <2>6, <2>7, <2>8, <2>9 DEF MainStep
<1>5. ASSUME NEW c \in Client, Post(c) PROVE UniqueOK'
  <2>1. /\ at[c] = "post" /\ req[c] \in Requests /\ UNCHANGED <<deferred, job>>
        /\ ToSet(queue') = ToSet(queue) \cup {TaskOf(req[c], t) : t \in ids[c]}
    BY <1>5, PostFacts
  <2>2. queue' = Posted(c) \o queue \/ queue' = queue \o Posted(c)
    BY <1>5 DEF Post, Posted
  <2>3. Posted(c) \in Seq(Tasks) /\ NoTwice(Posted(c))
    BY <2>1, PostedType, PostedOnce DEF TypeInv
  <2>4. \A t \in ids[c] : t \in TaskId /\ TaskOf(req[c], t).id = t /\ ~Used(t)
    BY <2>1, TaskFields DEF OwnedOK, TypeInv, TypeOK
  <2>5. \A u \in ToSet(Posted(c)) : \E t \in ids[c] : u.id = t
    <3>1. ids[c] \in SUBSET TaskId
      BY DEF TypeInv, TypeOK
    <3>2. InOrder(ids[c]) \in [1 .. Cardinality(ids[c]) -> ids[c]]
      BY <3>1, IdsInOrder
    <3> QED  BY <2>4, <3>2 DEF ToSet, Posted
  <2>6. \A u \in All, t \in ids[c] : u.id # t
    BY <2>4 DEF Used
  <2>7. \A s \in Slot, t \in ids[c] : job[s].id # t
    BY <2>4 DEF Used
  <2>8. NoTwice(queue')
    <3>1. \A u \in ToSet(Posted(c)), v \in ToSet(queue) : u.id # v.id
      BY <2>5, <2>6
    <3> HIDE DEF NoTwice
    <3>2. NoTwice(Posted(c) \o queue) /\ NoTwice(queue \o Posted(c))
      BY <1>1, <2>3, <3>1, ConcatOnce
    <3> QED  BY <2>2, <3>2
  <2>9. \A u \in ToSet(queue') : u \in ToSet(queue) \/ \E t \in ids[c] : u.id = t
    BY <2>1, <2>4
  <2> QED  BY <1>1, <1>2, <2>1, <2>6, <2>7, <2>8, <2>9
<1>6. ASSUME NEW c \in Client, CancelTasks(c) PROVE UniqueOK'
  <2>1. /\ queue' = Reverse(Cancels(c)) \o Cleaned(queue, ids[c])
        /\ deferred' = Cleaned(deferred, ids[c]) /\ job' = job
    BY <1>6 DEF CancelTasks, Cancels, slots
  <2>2. /\ \A u \in ToSet(queue') : u.id = None \/ u \in ToSet(queue)
        /\ \A u \in ToSet(deferred') : u \in ToSet(deferred)
    BY <1>6, CancelFacts, TaskFields
  <2>3. /\ NoTwice(Cleaned(queue, ids[c])) /\ NoTwice(deferred')
        /\ Cleaned(queue, ids[c]) \in Seq(Tasks)
    BY <1>1, <2>1, CleanedOnce, CleanedType
  <2>4. Reverse(Cancels(c)) \in Seq(Tasks) /\ NoTwice(Reverse(Cancels(c)))
    BY PostedType, PostedOnce DEF TypeInv
  <2>5. \A u \in ToSet(Reverse(Cancels(c))) : u.id = None
    <3>1. ToSet(Reverse(Cancels(c))) = ToSet(Cancels(c))
      BY PostedType DEF TypeInv
    <3>2. \A u \in ToSet(Cancels(c)) : u.id = None
      BY TaskFields DEF ToSet, Cancels
    <3> QED  BY <3>1, <3>2
  <2>6. NoTwice(queue')
    BY <2>1, <2>3, <2>4, <2>5, ConcatOnce
  <2> QED  BY <1>1, <1>2, <1>3, <2>1, <2>2, <2>3, <2>6
<1>7. ASSUME NEW c \in Client, Submit(c) \/ Hangup(c) \/ Receive(c) \/ Forget(c) \/ Leave(c)
      PROVE  UniqueOK'
  <2>1. UNCHANGED <<queue, deferred, job>>
    BY <1>7 DEF Submit, Hangup, Receive, Forget, Leave, tasks, slots
  <2> QED  BY <1>1, <1>2, <2>1
<1> QED  BY <1>4, <1>5, <1>6, <1>7 DEF Next, Handle

\* The parts of the invariant that speak of the tasks.
LEMMA TasksInvariance == Spec => [](TypeInv /\ RoundOK /\ ShapeOK /\ OwnedOK /\ UniqueOK)
<1>1. Init => UniqueOK
  <2>1. ASSUME Init PROVE UniqueOK
    <3>1. ToSet(<<>>) = {} /\ NoTwice(<<>>)
      BY DEF ToSet, NoTwice
    <3> QED  BY <2>1, <3>1, TaskFields DEF Init, UniqueOK, OneSlotPerTask
  <2> QED  BY <2>1
<1>2. TypeInv /\ RoundOK /\ ShapeOK /\ OwnedOK /\ UniqueOK /\ [Next]_vars => UniqueOK'
  BY UniqueNext
<1> QED  BY <1>1, <1>2, StructureInvariance, PTL DEF Spec

\* A task is in one slot at most: the CANCEL task, which releases the first slot
\* that has its target, stops the generation it is meant for.
THEOREM OneSlot == Spec => []OneSlotPerTask
<1>1. UniqueOK => OneSlotPerTask
  BY DEF UniqueOK
<1> QED  BY <1>1, TasksInvariance, PTL

-----------------------------------------------------------------------------
(* One final result.                                                       *)

\* No task is opened again.
LEMMA MainOpen ==
    ASSUME TypeInv, ShapeOK, MainStep, NEW t \in TaskId, Open(t)'
    PROVE  Open(t)
<1> DEFINE All == ToSet(queue) \cup ToSet(deferred)
<1>1. /\ queue \in Seq(Tasks) /\ NextResponse \in Tasks /\ job \in [Slot -> Tasks]
      /\ t # None /\ NextResponse.id = None
      /\ state \in [Slot -> {"idle", "started", "prompt", "generating"}]
  BY TaskFields, NewTasks DEF TypeInv, TypeOK
<1>2. ASSUME \A u \in All' : u.id = t => Open(t),
             \A s \in Slot : state'[s] # "idle" /\ job'[s].id = t => Open(t)
      PROVE  Open(t)
  BY <1>2 DEF Open, Processing
<1>3. /\ \A u \in All : u.id = t => Open(t)
      /\ \A s \in Slot : state[s] # "idle" /\ job[s].id = t => Open(t)
  BY DEF Open, Processing
<1>4. CASE Still
  BY <1>2, <1>3, <1>4 DEF Still
<1>5. CASE Wakes
  <2>1. ToSet(queue') = ToSet(queue) \cup {NextResponse}
    BY <1>1, <1>5, ToSetProperties DEF Wakes
  <2> QED  BY <1>1, <1>2, <1>3, <1>5, <2>1 DEF Wakes
<1>6. CASE PutsOff \/ Drops \/ Answers
  <2>1. /\ ToSet(queue) = {Task} \cup ToSet(queue') /\ UNCHANGED <<state, job>>
        /\ ToSet(deferred') = ToSet(deferred) \/ ToSet(deferred') = ToSet(deferred) \cup {Task}
    BY <1>6, TakeSets DEF PutsOff, Drops, Answers
  <2> QED  BY <1>2, <1>3, <2>1
<1>7. ASSUME NEW s \in Slot, Launches(s) \/ Refuses(s) PROVE Open(t)
  <2>1. ToSet(queue) = {Task} \cup ToSet(queue')
    BY <1>7, TakeSets DEF Launches, Refuses
  <2>2. /\ job' = [job EXCEPT ![s] = Task] /\ deferred' = deferred
        /\ state' = state \/ state' = [state EXCEPT ![s] = "started"]
    BY <1>7 DEF Launches, Refuses
  <2>3. /\ job'[s] = Task /\ \A p \in Slot : p # s => job'[p] = job[p] /\ state'[p] = state[p]
    BY <1>1, <2>2
  <2> QED  BY <1>2, <1>3, <2>1, <2>2, <2>3
<1>8. ASSUME NEW s \in Slot, Cancelled(s) PROVE Open(t)
  <2>1. ToSet(queue) = {Task} \cup ToSet(Rest) /\ Rest \in Seq(Tasks)
    BY <1>8, TakeSets DEF Cancelled
  <2>2. All' = ToSet(Rest) \cup ToSet(deferred)
    BY <1>8, <2>1, PopSets DEF Cancelled
  <2>3. job' = job /\ \A p \in Slot : state'[p] # "idle" => state[p] # "idle"
    BY <1>1, <1>8 DEF Cancelled
  <2> QED  BY <1>2, <1>3, <2>1, <2>2, <2>3
<1>9. ASSUME NEW s \in Slot, Releases(s) PROVE Open(t)
  <2>1. All' = All
    BY <1>1, <1>9, PopSets DEF Releases
  <2>2. job' = job /\ \A p \in Slot : state'[p] # "idle" => state[p] # "idle"
    BY <1>1, <1>9 DEF Releases
  <2> QED  BY <1>2, <1>3, <2>1, <2>2
<1>10. ASSUME NEW s \in Slot, GoesOn(s) \/ FailsIdle(s) PROVE Open(t)
  <2>1. /\ UNCHANGED <<queue, deferred, job>>
        /\ \A p \in Slot : state'[p] # "idle" => state[p] # "idle"
    BY <1>1, <1>10 DEF GoesOn, FailsIdle
  <2> QED  BY <1>2, <1>3, <2>1
<1> QED  BY <1>4, <1>5, <1>6, <1>7, <1>8, <1>9, <1>10 DEF MainStep

\* The sequences that are sent end with what ends the task.
LEMMA MessagesOrder ==
    ASSUME NEW t, NEW seq \in Messages(t)
    PROVE  /\ \A n \in DOMAIN seq : seq[n].id = t
           /\ \A m, n \in DOMAIN seq : m < n => seq[m].kind = "partial"
<1>1. \A k : Result(t, k).id = t /\ Result(t, k).kind = k
  BY DEF Result
<1>2. CASE seq = <<>>
  BY <1>2
<1>3. ASSUME NEW k, seq = <<Result(t, k)>>
      PROVE  /\ \A n \in DOMAIN seq : seq[n].id = t
             /\ \A m, n \in DOMAIN seq : m < n => seq[m].kind = "partial"
  <2>1. DOMAIN seq = {1} /\ seq[1] = Result(t, k)
    BY <1>3
  <2> QED  BY <1>1, <2>1
<1>4. CASE seq = <<Result(t, "partial"), Result(t, "final")>>
  <2>1. DOMAIN seq = 1 .. 2 /\ seq[1] = Result(t, "partial") /\ seq[2] = Result(t, "final")
    BY <1>4
  <2> QED  BY <1>1, <2>1
<1> QED  BY <1>2, <1>3, <1>4 DEF Messages

\* Sending for a task that is open, and closed if this was its last result; or
\* sending it a stray error.
LEMMA SendEnds ==
    ASSUME TypeInv, OwnedOK, EndsOK, NEW t, NEW seq \in Messages(t), Send(seq), UNCHANGED got,
           \A u \in TaskId : Open(u)' => Open(u),
           \/ Open(t) /\ ((\E n \in DOMAIN seq : seq[n].kind # "partial") => ~Open(t)')
           \/ \A n \in DOMAIN seq : Stray(seq[n])
    PROVE  EndsOK'
<1>1. results \in Seq(Results) /\ \A r \in ToSet(results) : r.id \in TaskId
  <2>1. results \in Seq(Results)
    BY DEF TypeInv, TypeOK, Results, Kinds
  <2>2. \A i \in DOMAIN results : results[i] \in Results
    BY <2>1, LenProperties, ElementOfSeq
  <2> QED  BY <2>1, <2>2 DEF ToSet, Results
<1>2. /\ \A i, j \in DOMAIN results :
           i < j /\ results[i].id = results[j].id /\ Ends(results[i]) => Stray(results[j])
      /\ \A r \in ToSet(results) : Ends(r) => ~Open(r.id)
      /\ \A c \in Client : \A u \in got[c] :
           u \in TaskId /\ ~Open(u) /\ \A r \in ToSet(results) : r.id = u => Stray(r)
  BY DEF EndsOK, TypeInv, TypeOK
<1>3. CASE results' = results
  BY <1>1, <1>2, <1>3 DEF EndsOK
<1>4. CASE t \in waiting
  <2>1. results' = results \o seq /\ seq \in Seq(Results)
    BY <1>4, SendProperties DEF TypeInv
  <2>2. ToSet(results') = ToSet(results) \cup ToSet(seq)
    BY <1>4, SendFacts
  <2>3. /\ \A n \in DOMAIN seq : seq[n].id = t /\ seq[n] \in ToSet(seq)
        /\ \A m, n \in DOMAIN seq : m < n => seq[m].kind = "partial"
    BY MessagesOrder DEF ToSet
  <2>4. \A r \in ToSet(seq) : \E n \in DOMAIN seq : r = seq[n]
    BY DEF ToSet
  <2>5. t \in TaskId
    BY <1>4 DEF TypeInv, TypeOK
  <2> DEFINE M == Len(results)
             N == Len(seq)
             c == results \o seq
  <2>6. M \in Nat /\ N \in Nat /\ DOMAIN results = 1 .. M /\ DOMAIN seq = 1 .. N
    BY <1>1, <2>1, LenProperties
  <2>7. c \in Seq(Results) /\ Len(c) = M + N /\ \A i \in 1 .. M + N : c[i] = IF i <= M THEN results[i] ELSE seq[i - M]
    BY <1>1, <2>1, ConcatProperties
  <2>8. DOMAIN c = 1 .. M + N
    BY <2>7, LenProperties
  <2> HIDE DEF c, M, N
  <2>9. \A i \in DOMAIN c : \/ i \in DOMAIN results /\ c[i] = results[i] /\ i <= M
                            \/ i - M \in DOMAIN seq /\ c[i] = seq[i - M] /\ M < i
    BY <2>6, <2>7, <2>8
  <2>10. ASSUME NEW i \in DOMAIN c, NEW j \in DOMAIN c, i < j, c[i].id = c[j].id, Ends(c[i])
         PROVE  Stray(c[j])
    <3>1. i \in Nat /\ j \in Nat /\ M \in Nat
      BY <2>6, <2>8
    <3>2. CASE i \in DOMAIN results /\ c[i] = results[i] /\ j \in DOMAIN results /\ c[j] = results[j]
      BY <1>2, <2>10, <3>2
    <3>3. CASE i \in DOMAIN results /\ c[i] = results[i] /\ j - M \in DOMAIN seq /\ c[j] = seq[j - M]
      <4>1. results[i] \in ToSet(results) /\ results[i].id = t
        BY <2>3, <2>10, <3>3 DEF ToSet
      <4>2. ~Open(t)
        BY <1>2, <2>10, <3>3, <4>1
      <4> QED  BY <3>3, <4>2
    <3>4. CASE i - M \in DOMAIN seq /\ c[i] = seq[i - M] /\ j - M \in DOMAIN seq /\ c[j] = seq[j - M]
      <4>1. i - M < j - M
        BY <2>10, <3>1
      <4>2. seq[i - M].kind = "partial"
        BY <2>3, <3>4, <4>1
      <4> QED  BY <2>10, <3>4, <4>2 DEF Ends
    <3>5. ~(i - M \in DOMAIN seq /\ M < i /\ j <= M)
      BY <2>10, <3>1
    <3> QED  BY <2>9, <3>2, <3>3, <3>4, <3>5
  <2>11. \A r \in ToSet(seq) : Ends(r) => ~Open(r.id)'
    BY <2>3, <2>4 DEF Ends, Stray
  <2>12. ASSUME NEW d \in Client, NEW u \in got[d], NEW r \in ToSet(seq), r.id = u PROVE Stray(r)
    <3>1. u = t /\ ~Open(t)
      BY <1>2, <2>3, <2>4, <2>12
    <3> QED  BY <2>4, <3>1
  <2>13. \A r \in ToSet(results') : Ends(r) => ~Open(r.id)'
    BY <1>1, <1>2, <2>2, <2>11
  <2>14. \A d \in Client : \A u \in got'[d] :
           ~Open(u)' /\ \A r \in ToSet(results') : r.id = u => Stray(r)
    BY <1>2, <2>2, <2>12
  <2> QED  BY <2>1, <2>10, <2>13, <2>14 DEF EndsOK, c
<1>5. CASE t \notin waiting
  BY <1>3, <1>5, SendProperties DEF TypeInv
<1> QED  BY <1>4, <1>5

\* The main thread sends nothing behind the last result of a task.
LEMMA MainEnds ==
    ASSUME TypeInv, ShapeOK, OwnedOK, UniqueOK, EndsOK, MainStep, Frame
    PROVE  EndsOK'
<1> DEFINE All == ToSet(queue) \cup ToSet(deferred)
<1>1. /\ queue \in Seq(Tasks) /\ deferred \in Seq(Tasks) /\ job \in [Slot -> Tasks]
      /\ NoTwice(queue) /\ UNCHANGED got
      /\ state \in [Slot -> {"idle", "started", "prompt", "generating"}]
      /\ \A t \in ToSet(queue), u \in ToSet(deferred) : t.id # u.id
      /\ \A t \in All, s \in Slot : t.id # None => job[s].id # t.id
      /\ \A s1, s2 \in Slot : job[s1].id = job[s2].id /\ job[s1].id # None => s1 = s2
  BY DEF UniqueOK, OneSlotPerTask, TypeInv, TypeOK, Frame
<1>2. \A u \in TaskId : Open(u)' => Open(u)
  BY MainOpen
<1>3. \A u \in All : Open(u.id)
  BY DEF Open
<1>4. ASSUME NEW t, \A u \in All' : u.id # t, \A s \in Slot : state'[s] # "idle" => job'[s].id # t
      PROVE  ~Open(t)'
  BY <1>4 DEF Open, Processing
<1>5. ASSUME UNCHANGED results PROVE EndsOK'
  <2>1. \A r \in ToSet(results) : r.id \in TaskId
    <3>1. results \in Seq(Results)
      BY DEF TypeInv, TypeOK, Results, Kinds
    <3>2. \A i \in DOMAIN results : results[i] \in Results
      BY <3>1, LenProperties, ElementOfSeq
    <3> QED  BY <3>2 DEF ToSet, Results
  <2>2. \A c \in Client : got[c] \subseteq TaskId
    BY DEF TypeInv, TypeOK
  <2> QED  BY <1>1, <1>2, <1>5, <2>1, <2>2 DEF EndsOK
<1>6. CASE \/ Still \/ Wakes \/ PutsOff \/ Drops
           \/ \E s \in Slot : Launches(s) \/ Cancelled(s)
  BY <1>5, <1>6 DEF Still, Wakes, PutsOff, Drops, Launches, Cancelled
<1>7. ASSUME TakeFirst
      PROVE  /\ ToSet(queue) = {Task} \cup ToSet(Rest)
             /\ \A u \in ToSet(Rest) : u.id = Task.id => u.id = None
  BY <1>1, <1>7, TailOnce, TakeSets DEF TakeFirst, Task, Rest
<1>8. ASSUME NEW t, NEW seq \in LastOf(t), Send(seq), Open(t),
             \A u \in All' : u.id # t, \A s \in Slot : state'[s] # "idle" => job'[s].id # t
      PROVE  EndsOK'
  <2>1. ~Open(t)'
    BY <1>4, <1>8
  <2>2. seq \in Messages(t)
    BY DEF LastOf, Messages, Kinds
  <2> QED  BY <1>1, <1>2, <1>8, <2>1, <2>2, SendEnds
<1>9. CASE Answers
  <2>1. PICK t : t = Task.id
    OBVIOUS
  <2>2. /\ TakeFirst /\ queue' = Rest /\ UNCHANGED <<deferred, state, job>>
        /\ Task.type \in SlotTypes \cup OtherTypes
    BY <1>9 DEF Answers, OtherTypes
  <2>3. \E seq \in LastOf(t) : Send(seq)
    BY <1>9, <2>1 DEF Answers, LastOf
  <2>4. Task \in ToSet(queue) /\ t # None /\ Open(t)
    BY <1>3, <1>7, <2>1, <2>2, KindsOfTasks, RequestFields
  <2>5. \A u \in All' : u.id # t
    BY <1>1, <1>7, <2>1, <2>2, <2>4
  <2>6. \A s \in Slot : job'[s].id # t
    BY <1>1, <2>1, <2>2, <2>4
  <2> QED  BY <1>8, <2>3, <2>4, <2>5, <2>6
<1>10. ASSUME NEW s \in Slot, Refuses(s) PROVE EndsOK'
  <2>1. PICK t : t = Task.id
    OBVIOUS
  <2>2. /\ TakeFirst /\ queue' = Rest /\ UNCHANGED <<deferred, state>> /\ state[s] = "idle"
        /\ job' = [job EXCEPT ![s] = Task] /\ Task.type \in SlotTypes \cup OtherTypes
    BY <1>10 DEF Refuses
  <2>3. \E seq \in LastOf(t) : Send(seq)
    BY <1>10, <2>1 DEF Refuses, LastOf
  <2>4. Task \in ToSet(queue) /\ t # None /\ Open(t)
    BY <1>3, <1>7, <2>1, <2>2, KindsOfTasks, RequestFields
  <2>5. \A u \in All' : u.id # t
    BY <1>1, <1>7, <2>1, <2>2, <2>4
  <2>6. \A p \in Slot : state'[p] # "idle" => job'[p] = job[p]
    BY <1>1, <2>2
  <2>7. \A p \in Slot : state'[p] # "idle" => job'[p].id # t
    BY <1>1, <2>1, <2>4, <2>6
  <2> QED  BY <1>8, <2>3, <2>4, <2>5, <2>7
<1>11. ASSUME NEW s \in Slot, Releases(s) PROVE EndsOK'
  <2>1. PICK t : t = job[s].id
    OBVIOUS
  <2>2. /\ state[s] # "idle" /\ state' = [state EXCEPT ![s] = "idle"] /\ job' = job
        /\ PopDeferred(queue)
    BY <1>11 DEF Releases
  <2>3. \E seq \in LastOf(t) : Send(seq)
    BY <1>11, <2>1 DEF Releases
  <2>4. t # None /\ Open(t)
    BY <2>1, <2>2, RequestFields DEF ShapeOK, Open, Processing
  <2>5. All' = All
    BY <1>1, <2>2, PopSets
  <2>6. \A u \in All' : u.id # t
    BY <1>1, <2>1, <2>4, <2>5
  <2>7. \A p \in Slot : state'[p] # "idle" => p # s
    BY <1>1, <2>2
  <2>8. \A p \in Slot : state'[p] # "idle" => job'[p].id # t
    BY <1>1, <2>1, <2>2, <2>4, <2>7
  <2> QED  BY <1>8, <2>3, <2>4, <2>6, <2>8
<1>12. ASSUME NEW s \in Slot, GoesOn(s) PROVE EndsOK'
  <2>1. CASE results' = results
    BY <1>5, <2>1
  <2>2. CASE Send(<<Result(job[s].id, "partial")>>)
    <3>1. PICK t : t = job[s].id
      OBVIOUS
    <3>2. Open(t)
      BY <1>12, <3>1 DEF GoesOn, Open, Processing
    <3> DEFINE seq == <<Result(t, "partial")>>
    <3>3. seq \in Messages(t) /\ \A n \in DOMAIN seq : seq[n].kind = "partial"
      BY DEF Messages, Kinds, Result
    <3>4. Send(seq)
      BY <2>2, <3>1
    <3> HIDE DEF seq
    <3> QED  BY <1>1, <1>2, <3>2, <3>3, <3>4, SendEnds
  <2> QED  BY <1>12, <2>1, <2>2 DEF GoesOn
<1>13. ASSUME NEW s \in Slot, FailsIdle(s) PROVE EndsOK'
  <2>1. PICK t : t = job[s].id
    OBVIOUS
  <2> DEFINE seq == <<Result(t, "error")>>
  <2>2. seq \in Messages(t) /\ \A n \in DOMAIN seq : Stray(seq[n])
    BY <1>13 DEF Messages, Kinds, Result, Stray, FailsIdle
  <2>3. Send(seq)
    BY <1>13, <2>1 DEF FailsIdle
  <2> HIDE DEF seq
  <2> QED  BY <1>1, <1>2, <2>2, <2>3, SendEnds
<1> QED  BY <1>6, <1>9, <1>10, <1>11, <1>12, <1>13 DEF MainStep

\* Results that are taken out leave the others in their order.
LEMMA SubsequenceEnds ==
    ASSUME EndsOK, NEW o,
           \A n \in DOMAIN results' : o[n] \in DOMAIN results /\ results'[n] = results[o[n]],
           \A m, n \in DOMAIN results' : m < n => o[m] < o[n]
    PROVE  \A i, j \in DOMAIN results' :
             i < j /\ results'[i].id = results'[j].id /\ Ends(results'[i]) => Stray(results'[j])
BY DEF EndsOK

\* What a handler leaves unread still has nothing after a task's last result.
LEMMA UnreadEnds ==
    ASSUME TypeInv, EndsOK, NEW I, results' = Unread(I)
    PROVE  \A i, j \in DOMAIN results' :
             i < j /\ results'[i].id = results'[j].id /\ Ends(results'[i]) => Stray(results'[j])
<1> DEFINE K == {i \in DOMAIN results : results[i].id \notin I}
           o == InOrder(K)
<1>1. results \in Seq(Results) /\ K \in SUBSET DOMAIN results /\ results' = Kept(results, K)
  BY DEF TypeInv, TypeOK, Results, Kinds, Unread
<1> HIDE DEF K
<1>2. /\ \A n \in DOMAIN results' : o[n] \in K /\ results'[n] = results[o[n]]
      /\ \A m, n \in DOMAIN results' : m < n => o[m] < o[n]
  BY <1>1, KeptProperties
<1> HIDE DEF o
<1> QED  BY <1>1, <1>2, SubsequenceEnds

\* The first of a client's results: those behind it are no results of the same
\* task when it ends the task, but for stray errors.
LEMMA ReceiveEnds ==
    ASSUME TypeInv, EndsOK, NEW c \in Client, Receive(c)
    PROVE  /\ \A i, j \in DOMAIN results' :
                i < j /\ results'[i].id = results'[j].id /\ Ends(results'[i]) => Stray(results'[j])
           /\ Ends(results[Min(Mine(c))]) =>
                \A r \in ToSet(results') : r.id = results[Min(Mine(c))].id => Stray(r)
<1> DEFINE i == Min(Mine(c))
           o == [n \in 1 .. Len(results) - 1 |-> IF n < i THEN n ELSE n + 1]
<1>1. i \in DOMAIN results /\ results[i].id \in ids[c] /\ results' = RemoveAt(results, i)
  BY ReceiveFacts
<1>2. \A n \in DOMAIN results : results[n].id \in ids[c] => i <= n
  <2>1. Mine(c) # {}
    BY <1>1 DEF Mine
  <2> QED  BY <2>1, FirstOfMine DEF TypeInv
<1> HIDE DEF i
<1>3. results \in Seq(Results)
  BY DEF TypeInv, TypeOK, Results, Kinds
<1>4. Len(results) \in Nat /\ DOMAIN results = 1 .. Len(results)
  BY <1>3, LenProperties
<1>5. /\ DOMAIN results' = 1 .. Len(results) - 1
      /\ \A n \in 1 .. Len(results) - 1 : results'[n] = IF n < i THEN results[n] ELSE results[n + 1]
  BY <1>1, <1>3, RemoveAtProperties
<1>6. \A n \in DOMAIN results' : /\ o[n] \in DOMAIN results /\ results'[n] = results[o[n]]
                                 /\ o[n] # i
  <2>1. \A n \in DOMAIN results' : n \in 1 .. Len(results) /\ n + 1 \in 1 .. Len(results) /\ n \in Int
    BY <1>4, <1>5
  <2>2. \A n \in DOMAIN results' : o[n] = IF n < i THEN n ELSE n + 1
    BY <1>5
  <2>3. i \in Int
    BY <1>1, <1>4
  <2> QED  BY <1>4, <1>5, <2>1, <2>2, <2>3
<1>7. \A m, n \in DOMAIN results' : m < n => o[m] < o[n]
  BY <1>1, <1>4, <1>5
<1> HIDE DEF o
<1>8. ASSUME Ends(results[i]), NEW r \in ToSet(results'), r.id = results[i].id PROVE Stray(r)
  <2>1. PICK n \in DOMAIN results' : r = results[o[n]]
    BY <1>6 DEF ToSet
  <2>2. o[n] \in DOMAIN results /\ i <= o[n] /\ o[n] # i
    BY <1>1, <1>2, <1>6, <1>8, <2>1
  <2>3. i < o[n]
    BY <1>1, <1>4, <2>2
  <2> QED  BY <1>1, <1>8, <2>1, <2>2, <2>3 DEF EndsOK
<1> QED  BY <1>6, <1>7, <1>8, SubsequenceEnds DEF i

\* Every step keeps the last result of a task last.
LEMMA EndsNext ==
    ASSUME TypeInv, RoundOK, ShapeOK, OwnedOK, UniqueOK, EndsOK, [Next]_vars
    PROVE  EndsOK'
<1>1. /\ \A r \in ToSet(results) : r.id \in TaskId /\ r.kind \in Kinds /\ (Ends(r) => ~Open(r.id))
      /\ \A c \in Client : \A t \in got[c] :
           t \in TaskId /\ ~Open(t) /\ \A r \in ToSet(results) : r.id = t => Stray(r)
      /\ got \in [Client -> SUBSET TaskId]
  <2>1. results \in Seq(Results)
    BY DEF TypeInv, TypeOK, Results, Kinds
  <2>2. \A i \in DOMAIN results : results[i] \in Results
    BY <2>1, LenProperties, ElementOfSeq
  <2> QED  BY <2>2 DEF ToSet, Results, EndsOK, TypeInv, TypeOK
<1>2. CASE MainLoop \/ Terminate \/ UNCHANGED vars
  BY <1>2, MainSteps, MainEnds
<1>3. ASSUME \A t \in TaskId : Open(t)' => Open(t),
             \A c \in Client : got'[c] \subseteq got[c],
             \A r \in ToSet(results') : r \in ToSet(results),
             \A i, j \in DOMAIN results' :
               i < j /\ results'[i].id = results'[j].id /\ Ends(results'[i]) => Stray(results'[j])
      PROVE  EndsOK'
  BY <1>1, <1>3 DEF EndsOK
<1>4. results' = results =>
        /\ \A r \in ToSet(results') : r \in ToSet(results)
        /\ \A i, j \in DOMAIN results' :
             i < j /\ results'[i].id = results'[j].id /\ Ends(results'[i]) => Stray(results'[j])
  BY DEF EndsOK
<1>5. UNCHANGED <<queue, deferred, state, job>> => \A t \in TaskId : Open(t)' => Open(t)
  BY DEF Open, Processing
<1>6. ASSUME NEW c \in Client, Submit(c) \/ Hangup(c) PROVE EndsOK'
  <2>1. UNCHANGED <<queue, deferred, results, state, job, got>>
    BY <1>6 DEF Submit, Hangup, tasks, replies, slots
  <2> QED  BY <1>3, <1>4, <1>5, <2>1
<1>7. ASSUME NEW c \in Client, Post(c) PROVE EndsOK'
  <2>1. /\ at[c] = "post" /\ req[c] \in Requests
        /\ ToSet(queue') = ToSet(queue) \cup {TaskOf(req[c], t) : t \in ids[c]}
        /\ UNCHANGED <<deferred, results, state, job, got>>
    BY <1>7, PostFacts
  <2>2. \A t : Open(t)' => Open(t) \/ t \in ids[c]
    BY <2>1, TaskFields DEF Open, Processing
  <2>3. \A t \in ids[c] : t \in TaskId /\ ~Used(t)
    BY <2>1 DEF OwnedOK, TypeInv, TypeOK
  <2>4. \A r \in ToSet(results) : r.id \notin ids[c]
    BY <2>3 DEF Used
  <2>5. \A d \in Client : \A t \in got[d] : t \notin ids[c]
    BY <2>1 DEF OwnedOK
  <2> QED  BY <1>1, <1>4, <2>1, <2>2, <2>4, <2>5 DEF EndsOK
<1>8. ASSUME NEW c \in Client, Receive(c) PROVE EndsOK'
  <2> DEFINE r == results[Min(Mine(c))]
  <2>1. /\ UNCHANGED <<queue, deferred, state, job>> /\ \A x \in ToSet(results') : x \in ToSet(results)
        /\ r \in ToSet(results)
        /\ IF r.kind = "final" THEN got' = [got EXCEPT ![c] = @ \cup {r.id}] ELSE UNCHANGED got
    BY <1>8, ReceiveFacts DEF ToSet
  <2>2. /\ \A i, j \in DOMAIN results' :
             i < j /\ results'[i].id = results'[j].id /\ Ends(results'[i]) => Stray(results'[j])
        /\ Ends(r) => \A x \in ToSet(results') : x.id = r.id => Stray(x)
    BY <1>8, ReceiveEnds
  <2> HIDE DEF r
  <2>3. CASE r.kind # "final"
    BY <1>3, <1>5, <2>1, <2>2, <2>3
  <2>4. CASE r.kind = "final"
    <3>1. Ends(r)
      BY <2>4 DEF Ends
    <3>2. \A d \in Client : \A t \in got'[d] : t \in got[d] \/ t = r.id
      BY <1>1, <2>1, <2>4
    <3>3. \A t \in TaskId : ~Open(t) => ~Open(t)'
      BY <1>5, <2>1
    <3>4. r.id \in TaskId /\ ~Open(r.id)
      BY <1>1, <2>1, <3>1
    <3>5. \A d \in Client : \A t \in got'[d] :
            t \in TaskId /\ ~Open(t) /\ \A x \in ToSet(results') : x.id = t => Stray(x)
      BY <1>1, <2>1, <2>2, <3>1, <3>2, <3>4
    <3>6. \A x \in ToSet(results') : x.id \in TaskId /\ (Ends(x) => ~Open(x.id))
      BY <1>1, <2>1
    <3> QED  BY <2>2, <3>3, <3>5, <3>6 DEF EndsOK
  <2> QED  BY <2>3, <2>4
<1>9. ASSUME NEW c \in Client, Forget(c) PROVE EndsOK'
  <2>1. /\ results' = Unread(ids[c]) /\ \A r \in ToSet(results') : r \in ToSet(results)
        /\ UNCHANGED <<queue, deferred, state, job, got>>
    BY <1>9, ForgetFacts
  <2> QED  BY <1>3, <1>5, <2>1, UnreadEnds
<1>10. ASSUME NEW c \in Client, CancelTasks(c) PROVE EndsOK'
  <2>1. /\ Return(c) /\ UNCHANGED <<results, state, job>>
        /\ \A u \in ToSet(queue') : u.id = None \/ u \in ToSet(queue)
        /\ \A u \in ToSet(deferred') : u \in ToSet(deferred)
    BY <1>10, CancelFacts, TaskFields
  <2>2. \A t \in TaskId : Open(t)' => Open(t)
    BY <2>1, TaskFields DEF Open, Processing
  <2>3. \A d \in Client : got'[d] \subseteq got[d]
    BY <2>1, ReturnFacts
  <2> QED  BY <1>3, <1>4, <2>1, <2>2, <2>3
<1>11. ASSUME NEW c \in Client, Leave(c) PROVE EndsOK'
  <2>1. /\ Return(c) /\ (results' = Unread(ids[c]) \/ results' = results)
        /\ \A r \in ToSet(results') : r \in ToSet(results)
        /\ UNCHANGED <<queue, deferred, state, job>>
    BY <1>11, LeaveFacts
  <2>2. \A d \in Client : got'[d] \subseteq got[d]
    BY <2>1, ReturnFacts
  <2> QED  BY <1>3, <1>4, <1>5, <2>1, <2>2, UnreadEnds
<1> QED  BY <1>2, <1>6, <1>7, <1>8, <1>9, <1>10, <1>11 DEF Next, Handle

\* recv counts every final result of a task once.
LEMMA CountNext ==
    ASSUME TypeInv, OwnedOK, EndsOK, OneFinalPerTask, [Next]_vars
    PROVE  OneFinalPerTask'
<1>1. /\ got \in [Client -> SUBSET TaskId] /\ count \in [Client -> Nat]
      /\ \A c \in Client : count[c] = Cardinality(got[c])
  BY DEF TypeInv, TypeOK, OneFinalPerTask
<1>2. ASSUME UNCHANGED <<got, count>> PROVE OneFinalPerTask'
  BY <1>1, <1>2 DEF OneFinalPerTask
<1>3. CASE MainLoop \/ Terminate \/ UNCHANGED vars
  <2>1. UNCHANGED <<got, count>>
    BY <1>3 DEF MainLoop, StartLoop, Stop, Terminate, Process, Defer, CancelRelease, ProcessNothing, Answer,
       Launch, Done, Update, UpdateIdle, UpdateStart, FillBatch, Decode, DecodeFail, ContextLimit, Reject,
       FailSlot, MorePrompt, Token, Finish, vars, clients
  <2> QED  BY <1>2, <2>1
<1>4. ASSUME NEW c \in Client, Submit(c) \/ Hangup(c) \/ Post(c) \/ Forget(c) PROVE OneFinalPerTask'
  BY <1>2, <1>4 DEF Submit, Hangup, Post, Forget
<1>5. ASSUME NEW c \in Client, CancelTasks(c) \/ Leave(c) PROVE OneFinalPerTask'
  <2>1. Return(c)
    BY <1>5 DEF CancelTasks, Leave
  <2>2. Cardinality({}) = 0
    BY FS_EmptySet
  <2> QED  BY <1>1, <2>1, <2>2, ReturnFacts DEF OneFinalPerTask
<1>6. ASSUME NEW c \in Client, Receive(c) PROVE OneFinalPerTask'
  <2> DEFINE r == results[Min(Mine(c))]
  <2>1. /\ r \in ToSet(results)
        /\ IF r.kind = "final"
           THEN /\ got' = [got EXCEPT ![c] = @ \cup {r.id}] /\ count' = [count EXCEPT ![c] = @ + 1]
           ELSE UNCHANGED <<got, count>>
    BY <1>6, ReceiveFacts DEF ToSet
  <2> HIDE DEF r
  <2>2. CASE r.kind = "final"
    <3>1. r.id \notin got[c]
      BY <2>1, <2>2 DEF EndsOK, Stray
    <3>2. IsFiniteSet(got[c])
      <4>1. got[c] \in SUBSET TaskId
        BY <1>1
      <4> QED  BY <4>1, IdsInOrder
    <3>3. Cardinality(got[c] \cup {r.id}) = Cardinality(got[c]) + 1
      BY <3>1, <3>2, FS_AddElement
    <3>4. /\ got'[c] = got[c] \cup {r.id} /\ count'[c] = count[c] + 1
          /\ \A d \in Client \ {c} : got'[d] = got[d] /\ count'[d] = count[d]
      BY <1>1, <2>1, <2>2
    <3> QED  BY <1>1, <3>3, <3>4 DEF OneFinalPerTask
  <2> QED  BY <1>2, <2>1, <2>2
<1> QED  BY <1>3, <1>4, <1>5, <1>6 DEF Next, Handle

\* The parts of the invariant that speak of the results.
LEMMA ResultsInvariance ==
    Spec => [](TypeInv /\ RoundOK /\ ShapeOK /\ OwnedOK /\ UniqueOK /\ EndsOK /\ OneFinalPerTask)
<1>1. Init => EndsOK /\ OneFinalPerTask
  <2>1. ASSUME Init PROVE EndsOK /\ OneFinalPerTask
    <3>1. ToSet(<<>>) = {} /\ Cardinality({}) = 0 /\ DOMAIN <<>> = {}
      BY FS_EmptySet DEF ToSet
    <3> QED  BY <2>1, <3>1 DEF Init, EndsOK, OneFinalPerTask
  <2> QED  BY <2>1
<1>2. TypeInv /\ RoundOK /\ ShapeOK /\ OwnedOK /\ UniqueOK /\ EndsOK /\ OneFinalPerTask /\ [Next]_vars
      => EndsOK' /\ OneFinalPerTask'
  BY EndsNext, CountNext
<1> QED  BY <1>1, <1>2, TasksInvariance, PTL DEF Spec

\* What the handlers count, and what receive_multi_results fills its vector with,
\* are results of different tasks: no task has two final results, although a
\* failed decode sends errors to tasks that are through.
THEOREM OneFinal == Spec => []OneFinalPerTask
BY ResultsInvariance, PTL

-----------------------------------------------------------------------------
(* Nothing is left behind.                                                 *)

\* What is registered belongs to a handler; one that has cancelled has nothing
\* left, and one that leaves without dropping its results has read them all.
LeaksOK ==
    /\ \A t \in waiting : Owned(t)
    /\ \A c \in Client : at[c] = "cancel" =>
         /\ ids[c] \cap waiting = {}
         /\ \A r \in ToSet(results) : r.id \notin ids[c]
    /\ \A c \in Client : at[c] = "leave" /\ ~OneShot(c) => got[c] = ids[c]

\* The results this step leaves without a reader are those of a streaming client
\* that is gone.
LeavesBehind ==
    \A r \in Unclaimed' \ Unclaimed : \E c \in Client : at[c] = "gone" /\ r.id \in ids[c]

\* send queues nothing that nobody waits for.
LEMMA MainResults ==
    ASSUME TypeInv, MainStep, NEW r \in ToSet(results')
    PROVE  r \in ToSet(results) \/ r.id \in waiting
<1>1. ASSUME NEW t, NEW seq \in Messages(t), Send(seq) PROVE r \in ToSet(results) \/ r.id \in waiting
  BY <1>1, SendFacts
<1>2. \A t : LastOf(t) \subseteq Messages(t) /\ \A k \in Kinds : <<Result(t, k)>> \in Messages(t)
  BY DEF LastOf, Messages, Kinds
<1>3. results' = results => r \in ToSet(results)
  OBVIOUS
<1>4. \/ results' = results
      \/ \E t : \E seq \in LastOf(t) : Send(seq)
      \/ \E t : \E k \in Kinds : Send(<<Result(t, k)>>)
  BY DEF MainStep, Still, Wakes, PutsOff, Drops, Answers, Launches, Refuses, Cancelled, GoesOn, Releases,
         FailsIdle, Kinds
<1> QED  BY <1>1, <1>2, <1>3, <1>4

\* Without failing evaluations and rerank requests, every step keeps the waiting
\* tasks owned by a handler that is still there, and leaves no results behind but
\* those of a streaming client that is gone.
LEMMA LeaksNext ==
    ASSUME ~Faults, \A r \in Requests : r.type # "rerank",
           TypeInv, RoundOK, ShapeOK, OwnedOK, UniqueOK, EndsOK, OneFinalPerTask, LeaksOK, [Next]_vars
    PROVE  LeaksOK' /\ LeavesBehind
<1>1. /\ \A t \in waiting : Owned(t)
      /\ \A c \in Client : at[c] = "cancel" =>
           ids[c] \cap waiting = {} /\ \A r \in ToSet(results) : r.id \notin ids[c]
      /\ \A c \in Client : at[c] = "leave" /\ ~OneShot(c) => got[c] = ids[c]
      /\ \A c \in Client : \A t \in got[c] : \A r \in ToSet(results) : r.id # t
  BY DEF LeaksOK, EndsOK, Stray
<1>2. /\ at \in [Client -> {"idle", "post", "recv", "gone", "forget", "cancel", "leave"}]
      /\ ids \in [Client -> SUBSET TaskId] /\ got \in [Client -> SUBSET TaskId]
      /\ req \in [Client -> Requests \cup {None}]
      /\ \A c, d \in Client : c # d => ids[c] \cap ids[d] = {}
  BY DEF TypeInv, TypeOK, OwnedOK
<1>0. ASSUME \A t : Owned(t) => Owned(t)',
             \A r \in ToSet(results') : r \in ToSet(results) \/ Owned(r.id)
      PROVE  LeavesBehind
  BY <1>0 DEF LeavesBehind, Unclaimed
<1>3. CASE MainLoop \/ Terminate \/ UNCHANGED vars
  <2>1. Frame /\ \A r \in ToSet(results') : r \in ToSet(results) \/ r.id \in waiting
    BY <1>3, MainSteps, MainResults
  <2>2. \A t : Owned(t)' <=> Owned(t)
    BY <2>1 DEF Owned, Frame
  <2>3. \A c \in Client : OneShot(c)' <=> OneShot(c)
    BY <2>1 DEF OneShot, Frame
  <2> QED  BY <1>0, <1>1, <2>1, <2>2, <2>3 DEF LeaksOK, Frame
<1>4. ASSUME NEW c \in Client, Submit(c) PROVE LeaksOK' /\ LeavesBehind
  <2>1. /\ at[c] = "idle" /\ at' = [at EXCEPT ![c] = "post"] /\ UNCHANGED <<results, got>>
        /\ waiting' = waiting \cup ids'[c]
        /\ \E I : ids' = [ids EXCEPT ![c] = I] /\ \E r : req' = [req EXCEPT ![c] = r]
    BY <1>4 DEF Submit
  <2>2. ids[c] = {}
    BY <2>1 DEF TypeInv, ClientsOK, ClientOK
  <2>3. /\ at'[c] = "post"
        /\ \A d \in Client \ {c} : at'[d] = at[d] /\ ids'[d] = ids[d] /\ req'[d] = req[d]
    BY <1>2, <2>1
  <2>4. \A t : Owned(t) => Owned(t)'
    BY <2>2, <2>3 DEF Owned
  <2>5. \A t \in ids'[c] : Owned(t)'
    BY DEF Owned
  <2>6. \A t \in ids'[c] : \A d \in Client \ {c} : t \notin ids'[d]
    <3>1. OwnedOK'
      BY OwnedNext
    <3> QED  BY <3>1 DEF OwnedOK
  <2>7. \A d \in Client \ {c} : OneShot(d)' <=> OneShot(d)
    BY <2>3 DEF OneShot
  <2>8. \A t \in waiting' : Owned(t)'
    BY <1>1, <2>1, <2>4, <2>5
  <2>9. \A d \in Client : at'[d] = "cancel" =>
          ids'[d] \cap waiting' = {} /\ \A r \in ToSet(results') : r.id \notin ids'[d]
    BY <1>1, <2>1, <2>3, <2>6
  <2>10. LeavesBehind
    BY <1>0, <2>1, <2>4
  <2> QED  BY <1>1, <2>1, <2>3, <2>4, <2>7, <2>8, <2>9, <2>10 DEF LeaksOK
<1>5. ASSUME NEW c \in Client, Post(c) \/ Hangup(c) PROVE LeaksOK' /\ LeavesBehind
  <2>1. /\ \E place \in {"recv", "gone", "forget"} : at' = [at EXCEPT ![c] = place]
        /\ UNCHANGED <<waiting, results, ids, got, req>>
    BY <1>5 DEF Post, Hangup, replies
  <2>2. (\A t : Owned(t)' <=> Owned(t)) /\ \A d \in Client : OneShot(d)' <=> OneShot(d)
    BY <2>1 DEF Owned, OneShot
  <2>3. at'[c] \notin {"cancel", "leave"} /\ \A d \in Client \ {c} : at'[d] = at[d]
    BY <1>2, <2>1
  <2> QED  BY <1>0, <1>1, <2>1, <2>2, <2>3 DEF LeaksOK
<1>6. ASSUME NEW c \in Client, Receive(c) PROVE LeaksOK' /\ LeavesBehind
  <2>1. /\ \E next \in {"leave", "forget", "recv"} : at' = [at EXCEPT ![c] = next]
        /\ \A r \in ToSet(results') : r \in ToSet(results)
        /\ at'[c] = "leave" => OneShot(c) \/ count'[c] = req[c].prompts
        /\ UNCHANGED <<waiting, req, ids>> /\ at[c] = "recv"
    BY <1>6, ReceiveFacts
  <2>2. (\A t : Owned(t)' <=> Owned(t)) /\ \A d \in Client : OneShot(d)' <=> OneShot(d)
    BY <2>1 DEF Owned, OneShot
  <2>3. /\ at'[c] \in {"leave", "forget", "recv"}
        /\ \A d \in Client \ {c} : at'[d] = at[d] /\ got'[d] = got[d]
    <3>1. \A d \in Client \ {c} : got'[d] = got[d]
      BY <1>2, <1>6, ReceiveFacts
    <3> QED  BY <1>2, <2>1, <3>1
  <2>4. ASSUME at'[c] = "leave", ~OneShot(c) PROVE got'[c] = ids[c]
    <3>1. count'[c] = Cardinality(got'[c])
      BY CountNext DEF OneFinalPerTask
    <3>2. got'[c] \in SUBSET ids[c]
      <4>1. OwnedOK'
        BY OwnedNext
      <4> QED  BY <2>1, <4>1 DEF OwnedOK
    <3>3. Cardinality(ids[c]) = req[c].prompts
      BY <2>1 DEF TypeInv, ClientsOK, ClientOK
    <3>4. IsFiniteSet(ids[c])
      <4>1. ids[c] \in SUBSET TaskId
        BY <1>2
      <4> QED  BY <4>1, IdsInOrder
    <3>5. Cardinality(ids[c]) = Cardinality(got'[c])
      BY <2>1, <2>4, <3>1, <3>3
    <3> QED  BY <3>2, <3>4, <3>5, FS_Subset
  <2>5. LeavesBehind
    BY <1>0, <2>1, <2>2
  <2> QED  BY <1>1, <2>1, <2>2, <2>3, <2>4, <2>5 DEF LeaksOK
<1>7. ASSUME NEW c \in Client, Forget(c) PROVE LeaksOK' /\ LeavesBehind
  <2>1. /\ at' = [at EXCEPT ![c] = "cancel"] /\ waiting' = waiting \ ids[c]
        /\ ToSet(results') = {r \in ToSet(results) : r.id \notin ids[c]}
        /\ UNCHANGED <<req, ids, got>>
    BY <1>7, ForgetFacts
  <2>2. (\A t : Owned(t)' <=> Owned(t)) /\ \A d \in Client : OneShot(d)' <=> OneShot(d)
    BY <2>1 DEF Owned, OneShot
  <2>3. at'[c] = "cancel" /\ \A d \in Client \ {c} : at'[d] = at[d]
    BY <1>2, <2>1
  <2> QED  BY <1>0, <1>1, <2>1, <2>2, <2>3 DEF LeaksOK
<1>8. ASSUME NEW c \in Client, Return(c),
             \A t \in waiting' : t \in waiting /\ t \notin ids[c],
             \A r \in ToSet(results') : r \in ToSet(results),
             at[c] = "gone" \/ \A r \in ToSet(results') : r.id \notin ids[c]
      PROVE  LeaksOK' /\ LeavesBehind
  <2>1. /\ at'[c] = "idle" /\ ids'[c] = {}
        /\ \A d \in Client \ {c} : at'[d] = at[d] /\ ids'[d] = ids[d] /\ got'[d] = got[d] /\ req'[d] = req[d]
    BY <1>8, ReturnFacts
  <2>2. \A t : Owned(t) /\ t \notin ids[c] => Owned(t)'
    BY <2>1 DEF Owned
  <2>3. \A d \in Client \ {c} : OneShot(d)' <=> OneShot(d)
    BY <2>1 DEF OneShot
  <2>4. LeaksOK'
    BY <1>1, <1>8, <2>1, <2>2, <2>3 DEF LeaksOK
  <2>5. LeavesBehind
    BY <1>8, <2>2 DEF LeavesBehind, Unclaimed
  <2> QED  BY <2>4, <2>5
<1>9. ASSUME NEW c \in Client, CancelTasks(c) PROVE LeaksOK' /\ LeavesBehind
  BY <1>1, <1>8, <1>9, CancelFacts
<1>10. ASSUME NEW c \in Client, Leave(c) PROVE LeaksOK' /\ LeavesBehind
  <2>1. /\ at[c] \in {"leave", "gone"} /\ Return(c) /\ req[c] \in Requests
        /\ waiting' = (IF req[c].type = "rerank" THEN waiting ELSE waiting \ ids[c])
        /\ results' = Unread(ids[c]) \/ (results' = results /\ ~OneShot(c))
        /\ \A r \in ToSet(results') : r \in ToSet(results)
    BY <1>10, LeaveFacts
  <2>2. waiting' = waiting \ ids[c]
    BY <2>1
  <2>3. CASE results' = Unread(ids[c])
    <3>1. \A r \in ToSet(results') : r.id \notin ids[c]
      BY <2>3, UnreadFacts
    <3> QED  BY <1>8, <2>1, <2>2, <3>1
  <2>4. CASE results' = results /\ ~OneShot(c)
    <3>1. at[c] = "gone" \/ \A r \in ToSet(results') : r.id \notin ids[c]
      BY <1>1, <2>1, <2>4
    <3> QED  BY <1>8, <2>1, <2>2, <3>1
  <2> QED  BY <2>1, <2>3, <2>4
<1> QED  BY <1>3, <1>4, <1>5, <1>6, <1>7, <1>9, <1>10 DEF Next, Handle

\* As long as no decode fails and nobody asks for a reranking, a handler that
\* returns leaves neither a waiting id nor a result behind in server_response,
\* but for the results sent so far to a streaming client that was gone before the
\* first part of its answer (NothingLeaks).
THEOREM NoLeaks ==
    ASSUME ~Faults, \A r \in Requests : r.type # "rerank"
    PROVE  Spec => NothingLeaks
<1>1. Init => LeaksOK
  <2>1. ASSUME Init PROVE LeaksOK
    <3>1. ToSet(<<>>) = {}
      BY DEF ToSet
    <3> QED  BY <2>1, <3>1 DEF Init, LeaksOK
  <2> QED  BY <2>1
<1> DEFINE Parts == TypeInv /\ RoundOK /\ ShapeOK /\ OwnedOK /\ UniqueOK /\ EndsOK /\ OneFinalPerTask
           Clean == /\ \A t \in waiting' : Owned(t)'
                    /\ \A r \in Unclaimed' \ Unclaimed :
                         \E c \in Client : at[c] = "gone" /\ r.id \in ids[c]
<1>2. Parts /\ LeaksOK /\ [Next]_vars => LeaksOK'
  BY LeaksNext
<1>3. Parts /\ LeaksOK /\ [Next]_vars => [Clean]_vars
  <2>1. LeaksOK' => \A t \in waiting' : Owned(t)'
    BY DEF LeaksOK
  <2> QED  BY <2>1, LeaksNext DEF LeavesBehind
<1> QED  BY <1>1, <1>2, <1>3, ResultsInvariance, PTL DEF Spec, NothingLeaks

-----------------------------------------------------------------------------
(* No task is stranded among the deferred ones.                            *)

\* A deferred task has a slot that is processing, whose release will take one up,
\* or a task before it that will be launched.
ServedOK ==
    ToSet(deferred) # {} => Processing # {} \/ \E u \in ToSet(queue) : u.type \in SlotTypes

\* Requests that end in a slot: no slot actions, no grammar that does not parse,
\* no slot that does not exist.
Plain == \A r \in Requests : r.type # "action" /\ ~r.bad /\ r.slot \in Slot \cup {None}

\* If every request ends in a slot, every step keeps a slot processing, or a task
\* that will be launched in the queue, as long as a task is deferred.
LEMMA ServedNext ==
    ASSUME Plain, TypeInv, RoundOK, ShapeOK, ServedOK, [Next]_vars
    PROVE  ServedOK'
<1>1. \A u : IsRequest(u) => u.type # "action" /\ ~u.bad /\ u.slot \in Slot \cup {None}
  BY RequestFields DEF Plain
<1>2. \A u \in ToSet(deferred) : u.type \in SlotTypes
  BY <1>1, RequestFields DEF ShapeOK, OtherTypes
<1>3. /\ queue \in Seq(Tasks) /\ deferred \in Seq(Tasks) /\ NextResponse \in Tasks
      /\ state \in [Slot -> {"idle", "started", "prompt", "generating"}]
      /\ \A u \in ToSet(queue) : u.type \in SlotTypes => IsRequest(u)
  BY NewTasks, KindsOfTasks DEF TypeInv, TypeOK
<1>4. /\ (\E s \in Slot : state'[s] # "idle") => ServedOK'
      /\ (\E u \in ToSet(queue') : u.type \in SlotTypes) => ServedOK'
      /\ ToSet(deferred') = {} => ServedOK'
  BY DEF ServedOK, Processing
<1>5. \/ ToSet(deferred) = {} \/ \E s \in Slot : state[s] # "idle"
      \/ \E u \in ToSet(queue) : u.type \in SlotTypes
  BY DEF ServedOK, Processing
<1>6. ASSUME NEW q \in Seq(Tasks), PopDeferred(q) PROVE ServedOK'
  <2>1. CASE deferred = <<>> /\ deferred' = deferred
    BY <1>4, <2>1 DEF ToSet
  <2>2. CASE /\ ToSet(queue') = ToSet(q) \cup {Head(deferred)}
             /\ ToSet(deferred) = {Head(deferred)} \cup ToSet(deferred')
    <3> DEFINE h == Head(deferred)
    <3>1. h \in ToSet(queue') /\ h \in ToSet(deferred)
      BY <2>2
    <3> HIDE DEF h
    <3> QED  BY <1>2, <1>4, <3>1
  <2> QED  BY <1>6, <2>1, <2>2, PopFacts
<1>7. CASE MainLoop \/ Terminate \/ UNCHANGED vars
  <2>1. MainStep
    BY <1>7, MainSteps
  <2>2. CASE Still
    BY <1>4, <1>5, <2>2 DEF Still
  <2>3. CASE Wakes
    <3>1. ToSet(queue') = ToSet(queue) \cup {NextResponse}
      BY <1>3, <2>3, ToSetProperties DEF Wakes
    <3> QED  BY <1>4, <1>5, <2>3, <3>1 DEF Wakes
  <2>4. CASE PutsOff
    <3>1. Task \in ToSet(queue) /\ IsRequest(Task)
      BY <2>4, TakeSets, KindsOfTasks DEF PutsOff, OtherTypes
    <3>2. Available = {} /\ Task.slot \in Slot \cup {None}
      BY <1>1, <2>4, <3>1 DEF PutsOff
    <3>3. \E s \in Slot : state[s] # "idle"
      <4>1. CASE Task.slot = None
        BY <3>2, <4>1, SlotAssumption DEF Available, Processing
      <4>2. CASE Task.slot # None
        <5>1. Task.slot \in Slot /\ (Slot \cap {Task.slot}) \ Processing = {}
          BY <3>2, <4>2 DEF Available
        <5> QED  BY <5>1 DEF Processing
      <4> QED  BY <4>1, <4>2
    <3> QED  BY <1>4, <2>4, <3>3 DEF PutsOff
  <2>5. CASE Drops \/ Answers
    <3>1. /\ ToSet(queue) = {Task} \cup ToSet(queue') /\ UNCHANGED <<deferred, state>>
          /\ Task.type \notin SlotTypes
      BY <2>5, TakeSets DEF Drops, Answers, SlotTypes
    <3> QED  BY <1>4, <1>5, <3>1
  <2>6. ASSUME NEW s \in Slot, Launches(s) PROVE ServedOK'
    <3>1. state'[s] # "idle"
      BY <1>3, <2>6 DEF Launches
    <3> QED  BY <1>4, <3>1
  <2>7. ASSUME NEW s \in Slot, Refuses(s) PROVE ServedOK'
    <3>1. Task \in ToSet(queue) /\ IsRequest(Task) /\ Task.bad
      BY <1>3, <2>7, TakeSets DEF Refuses
    <3> QED  BY <1>1, <3>1
  <2>8. ASSUME NEW s \in Slot, Cancelled(s) \/ Releases(s) PROVE ServedOK'
    BY <1>3, <1>6, <2>8, TakeSets DEF Cancelled, Releases
  <2>9. ASSUME NEW s \in Slot, GoesOn(s) \/ FailsIdle(s) PROVE ServedOK'
    <3>1. \A p \in Slot : state[p] # "idle" => state'[p] # "idle"
      BY <1>3, <2>9 DEF GoesOn, FailsIdle
    <3> QED  BY <1>4, <1>5, <2>9, <3>1 DEF GoesOn, FailsIdle
  <2> QED  BY <2>1, <2>2, <2>3, <2>4, <2>5, <2>6, <2>7, <2>8, <2>9 DEF MainStep
<1>8. ASSUME NEW c \in Client, Post(c) PROVE ServedOK'
  BY <1>4, <1>5, <1>8, PostFacts
<1>9. ASSUME NEW c \in Client, CancelTasks(c) PROVE ServedOK'
  <2>1. /\ \A u \in ToSet(queue) : u.target = None => u \in ToSet(queue')
        /\ ToSet(deferred') \subseteq ToSet(deferred) /\ UNCHANGED state
    BY <1>9, CancelFacts
  <2> QED  BY <1>3, <1>4, <1>5, <2>1, RequestFields
<1>10. ASSUME NEW c \in Client, Submit(c) \/ Hangup(c) \/ Receive(c) \/ Forget(c) \/ Leave(c)
       PROVE  ServedOK'
  <2>1. UNCHANGED <<queue, deferred, state>>
    BY <1>10 DEF Submit, Hangup, Receive, Forget, Leave, tasks, slots
  <2> QED  BY <1>4, <1>5, <2>1
<1> QED  BY <1>7, <1>8, <1>9, <1>10 DEF Next, Handle

\* With requests that end in a slot only, a deferred task is never left beside
\* idle slots: what stands before it in the queue is launched, and every
\* release takes a deferred task up.
THEOREM Unstranded == ASSUME Plain PROVE Spec => []NoneStranded
<1>1. Init => ServedOK
  BY DEF Init, ServedOK, ToSet
<1>2. TypeInv /\ RoundOK /\ ShapeOK /\ OwnedOK /\ ServedOK /\ [Next]_vars => ServedOK'
  BY ServedNext
<1>3. TypeInv /\ ServedOK => NoneStranded
  <2> SUFFICES ASSUME TypeInv, ServedOK, queue = <<>>, Processing = {}, deferred # <<>> PROVE FALSE
    BY DEF NoneStranded
  <2>1. ToSet(deferred) # {}
    <3>1. deferred \in Seq(Tasks) /\ NoTask \in Tasks
      BY NewTasks DEF TypeInv, TypeOK
    <3> QED  BY <3>1, ToSetProperties
  <2> QED  BY <2>1 DEF ServedOK, ToSet
<1> QED  BY <1>1, <1>2, <1>3, StructureInvariance, PTL DEF Spec
=============================================================================
