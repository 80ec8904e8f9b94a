----------------------------- MODULE QueueProofs ----------------------------
(***************************************************************************)
(* The context queue, for any number of contexts, producers and puts, and  *)
(* the mixed queue under it, for any number of agents of each kind and any *)
(* size.                                                                   *)
(***************************************************************************)
EXTENDS ContextQueue, AioQueue, FiniteSetTheorems, FunctionTheorems,
        SequenceTheorems, WellFoundedInduction, TLAPS

-----------------------------------------------------------------------------
(* The context queue.  ArrivalOrder is not inductive: that the number      *)
(* given to the next put is fresh depends on where the counters stand      *)
(* relative to the heap, which is CountersFresh, and on the lock between a *)
(* push and its counter.                                                   *)

(* The inductive invariant. *)
HeapInv == TypeOK /\ CountersFresh /\ OneItemEach /\ ArrivalOrder

(* The heap starts empty. *)
LEMMA HeapStarts == HeapInit => HeapInv
BY ContextQueueAssumption
   DEF HeapInit, HeapInv, TypeOK, CountersFresh, OneItemEach, ArrivalOrder,
       ContextPriority, LIFO, FIFO_HIGH, FIFO_LOW, PrioritizedItem

(* A push: the new item is the latest arrival and sits on its counter,     *)
(* beyond every number in the heap since nobody held the lock.             *)
LEMMA PushKeeps ==
  ASSUME HeapInv, NEW u \in Producer, NEW c \in Context, NEW p \in ContextPriority, Push(u, c, p)
  PROVE  HeapInv'
<1> DEFINE new == [priority |-> p, sequence |-> _counter_dict[p],
                   item |-> c, arrival |-> arrivals]
<1>1. /\ heap' = heap \cup {new}
      /\ new.priority = p /\ new.sequence = _counter_dict[p] /\ new.arrival = arrivals
  BY DEF Push
<1>2. /\ holder = NoProducer /\ holder' = u /\ pending' = p
      /\ arrivals' = arrivals + 1 /\ _counter_dict' = _counter_dict
  BY DEF Push
<1>3. TypeOK
  BY DEF HeapInv
<1>4. new \in PrioritizedItem
  BY <1>3 DEF TypeOK, PrioritizedItem
<1> HIDE DEF new
<1>5. TypeOK'
  BY <1>1, <1>2, <1>3, <1>4 DEF TypeOK
<1>6. \A x \in heap : /\ x \in PrioritizedItem /\ x.priority \in ContextPriority
                      /\ x.sequence \in Int /\ x.arrival \in Nat /\ x.arrival < arrivals
                      /\ _counter_dict[x.priority] \in Int
                      /\ IF x.priority = LIFO THEN _counter_dict[x.priority] < x.sequence
                                              ELSE x.sequence < _counter_dict[x.priority]
  BY <1>2, <1>3 DEF HeapInv, CountersFresh, TypeOK, PrioritizedItem
<1>7. arrivals \in Nat /\ _counter_dict[p] \in Int /\ u # NoProducer
  BY <1>3, ContextQueueAssumption DEF TypeOK
<1>8. CountersFresh'
  <2> SUFFICES ASSUME NEW x \in heap'
               PROVE  /\ x.arrival < arrivals'
                      /\ \/ IF x.priority = LIFO THEN _counter_dict[x.priority] < x.sequence
                                                 ELSE x.sequence < _counter_dict[x.priority]
                         \/ /\ x.sequence = _counter_dict[x.priority]
                            /\ holder' # NoProducer /\ pending' = x.priority
                            /\ x.arrival = arrivals' - 1
    BY <1>2 DEF CountersFresh
  <2>1. CASE x \in heap
    BY <2>1, <1>2, <1>6, <1>7
  <2>2. CASE x = new
    BY <2>2, <1>1, <1>2, <1>7
  <2> QED
    BY <2>1, <2>2, <1>1
<1>9. OneItemEach'
  BY <1>1, <1>6, <1>7 DEF HeapInv, OneItemEach
<1>10. ArrivalOrder'
  <2> SUFFICES ASSUME NEW x \in heap', NEW y \in heap',
                      x.priority = y.priority, x.arrival < y.arrival
               PROVE  IF x.priority = LIFO THEN y.sequence < x.sequence
                                           ELSE x.sequence < y.sequence
    BY DEF ArrivalOrder
  <2>1. CASE x \in heap /\ y \in heap
    BY <2>1 DEF HeapInv, ArrivalOrder
  <2>2. CASE x \in heap /\ y = new
    BY <2>2, <1>1, <1>6
  <2>3. CASE x = new
    <3>1. y = new \/ y.arrival < arrivals
      BY <1>1, <1>6
    <3> QED
      BY <2>3, <3>1, <1>1, <1>6, <1>7
  <2> QED
    BY <2>1, <2>2, <2>3, <1>1
<1> QED
  BY <1>5, <1>8, <1>9, <1>10 DEF HeapInv

(* Moving the counter takes it past the item of the put that ends. *)
LEMMA BumpKeeps ==
  ASSUME HeapInv, NEW u \in Producer, Bump(u)
  PROVE  HeapInv'
<1>1. /\ heap' = heap /\ arrivals' = arrivals /\ pending' = pending /\ holder' = NoProducer
      /\ _counter_dict' = [_counter_dict EXCEPT
                             ![pending] = IF pending = LIFO THEN @ - 1 ELSE @ + 1]
  BY DEF Bump
<1>2. TypeOK
  BY DEF HeapInv
<1>3. TypeOK'
  BY <1>1, <1>2 DEF TypeOK
<1>4. CountersFresh'
  <2> SUFFICES ASSUME NEW x \in heap
               PROVE  /\ x.arrival < arrivals
                      /\ IF x.priority = LIFO THEN _counter_dict'[x.priority] < x.sequence
                                              ELSE x.sequence < _counter_dict'[x.priority]
    BY <1>1 DEF CountersFresh
  <2>1. /\ x.priority \in ContextPriority /\ x.sequence \in Int
        /\ _counter_dict[x.priority] \in Int /\ pending \in ContextPriority
    BY <1>2 DEF TypeOK, PrioritizedItem
  <2>2. /\ x.arrival < arrivals
        /\ IF x.priority = LIFO THEN _counter_dict[x.priority] <= x.sequence
                                ELSE x.sequence <= _counter_dict[x.priority]
        /\ x.sequence = _counter_dict[x.priority] => pending = x.priority
    BY <2>1 DEF HeapInv, CountersFresh
  <2>3. _counter_dict'[x.priority] =
          IF x.priority # pending THEN _counter_dict[x.priority]
          ELSE IF pending = LIFO THEN _counter_dict[x.priority] - 1
          ELSE _counter_dict[x.priority] + 1
    BY <1>1, <1>2, <2>1 DEF TypeOK
  <2> QED
    BY <2>1, <2>2, <2>3
<1> QED
  BY <1>1, <1>3, <1>4 DEF HeapInv, OneItemEach, ArrivalOrder

(* A get takes an item away and changes no number. *)
LEMMA GetKeeps ==
  ASSUME HeapInv, Get
  PROVE  HeapInv'
<1>1. /\ heap' \subseteq heap
      /\ UNCHANGED <<_counter_dict, holder, pending, arrivals>>
  BY DEF Get
<1>2. TypeOK'
  BY <1>1 DEF HeapInv, TypeOK
<1>3. CountersFresh'
  BY <1>1 DEF HeapInv, CountersFresh
<1>4. OneItemEach' /\ ArrivalOrder'
  BY <1>1 DEF HeapInv, OneItemEach, ArrivalOrder
<1> QED
  BY <1>2, <1>3, <1>4 DEF HeapInv

(* The invariant holds in every state of the context queue. *)
LEMMA HeapInvariant == HeapSpec => []HeapInv
<1>1. HeapInv /\ [HeapNext]_heapVars => HeapInv'
  <2> SUFFICES ASSUME HeapInv, [HeapNext]_heapVars
               PROVE  HeapInv'
    OBVIOUS
  <2>1. ASSUME NEW u \in Producer, Bump(u)
        PROVE  HeapInv'
    BY <2>1, BumpKeeps
  <2>2. ASSUME NEW u \in Producer, NEW c \in Context, NEW p \in ContextPriority, Push(u, c, p)
        PROVE  HeapInv'
    BY <2>2, PushKeeps
  <2>3. CASE Get
    BY <2>3, GetKeeps
  <2>4. CASE UNCHANGED heapVars
    BY <2>4 DEF heapVars, HeapInv, TypeOK, CountersFresh, OneItemEach, ArrivalOrder
  <2> QED
    BY <2>1, <2>2, <2>3, <2>4 DEF HeapNext
<1> QED
  BY <1>1, HeapStarts, PTL DEF HeapSpec

(* However puts and gets interleave, the order of the heap within a        *)
(* priority is the order of the puts, last in first out for LIFO.          *)
THEOREM HeapInArrivalOrder == HeapSpec => []ArrivalOrder
BY HeapInvariant, PTL DEF HeapInv

(* get serves the lanes in the order of their priorities, the LIFO lane    *)
(* last in first out and the others first in first out.                    *)
THEOREM GetServesInOrder == HeapSpec => ServedInOrder
<1>1. HeapInv /\ [HeapNext]_heapVars => [GetsInOrder]_heapVars
  <2> SUFFICES ASSUME HeapInv, HeapNext,
                      NEW x \in heap, heap' = heap \ {x}, NEW y \in heap \ {x}
               PROVE  /\ x.priority <= y.priority
                      /\ x.priority = y.priority =>
                           IF x.priority = LIFO THEN y.arrival < x.arrival
                                                ELSE x.arrival < y.arrival
    BY DEF GetsInOrder
  <2>1. Get
    BY DEF HeapNext, Push, Bump
  <2>2. ~Before(y, x)
    BY <2>1 DEF Get
  <2>3. /\ x.priority \in {0, 1, 2} /\ y.priority \in {0, 1, 2}
        /\ x.sequence \in Int /\ y.sequence \in Int
        /\ x.arrival \in Nat /\ y.arrival \in Nat
    BY DEF HeapInv, TypeOK, PrioritizedItem, ContextPriority, LIFO, FIFO_HIGH, FIFO_LOW
  <2>4. x.arrival # y.arrival
    BY DEF HeapInv, OneItemEach
  <2>5. /\ x.priority = y.priority /\ x.arrival < y.arrival =>
             IF x.priority = LIFO THEN y.sequence < x.sequence ELSE x.sequence < y.sequence
        /\ x.priority = y.priority /\ y.arrival < x.arrival =>
             IF x.priority = LIFO THEN x.sequence < y.sequence ELSE y.sequence < x.sequence
    BY DEF HeapInv, ArrivalOrder
  <2> QED
    BY <2>2, <2>3, <2>4, <2>5 DEF Before
<1> QED
  BY <1>1, HeapInvariant, PTL DEF HeapSpec, ServedInOrder

-----------------------------------------------------------------------------
(* The heap implements the lanes.  A lane lists the items of a priority by *)
(* their rank, so the proof needs that ranks number the items without a    *)
(* gap, and what a new item and the removal of the first do to the ranks.  *)

RankIn(S, x) == Cardinality({y \in S : Before(y, x)}) + 1

LaneOf(S) == [i \in 1 .. Cardinality(S) |-> (CHOOSE x \in S : RankIn(S, x) = i).item]

Items(h, p) == {x \in h : x.priority = p}

(* Finitely many items, of which any two differ in their place. *)
Ordered(S) ==
  /\ IsFiniteSet(S)
  /\ \A x, y \in S : x # y => Before(x, y) \/ Before(y, x)
  /\ \A x, y \in S : ~(Before(x, y) /\ Before(y, x))
  /\ \A x, y, z \in S : Before(x, y) /\ Before(y, z) => Before(x, z)

(* The ranks of n items are 1 .. n. *)
LEMMA RanksNumber ==
  ASSUME NEW S, Ordered(S)
  PROVE  /\ Cardinality(S) \in Nat
         /\ \A x \in S : RankIn(S, x) \in 1 .. Cardinality(S)
         /\ \A x, y \in S : RankIn(S, x) = RankIn(S, y) => x = y
         /\ \A i \in 1 .. Cardinality(S) : \E x \in S : RankIn(S, x) = i
<1> DEFINE Low(x) == {y \in S : Before(y, x)}
           N == Cardinality(S)
           f == [x \in S |-> RankIn(S, x)]
<1>1. IsFiniteSet(S) /\ N \in Nat
  BY FS_CardinalityType DEF Ordered
<1>2. ASSUME NEW x \in S
      PROVE  IsFiniteSet(Low(x)) /\ Cardinality(Low(x)) \in Nat /\ Cardinality(Low(x)) < N
  <2>1. Low(x) \in SUBSET (S \ {x})
    BY DEF Ordered
  <2>2. IsFiniteSet(S \ {x}) /\ Cardinality(S \ {x}) = N - 1
    BY <1>1, FS_RemoveElement
  <2>3. IsFiniteSet(Low(x)) /\ Cardinality(Low(x)) <= Cardinality(S \ {x})
    BY <2>1, <2>2, FS_Subset
  <2>4. Cardinality(Low(x)) \in Nat
    BY <2>3, FS_CardinalityType
  <2> QED
    BY <1>1, <2>2, <2>3, <2>4
<1>3. ASSUME NEW x \in S, NEW y \in S, Before(x, y)
      PROVE  RankIn(S, x) < RankIn(S, y)
  <2>1. Low(x) \in SUBSET (Low(y) \ {x})
    BY <1>3 DEF Ordered
  <2>2. x \in Low(y)
    BY <1>3
  <2>3. IsFiniteSet(Low(y) \ {x}) /\ Cardinality(Low(y) \ {x}) = Cardinality(Low(y)) - 1
    BY <1>2, <2>2, FS_RemoveElement
  <2>4. Cardinality(Low(x)) <= Cardinality(Low(y) \ {x})
    BY <2>1, <2>3, FS_Subset
  <2>5. RankIn(S, x) = Cardinality(Low(x)) + 1 /\ RankIn(S, y) = Cardinality(Low(y)) + 1
    BY DEF RankIn
  <2>6. Cardinality(Low(x)) \in Nat /\ Cardinality(Low(y)) \in Nat
    BY <1>2
  <2> HIDE DEF Low
  <2> QED
    BY <2>3, <2>4, <2>5, <2>6
<1>4. \A x \in S : RankIn(S, x) \in 1 .. N
  <2> SUFFICES ASSUME NEW x \in S PROVE RankIn(S, x) \in 1 .. N
    OBVIOUS
  <2>1. RankIn(S, x) = Cardinality(Low(x)) + 1
    BY DEF RankIn
  <2>2. Cardinality(Low(x)) \in Nat /\ Cardinality(Low(x)) < N
    BY <1>2
  <2> HIDE DEF Low, N
  <2> QED
    BY <1>1, <2>1, <2>2
<1>5. \A x, y \in S : RankIn(S, x) = RankIn(S, y) => x = y
  <2> SUFFICES ASSUME NEW x \in S, NEW y \in S, x # y PROVE RankIn(S, x) # RankIn(S, y)
    OBVIOUS
  <2>1. Before(x, y) \/ Before(y, x)
    BY DEF Ordered
  <2>2. RankIn(S, x) \in Int /\ RankIn(S, y) \in Int
    BY <1>4
  <2>3. RankIn(S, x) < RankIn(S, y) \/ RankIn(S, y) < RankIn(S, x)
    BY <2>1, <1>3
  <2> QED
    BY <2>2, <2>3
<1>6. f \in Injection(S, 1 .. N)
  <2>1. f \in [S -> 1 .. N]
    BY <1>4
  <2>2. \A x, y \in S : f[x] = f[y] => x = y
    BY <1>5
  <2> QED
    BY <2>1, <2>2, Fun_IsInj
<1>7. IsFiniteSet(1 .. N) /\ Cardinality(1 .. N) = N
  BY <1>1, FS_Interval
<1>8. f \in Surjection(S, 1 .. N)
  BY <1>6, <1>7, FS_Injection
<1>9. \A i \in 1 .. N : \E x \in S : RankIn(S, x) = i
  BY <1>8 DEF Surjection
<1> QED
  BY <1>1, <1>4, <1>5, <1>9

(* The lane has each item at its rank. *)
LEMMA AtRank ==
  ASSUME NEW S, Ordered(S), NEW x \in S
  PROVE  RankIn(S, x) \in 1 .. Cardinality(S) /\ LaneOf(S)[RankIn(S, x)] = x.item
<1>1. RankIn(S, x) \in 1 .. Cardinality(S)
  BY RanksNumber
<1>2. (CHOOSE y \in S : RankIn(S, y) = RankIn(S, x)) = x
  BY RanksNumber
<1> QED
  BY <1>1, <1>2 DEF LaneOf

(* An ordered set is empty when its lane is. *)
LEMMA LaneEmpty ==
  ASSUME NEW S, Ordered(S)
  PROVE  /\ LaneOf(S) = <<>> <=> S = {}
         /\ Len(LaneOf(S)) = Cardinality(S) /\ LaneOf(S) \in Seq({x.item : x \in S})
<1>1. Cardinality(S) \in Nat
  BY RanksNumber
<1>2. Cardinality(S) = 0 <=> S = {}
  BY FS_EmptySet DEF Ordered
<1>3. LaneOf(S) \in [1 .. Cardinality(S) -> {x.item : x \in S}]
  <2> SUFFICES ASSUME NEW i \in 1 .. Cardinality(S)
               PROVE  (CHOOSE x \in S : RankIn(S, x) = i).item \in {x.item : x \in S}
    BY DEF LaneOf
  <2>1. (CHOOSE x \in S : RankIn(S, x) = i) \in S
    BY RanksNumber
  <2> QED
    BY <2>1
<1>4. LaneOf(S) \in Seq({x.item : x \in S}) /\ Len(LaneOf(S)) = Cardinality(S)
  BY <1>1, <1>3, LenProperties, IsASeq
<1> QED
  BY <1>1, <1>2, <1>4, EmptySeq

(* An item behind all others comes last. *)
LEMMA LaneAppends ==
  ASSUME NEW S, NEW n, n \notin S, Ordered(S), Ordered(S \cup {n}), \A x \in S : Before(x, n)
  PROVE  LaneOf(S \cup {n}) = Append(LaneOf(S), n.item)
<1> DEFINE T == S \cup {n}
           N == Cardinality(S)
<1>1. Cardinality(T) = N + 1 /\ N \in Nat
  BY RanksNumber, FS_AddElement DEF Ordered
<1>2. \A x \in S : RankIn(T, x) = RankIn(S, x)
  <2> SUFFICES ASSUME NEW x \in S
               PROVE  {y \in T : Before(y, x)} = {y \in S : Before(y, x)}
    BY DEF RankIn
  <2>1. ~Before(n, x)
    BY DEF Ordered
  <2> QED
    BY <2>1
<1>3. RankIn(T, n) = N + 1
  <2>1. {y \in T : Before(y, n)} = S
    BY DEF Ordered
  <2> QED
    BY <2>1 DEF RankIn
<1>4. /\ LaneOf(S) \in Seq({x.item : x \in S}) /\ Len(LaneOf(S)) = N
      /\ LaneOf(T) \in Seq({x.item : x \in T}) /\ Len(LaneOf(T)) = N + 1
  BY <1>1, LaneEmpty
<1>5. \A i \in 1 .. N : LaneOf(T)[i] = LaneOf(S)[i]
  <2> SUFFICES ASSUME NEW i \in 1 .. N PROVE LaneOf(T)[i] = LaneOf(S)[i]
    OBVIOUS
  <2>1. PICK x \in S : RankIn(S, x) = i
    BY RanksNumber
  <2>2. LaneOf(S)[i] = x.item
    BY <2>1, AtRank
  <2>3. LaneOf(T)[RankIn(T, x)] = x.item
    BY AtRank
  <2> QED
    BY <1>2, <2>1, <2>2, <2>3
<1>6. LaneOf(T)[N + 1] = n.item
  <2>1. LaneOf(T)[RankIn(T, n)] = n.item
    BY AtRank
  <2> QED
    BY <1>3, <2>1
<1> DEFINE a == LaneOf(S)
           b == LaneOf(T)
           U == {x.item : x \in T}
<1>7. a \in Seq(U) /\ b \in Seq(U) /\ n.item \in U
  <2>1. {x.item : x \in S} \subseteq U
    OBVIOUS
  <2>2. Seq({x.item : x \in S}) \subseteq Seq(U)
    BY <2>1
  <2> QED
    BY <1>4, <2>2
<1> HIDE DEF T, N, U, a, b
<1>8. Append(a, n.item) \in Seq(U) /\ Len(Append(a, n.item)) = N + 1
  BY <1>4, <1>7 DEF a
<1>9. \A i \in 1 .. N + 1 : b[i] = Append(a, n.item)[i]
  BY <1>1, <1>4, <1>5, <1>6, <1>7 DEF a, b
<1>10. b = Append(a, n.item)
  BY <1>4, <1>7, <1>8, <1>9, SeqEqual DEF b
<1> QED
  BY <1>10 DEF a, b, T

(* An item before all others comes first. *)
LEMMA LaneConses ==
  ASSUME NEW S, NEW n, n \notin S, Ordered(S), Ordered(S \cup {n}), \A x \in S : Before(n, x)
  PROVE  LaneOf(S \cup {n}) = Cons(n.item, LaneOf(S))
<1> DEFINE T == S \cup {n}
           N == Cardinality(S)
<1>1. Cardinality(T) = N + 1 /\ N \in Nat
  BY RanksNumber, FS_AddElement DEF Ordered
<1>2. \A x \in S : RankIn(T, x) = RankIn(S, x) + 1
  <2> SUFFICES ASSUME NEW x \in S PROVE RankIn(T, x) = RankIn(S, x) + 1
    OBVIOUS
  <2> DEFINE L == {y \in S : Before(y, x)}
  <2>1. {y \in T : Before(y, x)} = L \cup {n} /\ n \notin L
    OBVIOUS
  <2>2. IsFiniteSet(L)
    BY FS_Subset DEF Ordered
  <2>3. Cardinality(L \cup {n}) = Cardinality(L) + 1
    BY <2>1, <2>2, FS_AddElement
  <2> QED
    BY <2>1, <2>3 DEF RankIn
<1>3. RankIn(T, n) = 1
  <2>1. {y \in T : Before(y, n)} = {}
    BY DEF Ordered
  <2> QED
    BY <2>1, FS_EmptySet DEF RankIn
<1>4. /\ LaneOf(S) \in Seq({x.item : x \in S}) /\ Len(LaneOf(S)) = N
      /\ LaneOf(T) \in Seq({x.item : x \in T}) /\ Len(LaneOf(T)) = N + 1
  BY <1>1, LaneEmpty
<1>5. \A i \in 1 .. N : LaneOf(T)[i + 1] = LaneOf(S)[i]
  <2> SUFFICES ASSUME NEW i \in 1 .. N PROVE LaneOf(T)[i + 1] = LaneOf(S)[i]
    OBVIOUS
  <2>1. PICK x \in S : RankIn(S, x) = i
    BY RanksNumber
  <2>2. LaneOf(S)[i] = x.item
    BY <2>1, AtRank
  <2>3. LaneOf(T)[RankIn(T, x)] = x.item
    BY AtRank
  <2> QED
    BY <1>2, <2>1, <2>2, <2>3
<1>6. LaneOf(T)[1] = n.item
  <2>1. LaneOf(T)[RankIn(T, n)] = n.item
    BY AtRank
  <2> QED
    BY <1>3, <2>1
<1> DEFINE a == LaneOf(S)
           b == LaneOf(T)
           U == {x.item : x \in T}
<1>7. a \in Seq(U) /\ b \in Seq(U) /\ n.item \in U
  <2>1. {x.item : x \in S} \subseteq U
    OBVIOUS
  <2>2. Seq({x.item : x \in S}) \subseteq Seq(U)
    BY <2>1
  <2> QED
    BY <1>4, <2>2
<1> HIDE DEF T, N, U, a, b
<1> DEFINE e == n.item
<1>8. e \in U
  BY <1>7
<1> HIDE DEF e
<1>9. <<e>> \o a \in Seq(U) /\ Len(<<e>> \o a) = N + 1
  BY <1>1, <1>4, <1>7, <1>8 DEF a
<1>10. \A i \in 1 .. N + 1 : b[i] = (<<e>> \o a)[i]
  <2> SUFFICES ASSUME NEW i \in 1 .. N + 1 PROVE b[i] = (<<e>> \o a)[i]
    OBVIOUS
  <2>1. CASE i = 1
    <3>1. b[1] = e
      BY <1>6 DEF b, e
    <3>2. (<<e>> \o a)[1] = e
      BY <1>1, <1>4, <1>7, <1>8 DEF a
    <3> QED
      BY <2>1, <3>1, <3>2
  <2>2. CASE i # 1
    <3>1. i - 1 \in 1 .. N
      BY <2>2, <1>1
    <3>2. b[(i - 1) + 1] = a[i - 1]
      BY <3>1, <1>5 DEF a, b
    <3>3. (<<e>> \o a)[i] = a[i - 1]
      BY <2>2, <1>1, <1>4, <1>7, <1>8 DEF a
    <3> QED
      <4>1. (i - 1) + 1 = i
        BY <1>1
      <4> QED
        BY <3>2, <3>3, <4>1
  <2> QED
    BY <2>1, <2>2
<1>11. b = <<e>> \o a
  BY <1>4, <1>7, <1>9, <1>10, SeqEqual DEF b
<1> QED
  BY <1>11 DEF a, b, T, e, Cons

(* What is left of an ordered set is ordered. *)
LEMMA OrderedSubset ==
  ASSUME NEW S, Ordered(S), NEW T, T \subseteq S
  PROVE  Ordered(T)
BY FS_Subset DEF Ordered

LanesIn(h) == [p \in ContextPriority |-> LaneOf(Items(h, p))]

(* The refinement mapping, now and after a step. *)
LEMMA LanesMap ==
  /\ [p \in ContextPriority |-> Lane(p)] = LanesIn(heap)
  /\ [p \in ContextPriority |-> Lane(p)]' = LanesIn(heap')
BY DEF Lane, LanesIn, LaneOf, Items, RankIn

LaneInv == HeapInv /\ IsFiniteSet(heap)

(* What it says of the heap alone. *)
LaneOrder(h) ==
  /\ IsFiniteSet(h) /\ h \subseteq PrioritizedItem
  /\ \A x, y \in h : x.arrival = y.arrival => x = y
  /\ \A x, y \in h :
       x.priority = y.priority /\ x.arrival < y.arrival =>
         IF x.priority = LIFO THEN y.sequence < x.sequence ELSE x.sequence < y.sequence

LEMMA LaneOrders ==
  /\ LaneInv => LaneOrder(heap)
  /\ LaneInv' => LaneOrder(heap')
BY DEF LaneInv, HeapInv, TypeOK, OneItemEach, ArrivalOrder, LaneOrder

(* The items of each priority are ordered. *)

LEMMA LanesOrdered ==
  ASSUME NEW h, LaneOrder(h), NEW p \in ContextPriority
  PROVE  Ordered(Items(h, p))
<1>1. IsFiniteSet(Items(h, p))
  BY FS_Subset DEF LaneOrder, Items
<1>2. \A x \in h : x.sequence \in Int /\ x.arrival \in Nat
  BY DEF LaneOrder, PrioritizedItem
<1>3. ASSUME NEW x \in Items(h, p), NEW y \in Items(h, p)
      PROVE  Before(x, y) <=> x.sequence < y.sequence
  <2>1. x.priority = p /\ y.priority = p /\ p \in Int
    BY DEF Items, ContextPriority, LIFO, FIFO_HIGH, FIFO_LOW
  <2> QED
    BY <2>1 DEF Before
<1>4. ASSUME NEW x \in Items(h, p), NEW y \in Items(h, p), x # y
      PROVE  x.sequence # y.sequence
  <2>1. x \in h /\ y \in h /\ x.priority = y.priority
    BY DEF Items
  <2>2. x.arrival # y.arrival
    BY <1>4, <2>1 DEF LaneOrder
  <2>3. x.arrival < y.arrival \/ y.arrival < x.arrival
    BY <1>2, <2>1, <2>2
  <2>4. x.sequence < y.sequence \/ y.sequence < x.sequence
    BY <2>1, <2>3 DEF LaneOrder
  <2> QED
    BY <1>2, <2>1, <2>4
<1>5. \A x \in Items(h, p) : x.sequence \in Int
  BY <1>2 DEF Items
<1>6. \A x, y \in Items(h, p) : x # y => Before(x, y) \/ Before(y, x)
  BY <1>3, <1>4, <1>5
<1>7. \A x, y \in Items(h, p) : ~(Before(x, y) /\ Before(y, x))
  BY <1>3, <1>5
<1>8. \A x, y, z \in Items(h, p) : Before(x, y) /\ Before(y, z) => Before(x, z)
  BY <1>3, <1>5
<1> QED
  BY <1>1, <1>6, <1>7, <1>8 DEF Ordered

(* A push is a put. *)
LEMMA PushPuts ==
  ASSUME LaneInv, LaneInv', NEW u \in Producer, NEW c \in Context, NEW p \in ContextPriority,
         Push(u, c, p)
  PROVE  LanesIn(heap') = Put(LanesIn(heap), c, p)
<1> DEFINE n == [priority |-> p, sequence |-> _counter_dict[p],
                 item |-> c, arrival |-> arrivals]
           S == Items(heap, p)
<1>1. /\ heap' = heap \cup {n} /\ holder = NoProducer
      /\ n.priority = p /\ n.sequence = _counter_dict[p] /\ n.arrival = arrivals /\ n.item = c
  BY DEF Push
<1> HIDE DEF n
<1>2. ASSUME NEW x \in S
      PROVE  /\ x.priority = p /\ x \in heap /\ x.arrival < arrivals
             /\ IF p = LIFO THEN n.sequence < x.sequence ELSE x.sequence < n.sequence
  BY <1>1 DEF Items, LaneInv, HeapInv, CountersFresh
<1>3. n \notin S
  <2>1. arrivals \in Nat
    BY DEF LaneInv, HeapInv, TypeOK
  <2> QED
    BY <1>1, <1>2, <2>1
<1>4. Items(heap', p) = S \cup {n}
  BY <1>1 DEF Items
<1>5. \A r \in ContextPriority : r # p => Items(heap', r) = Items(heap, r)
  BY <1>1 DEF Items
<1>6. Ordered(S) /\ Ordered(S \cup {n})
  <2>1. Ordered(Items(heap, p))
    BY LaneOrders, LanesOrdered
  <2>2. Ordered(Items(heap', p))
    BY LaneOrders, LanesOrdered
  <2> QED
    BY <1>4, <2>1, <2>2
<1>7. LaneOf(Items(heap', p)) = IF p = LIFO THEN Cons(c, LaneOf(S)) ELSE Append(LaneOf(S), c)
  <2>1. CASE p = LIFO
    <3>1. \A x \in S : Before(n, x)
      BY <1>1, <1>2, <2>1 DEF Before
    <3>2. LaneOf(S \cup {n}) = Cons(n.item, LaneOf(S))
      BY <1>3, <1>6, <3>1, LaneConses
    <3> QED
      BY <1>1, <1>4, <2>1, <3>2
  <2>2. CASE p # LIFO
    <3>1. \A x \in S : Before(x, n)
      BY <1>1, <1>2, <2>2 DEF Before
    <3>2. LaneOf(S \cup {n}) = Append(LaneOf(S), n.item)
      BY <1>3, <1>6, <3>1, LaneAppends
    <3> QED
      BY <1>1, <1>4, <2>2, <3>2
  <2> QED
    BY <2>1, <2>2
<1>8. \A r \in ContextPriority :
        LanesIn(heap')[r] = IF r = p THEN IF p = LIFO THEN Cons(c, LanesIn(heap)[r])
                                                      ELSE Append(LanesIn(heap)[r], c)
                            ELSE LanesIn(heap)[r]
  BY <1>5, <1>7 DEF LanesIn
<1> QED
  BY <1>8 DEF LanesIn, Put

(* A get takes the first of the first lane that has any. *)
LEMMA GetPops ==
  ASSUME LaneInv, NEW x \in heap, \A y \in heap : ~Before(y, x), heap' = heap \ {x}
  PROVE  ~IsEmpty(LanesIn(heap)) /\ LanesIn(heap') = Pop(LanesIn(heap))
<1> DEFINE p == x.priority
           T == Items(heap', p)
           q == LanesIn(heap)
<1>1. p \in ContextPriority /\ \A y \in heap : y.priority \in ContextPriority
  BY DEF LaneInv, HeapInv, TypeOK, PrioritizedItem
<1>2. x \notin T /\ Items(heap, p) = T \cup {x}
  BY DEF Items
<1>3. \A r \in ContextPriority : r # p => Items(heap', r) = Items(heap, r)
  BY DEF Items
<1>4. Ordered(Items(heap, p)) /\ Ordered(T)
  <2>1. Ordered(Items(heap, p))
    BY <1>1, LaneOrders, LanesOrdered
  <2> HIDE DEF T
  <2> QED
    BY <1>2, <2>1, OrderedSubset
<1>5. \A y \in T : Before(x, y)
  <2> SUFFICES ASSUME NEW y \in T PROVE Before(x, y)
    OBVIOUS
  <2>1. y \in Items(heap, p) /\ x \in Items(heap, p) /\ x # y /\ y \in heap
    BY <1>2 DEF Items
  <2>2. Before(x, y) \/ Before(y, x)
    BY <1>4, <2>1 DEF Ordered
  <2> QED
    BY <2>1, <2>2
<1>6. LaneOf(Items(heap, p)) = Cons(x.item, LaneOf(T))
  <2> HIDE DEF T
  <2> QED
    BY <1>2, <1>4, <1>5, LaneConses
<1>7. q[p] # <<>> /\ Tail(q[p]) = LaneOf(T)
  <2>1. LaneOf(T) \in Seq({y.item : y \in T})
    BY <1>4, LaneEmpty
  <2>2. q[p] = <<x.item>> \o LaneOf(T)
    BY <1>1, <1>6 DEF LanesIn, Cons
  <2> DEFINE U == {y.item : y \in T} \cup {x.item}
             a == LaneOf(T)
             e == x.item
  <2>3. a \in Seq(U) /\ e \in U
    <3>1. {y.item : y \in T} \subseteq U
      OBVIOUS
    <3> HIDE DEF T
    <3> QED
      BY <2>1, <3>1, SeqMonotonic
  <2> HIDE DEF U, a, e
  <2>4. /\ <<e>> \o a # <<>> /\ Tail(<<e>> \o a) = a
    BY <2>3
  <2> QED
    BY <2>2, <2>4 DEF a, e
<1>8. \A r \in ContextPriority : r < p => q[r] = <<>>
  <2> SUFFICES ASSUME NEW r \in ContextPriority, r < p PROVE q[r] = <<>>
    OBVIOUS
  <2>1. Items(heap, r) = {}
    <3> SUFFICES ASSUME NEW y \in heap, y.priority = r PROVE FALSE
      BY DEF Items
    <3>1. Before(y, x)
      BY DEF Before
    <3> QED
      BY <3>1
  <2>2. Ordered(Items(heap, r))
    BY LaneOrders, LanesOrdered
  <2> QED
    BY <2>1, <2>2, LaneEmpty DEF LanesIn
<1>9. ServedLane(q) = p
  <2>1. ASSUME NEW r \in ContextPriority, q[r] # <<>>,
               \A s \in ContextPriority : s < r => q[s] = <<>>
        PROVE  r = p
    <3>1. ~(r < p) /\ ~(p < r)
      BY <1>1, <1>7, <1>8, <2>1
    <3> QED
      BY <1>1, <3>1 DEF ContextPriority, LIFO, FIFO_HIGH, FIFO_LOW
  <2> HIDE DEF p, q
  <2> QED
    BY <1>1, <1>7, <1>8, <2>1 DEF ServedLane
<1>10. ~IsEmpty(q)
  BY <1>1, <1>7 DEF IsEmpty
<1>11. \A r \in ContextPriority : LanesIn(heap')[r] = IF r = p THEN Tail(q[r]) ELSE q[r]
  <2>1. LanesIn(heap')[p] = LaneOf(T)
    BY <1>1 DEF LanesIn
  <2>2. \A r \in ContextPriority : r # p => LanesIn(heap')[r] = q[r]
    BY <1>3 DEF LanesIn
  <2> HIDE DEF p, q, T
  <2> QED
    BY <2>1, <2>2, <1>7
<1> QED
  BY <1>9, <1>10, <1>11 DEF LanesIn, Pop

(* The heap, its counters and its two locks promise no more and no less    *)
(* than the lanes: puts that are two steps, with gets between, act as the  *)
(* put of a context into its lane, and a get as the pop of the first.      *)
THEOREM HeapImplementsLanes == HeapSpec => Implements
<1> DEFINE lanes == [p \in ContextPriority |-> Lane(p)]
<1>1. HeapInit => IsFiniteSet(heap)
  BY FS_EmptySet DEF HeapInit
<1>2. IsFiniteSet(heap) /\ [HeapNext]_heapVars => IsFiniteSet(heap)'
  <2> SUFFICES ASSUME IsFiniteSet(heap), [HeapNext]_heapVars PROVE IsFiniteSet(heap')
    OBVIOUS
  <2>1. ASSUME NEW u \in Producer, NEW c \in Context, NEW p \in ContextPriority, Push(u, c, p)
        PROVE  IsFiniteSet(heap')
    BY <2>1, FS_AddElement DEF Push
  <2>2. ASSUME NEW u \in Producer, Bump(u) PROVE IsFiniteSet(heap')
    BY <2>2 DEF Bump
  <2>3. CASE Get
    BY <2>3, FS_RemoveElement DEF Get
  <2>4. CASE UNCHANGED heapVars
    BY <2>4 DEF heapVars
  <2> QED
    BY <2>1, <2>2, <2>3, <2>4 DEF HeapNext
<1>3. HeapSpec => []LaneInv
  BY <1>1, <1>2, HeapInvariant, PTL DEF HeapSpec, LaneInv
<1>4. HeapInit => LQ!Init
  <2> SUFFICES ASSUME HeapInit PROVE lanes = EmptyLanes
    BY DEF LQ!Init, LQ!EmptyLanes, LQ!ContextPriority, LQ!LIFO, LQ!FIFO_HIGH, LQ!FIFO_LOW,
           EmptyLanes, ContextPriority, LIFO, FIFO_HIGH, FIFO_LOW
  <2>1. \A p \in ContextPriority : Items(heap, p) = {}
    BY DEF HeapInit, Items
  <2>2. Ordered({}) 
    BY FS_EmptySet DEF Ordered
  <2>3. LaneOf({}) = <<>>
    BY <2>2, LaneEmpty
  <2> QED
    BY <2>1, <2>3, LanesMap DEF LanesIn, EmptyLanes
<1>5. /\ LQ!ContextPriority = ContextPriority
      /\ \A q, c, p : LQ!Put(q, c, p) = Put(q, c, p)
      /\ \A q : LQ!IsEmpty(q) = IsEmpty(q) /\ LQ!Pop(q) = Pop(q)
  BY DEF LQ!ContextPriority, LQ!LIFO, LQ!FIFO_HIGH, LQ!FIFO_LOW, LQ!Put, LQ!IsEmpty, LQ!Pop,
         LQ!ServedLane, LQ!Cons, ContextPriority, LIFO, FIFO_HIGH, FIFO_LOW, Put, IsEmpty,
         Pop, ServedLane, Cons
<1>6. LaneInv /\ LaneInv' /\ [HeapNext]_heapVars => [LQ!Next]_lanes
  <2> SUFFICES ASSUME LaneInv, LaneInv', [HeapNext]_heapVars PROVE LQ!Next \/ lanes' = lanes
    OBVIOUS
  <2>0. lanes = LanesIn(heap) /\ lanes' = LanesIn(heap')
    BY LanesMap
  <2> HIDE DEF lanes
  <2>1. ASSUME NEW u \in Producer, NEW c \in Context, NEW p \in ContextPriority, Push(u, c, p)
        PROVE  LQ!Next
    <3>1. lanes' = Put(lanes, c, p)
      BY <2>0, <2>1, PushPuts
    <3> QED
      BY <1>5, <3>1 DEF LQ!Next, LQ!PutContext, lanes
  <2>2. ASSUME NEW u \in Producer, Bump(u) PROVE lanes' = lanes
    BY <2>0, <2>2 DEF Bump
  <2>3. CASE Get
    <3>1. PICK x \in heap : (\A y \in heap : ~Before(y, x)) /\ heap' = heap \ {x}
      BY <2>3 DEF Get
    <3>2. ~IsEmpty(lanes) /\ lanes' = Pop(lanes)
      BY <2>0, <3>1, GetPops
    <3> QED
      BY <1>5, <3>2 DEF LQ!Next, LQ!GetContext, lanes
  <2>4. CASE UNCHANGED heapVars
    BY <2>0, <2>4 DEF heapVars
  <2> QED
    BY <2>1, <2>2, <2>3, <2>4 DEF HeapNext
<1> HIDE DEF lanes
<1> QED
  BY <1>3, <1>4, <1>6, PTL DEF HeapSpec, Implements, LQ!Spec, lanes

-----------------------------------------------------------------------------
(* The mixed queue.                                                        *)

State == {"idle", "waiting", "scheduled", "woken", "cancelled"}

QueueType ==
  /\ size \in Nat
  /\ _maxsize > 0 => size <= _maxsize
  /\ pc \in [Agent -> State]
  /\ waiters \in [Op -> Seq(Agent)]
  /\ spoiled \subseteq Op

Distinct(s) == \A i, j \in DOMAIN s : s[i] = s[j] => i = j

(* What DequeExact says of the deque s for o, with the states f. *)
Exact(o, s, f) ==
  /\ s \in Seq(Agent)
  /\ Distinct(s)
  /\ \A a \in Agent : a \in Coroutine /\ OpOf(a) = o /\ f[a] = "waiting" => a \in ToSet(s)
  /\ \A a \in ToSet(s) : /\ a \in Agent /\ a \in Coroutine /\ OpOf(a) = o
                         /\ f[a] \in {"waiting", "cancelled"}

(* A cancelled call was counted as such. *)
Spoils == \A a \in Agent : pc[a] = "cancelled" => OpOf(a) \in spoiled

(* An agent always makes one kind of call. *)
LEMMA OpOfType == \A a : OpOf(a) \in Op
BY DEF OpOf, Op

(* Removing an element from a deque without duplicates. *)
LEMMA RemovedFacts ==
  ASSUME NEW s \in Seq(Agent), Distinct(s), NEW a
  PROVE  /\ Removed(s, a) \in Seq(Agent)
         /\ Distinct(Removed(s, a))
         /\ ToSet(Removed(s, a)) = ToSet(s) \ {a}
<1>1. CASE a \notin ToSet(s)
  BY <1>1 DEF Removed
<1>2. CASE a \in ToSet(s)
  <2> DEFINE i == CHOOSE i \in DOMAIN s : s[i] = a
             r == RemoveAt(s, i)
             n == Len(s)
  <2>1. i \in 1 .. n /\ s[i] = a /\ n \in Nat
    BY <1>2 DEF ToSet
  <2> HIDE DEF i
  <2> DEFINE p == SubSeq(s, 1, i - 1)
             q == SubSeq(s, i + 1, n)
             e(k) == IF k < i THEN k ELSE k + 1
  <2>2. /\ r \in Seq(Agent) /\ Len(r) = n - 1
        /\ \A k \in 1 .. n - 1 : r[k] = s[e(k)]
    <3>1. p \in Seq(Agent) /\ Len(p) = i - 1 /\ \A k \in 1 .. i - 1 : p[k] = s[k]
      BY <2>1
    <3>2. q \in Seq(Agent) /\ Len(q) = n - i /\ \A k \in 1 .. n - i : q[k] = s[i + k]
      BY <2>1
    <3>3. r = p \o q
      BY DEF RemoveAt
    <3> HIDE DEF p, q, r, n
    <3>6. /\ p \o q \in Seq(Agent) /\ Len(p \o q) = Len(p) + Len(q)
          /\ \A k \in 1 .. Len(p) + Len(q) :
               (p \o q)[k] = IF k <= Len(p) THEN p[k] ELSE q[k - Len(p)]
      BY <3>1, <3>2, ConcatProperties
    <3>4. r \in Seq(Agent) /\ Len(r) = n - 1
      <4>1. Len(p) + Len(q) = n - 1
        BY <3>1, <3>2, <2>1
      <4> QED BY <4>1, <3>3, <3>6
    <3>5. ASSUME NEW k \in 1 .. n - 1 PROVE r[k] = s[e(k)]
      <4>1. CASE k < i
        BY <4>1, <3>1, <3>2, <3>3, <3>6, <2>1
      <4>2. CASE k >= i
        <5>1. k - (i - 1) \in 1 .. n - i /\ i + (k - (i - 1)) = k + 1
          BY <4>2, <2>1
        <5>2. r[k] = q[k - (i - 1)]
          BY <4>2, <3>1, <3>2, <3>3, <3>6, <2>1
        <5> QED BY <5>1, <5>2, <3>2, <4>2, <2>1
      <4> QED BY <4>1, <4>2, <2>1
    <3> QED BY <3>4, <3>5
  <2> HIDE DEF r
  <2>3. DOMAIN r = 1 .. n - 1 /\ DOMAIN s = 1 .. n
    BY <2>1, <2>2
  <2> HIDE DEF n
  <2>i. \A j, k \in 1 .. n - 1 : e(k) \in 1 .. n /\ e(k) # i /\ (e(j) = e(k) => j = k)
    BY <2>1
  <2> HIDE DEF e
  <2>4. Distinct(r)
    <3> SUFFICES ASSUME NEW j \in 1 .. n - 1, NEW k \in 1 .. n - 1, r[j] = r[k]
                 PROVE  j = k
      BY <2>3 DEF Distinct
    <3> QED BY <2>1, <2>2, <2>3, <2>i DEF Distinct
  <2>5. ToSet(r) \subseteq ToSet(s) \ {a}
    <3> SUFFICES ASSUME NEW k \in 1 .. n - 1 PROVE r[k] \in ToSet(s) /\ r[k] # a
      BY <2>3 DEF ToSet
    <3> QED BY <2>1, <2>2, <2>3, <2>i DEF Distinct, ToSet
  <2>6. ToSet(s) \ {a} \subseteq ToSet(r)
    <3> SUFFICES ASSUME NEW k \in 1 .. n, s[k] # a PROVE s[k] \in ToSet(r)
      BY <2>3 DEF ToSet
    <3>1. CASE k < i
      <4>1. k \in 1 .. n - 1 /\ r[k] = s[k]
        BY <3>1, <2>1, <2>2 DEF e
      <4> QED BY <4>1, <2>3 DEF ToSet
    <3>2. CASE k > i
      <4>1. k - 1 \in 1 .. n - 1 /\ r[k - 1] = s[k]
        BY <3>2, <2>1, <2>2 DEF e
      <4> QED BY <4>1, <2>3 DEF ToSet
    <3> QED BY <3>1, <3>2, <2>1
  <2>7. Removed(s, a) = r
    BY <1>2 DEF Removed, i, r
  <2> QED BY <2>2, <2>4, <2>5, <2>6, <2>7
<1> QED BY <1>1, <1>2

(* Every set of natural numbers that is not empty has a least element. *)
LEMMA Least ==
  ASSUME NEW T, T \subseteq Nat, T # {}
  PROVE  \E x \in T : \A y \in T : x <= y
<1>1. PICK n \in T : TRUE
  OBVIOUS
<1> DEFINE F == {0 .. k : k \in {i \in T : i <= n}}
<1>2. IsFiniteSet(0 .. n)
  BY <1>1, FS_Interval
<1>3. IsWellFoundedOn(StrictSubsetOrdering(0 .. n), SUBSET (0 .. n))
  BY <1>2, FS_StrictSubsetOrderingWellFounded, FS_FiniteSubsetsOfFinite
<1>4. F \subseteq SUBSET (0 .. n) /\ F # {}
  BY <1>1
<1>5. PICK X \in F : \A Y \in F : <<Y, X>> \notin StrictSubsetOrdering(0 .. n)
  BY <1>3, <1>4, WFMin
<1>6. PICK x \in T : x <= n /\ X = 0 .. x
  BY <1>5
<1>7. ASSUME NEW y \in T PROVE x <= y
  <2> SUFFICES ASSUME y < x PROVE FALSE
    BY <1>1, <1>6
  <2>1. 0 .. y \in F
    BY <1>6, <1>1
  <2>2. (0 .. y) \subseteq (0 .. x) /\ 0 .. y # 0 .. x
    BY <1>6
  <2> QED BY <2>1, <2>2, <1>5, <1>6, <1>4 DEF StrictSubsetOrdering
<1> QED BY <1>7

AllExact(w, f) == \A o \in Op : Exact(o, w[o], f)

(* _wakeup_next: it schedules one waiting coroutine, or all futures in the *)
(* deque were cancelled.                                                   *)
LEMMA Pops ==
  ASSUME NEW o \in Op, NEW f \in [Agent -> State], waiters \in [Op -> Seq(Agent)],
         AllExact(waiters, f), WakeupNext(o, f)
  PROVE  /\ waiters' \in [Op -> Seq(Agent)]
         /\ AllExact(waiters', pc')
         /\ \/ /\ pc' = f
               /\ \A a \in ToSet(waiters[o]) : f[a] = "cancelled"
            \/ \E b \in Agent : /\ OpOf(b) = o /\ f[b] = "waiting"
                               /\ pc' = [f EXCEPT ![b] = "scheduled"]
<1> DEFINE s == waiters[o]
           live == {i \in DOMAIN s : f[s[i]] # "cancelled"}
           first == CHOOSE i \in live : \A j \in live : i <= j
           n == Len(s)
<1>1. s \in Seq(Agent) /\ n \in Nat /\ DOMAIN s = 1 .. n /\ Exact(o, s, f)
  BY DEF AllExact
<1>2. CASE live = {}
  <2>1. waiters' = [waiters EXCEPT ![o] = <<>>] /\ pc' = f
    BY <1>2 DEF WakeupNext
  <2>2. \A a \in ToSet(s) : f[a] = "cancelled"
    BY <1>2 DEF ToSet
  <2>3. Exact(o, <<>>, f)
    BY <2>2, <1>1 DEF Exact, Distinct, ToSet
  <2>4. AllExact(waiters', pc')
    BY <2>1, <2>3 DEF AllExact
  <2> QED BY <2>1, <2>2, <2>4
<1>3. CASE live # {}
  <2>1. first \in live /\ \A j \in live : first <= j
    <3>1. live \subseteq Nat
      BY <1>1
    <3>2. \E i \in live : \A j \in live : i <= j
      BY <3>1, <1>3, Least
    <3> QED BY <3>2
  <2> DEFINE b == s[first]
             t == SubSeq(s, first + 1, n)
  <2>2. waiters' = [waiters EXCEPT ![o] = t] /\ pc' = [f EXCEPT ![b] = "scheduled"]
    BY <1>3 DEF WakeupNext
  <2>3. first \in 1 .. n /\ f[b] # "cancelled"
    BY <2>1, <1>1
  <2>4. \A j \in 1 .. n : j < first => f[s[j]] = "cancelled"
    BY <2>1, <2>3, <1>1
  <2> HIDE DEF first, live
  <2>5. b \in Agent /\ b \in Coroutine /\ OpOf(b) = o /\ f[b] = "waiting"
    BY <2>3, <1>1 DEF Exact, ToSet
  <2>6. t \in Seq(Agent) /\ Len(t) = n - first /\ \A k \in 1 .. n - first : t[k] = s[first + k]
    <3>1. s \in Seq(Agent) /\ n = Len(s) /\ n \in Nat
      BY <1>1
    <3> HIDE DEF s
    <3> QED BY <2>3, <3>1
  <2> HIDE DEF t, n
  <2>7. DOMAIN t = 1 .. n - first
    BY <2>6
  <2>8. Distinct(t)
    <3> SUFFICES ASSUME NEW j \in 1 .. n - first, NEW k \in 1 .. n - first, t[j] = t[k]
                 PROVE  j = k
      BY <2>7 DEF Distinct
    <3>1. first + j \in 1 .. n /\ first + k \in 1 .. n
      BY <2>3, <1>1
    <3>2. first + j = first + k
      BY <3>1, <2>6, <1>1 DEF Exact, Distinct
    <3> QED BY <3>2, <2>3
  <2>9. ASSUME NEW a \in ToSet(t) PROVE a \in ToSet(s) /\ a # b
    <3>1. PICK k \in 1 .. n - first : a = t[k]
      BY <2>7 DEF ToSet
    <3>2. first + k \in 1 .. n /\ first + k # first /\ a = s[first + k]
      BY <3>1, <2>3, <2>6, <1>1
    <3> QED BY <3>2, <2>3, <1>1 DEF Exact, Distinct, ToSet
  <2>10. ASSUME NEW a \in ToSet(s), f[a] = "waiting", a # b PROVE a \in ToSet(t)
    <3>1. PICK j \in 1 .. n : a = s[j]
      BY <1>1 DEF ToSet
    <3>2. j > first
      BY <3>1, <2>3, <2>4, <2>10
    <3>3. j - first \in 1 .. n - first /\ first + (j - first) = j
      BY <3>2, <2>3, <1>1
    <3>4. t[j - first] = a
      BY <3>1, <3>3, <2>6
    <3> QED BY <3>3, <3>4, <2>7 DEF ToSet
  <2>11. Exact(o, t, pc')
    <3> HIDE DEF b
    <3>1. \A a \in Agent : a # b => pc'[a] = f[a]
      BY <2>2
    <3>2. pc'[b] = "scheduled"
      BY <2>2, <2>5
    <3> QED BY <3>1, <3>2, <2>6, <2>8, <2>9, <2>10, <1>1 DEF Exact
  <2>12. ASSUME NEW x \in Op, x # o PROVE Exact(x, waiters[x], pc')
    <3> HIDE DEF b
    <3>1. \A a \in Agent : OpOf(a) = x => pc'[a] = f[a]
      BY <2>2, <2>5, <2>12
    <3> QED BY <3>1, <2>12 DEF AllExact, Exact
  <2>13. AllExact(waiters', pc') /\ waiters' \in [Op -> Seq(Agent)]
    BY <2>2, <2>6, <2>11, <2>12 DEF AllExact
  <2> QED BY <2>2, <2>5, <2>13
<1> QED BY <1>2, <1>3

(* Wake finds someone, unless nobody waits or a call was cancelled. *)
LEMMA Wakes ==
  ASSUME NEW o \in Op, NEW f \in [Agent -> State], waiters \in [Op -> Seq(Agent)],
         AllExact(waiters, f), Wake(o, f),
         \A a \in Agent : f[a] = "cancelled" => OpOf(a) \in spoiled,
         \A a \in Agent : OpOf(a) = o => (f[a] = "waiting" <=> pc[a] = "waiting")
  PROVE  /\ waiters' \in [Op -> Seq(Agent)]
         /\ AllExact(waiters', pc')
         /\ \/ /\ pc' = f
               /\ o \in spoiled \/ \A a \in Agent : OpOf(a) = o => f[a] # "waiting"
            \/ \E b \in Agent, l \in {"scheduled", "woken"} :
                 /\ OpOf(b) = o /\ f[b] = "waiting"
                 /\ pc' = [f EXCEPT ![b] = l]
<1>1. CASE waiters[o] # <<>>
  <2>1. WakeupNext(o, f)
    BY <1>1 DEF Wake
  <2>2. waiters[o][1] \in ToSet(waiters[o]) /\ ToSet(waiters[o]) \subseteq Agent
    BY <1>1 DEF ToSet
  <2>3. \A a \in ToSet(waiters[o]) : OpOf(a) = o
    BY DEF AllExact, Exact
  <2> QED BY <2>1, <2>2, <2>3, Pops
<1>2. CASE waiters[o] = <<>>
  <2>1. Notify(o, f) /\ waiters' = waiters
    BY <1>2 DEF Wake, Notify
  <2>2. \A a \in Agent \cap Coroutine : OpOf(a) = o => f[a] # "waiting"
    BY <1>2 DEF AllExact, Exact, ToSet
  <2>3. CASE Sleepers(o) = {}
    <3>1. pc' = f
      BY <2>1, <2>3 DEF Notify
    <3>2. \A a \in Agent : OpOf(a) = o => f[a] # "waiting"
      BY <2>2, <2>3 DEF Sleepers
    <3> QED BY <2>1, <3>1, <3>2
  <2>4. ASSUME NEW b \in Sleepers(o), pc' = [f EXCEPT ![b] = "woken"]
        PROVE  /\ AllExact(waiters', pc')
               /\ b \in Agent /\ OpOf(b) = o /\ f[b] = "waiting"
    <3>1. b \in Agent /\ OpOf(b) = o /\ f[b] = "waiting" /\ b \notin Coroutine
      BY DEF Sleepers
    <3>2. \A a \in Agent : a \in Coroutine => pc'[a] = f[a]
      BY <2>4, <3>1
    <3> QED BY <2>1, <3>1, <3>2 DEF AllExact, Exact
  <2> QED BY <2>1, <2>3, <2>4 DEF Notify
<1> QED BY <1>1, <1>2

-----------------------------------------------------------------------------
(* The invariant.                                                          *)

(* The agents of o that are on their way to the queue. *)
OnTheWay(o, f) == {a \in Agent : OpOf(a) = o /\ f[a] \in {"scheduled", "woken"}}

Going(o, f) == Cardinality(OnTheWay(o, f))

Offered(o) == IF o = "get" THEN size ELSE IF _maxsize > 0 THEN _maxsize - size ELSE 0

Waits(o) == \E a \in Agent : OpOf(a) = o /\ pc[a] = "waiting"

Cover == \A o \in {"get", "put"} : o \notin spoiled /\ Waits(o) => Going(o, pc) >= Offered(o)

QueueInv == QueueType /\ AllExact(waiters, pc) /\ Spoils /\ Cover

(* The agents on their way are finitely many. *)
LEMMA GoingType == \A o, f : IsFiniteSet(OnTheWay(o, f)) /\ Going(o, f) \in Nat
BY QueueAssumption, FS_Subset, FS_CardinalityType DEF OnTheWay, Going

(* The agent b moves; the others of o stay where they are. *)
LEMMA GoingSame ==
  ASSUME NEW o, NEW f, NEW g, \A a \in Agent : OpOf(a) = o => g[a] = f[a]
  PROVE  Going(o, g) = Going(o, f)
<1>1. OnTheWay(o, g) = OnTheWay(o, f)
  BY DEF OnTheWay
<1> QED BY <1>1 DEF Going

(* One more agent on its way. *)
LEMMA GoingUp ==
  ASSUME NEW o, NEW f, NEW g, NEW b \in Agent, \A a \in Agent \ {b} : g[a] = f[a],
         OpOf(b) = o, f[b] \in {"idle", "waiting"}, g[b] \in {"scheduled", "woken"}
  PROVE  Going(o, g) = Going(o, f) + 1
<1>1. OnTheWay(o, g) = OnTheWay(o, f) \cup {b} /\ b \notin OnTheWay(o, f)
  BY DEF OnTheWay
<1> QED BY <1>1, GoingType, FS_AddElement DEF Going

(* One agent less on its way. *)
LEMMA GoingDown ==
  ASSUME NEW o, NEW f, NEW g, NEW b \in Agent, \A a \in Agent \ {b} : g[a] = f[a],
         OpOf(b) = o, f[b] \in {"scheduled", "woken"}, g[b] \in {"idle", "waiting", "cancelled"}
  PROVE  Going(o, g) = Going(o, f) - 1
<1>1. OnTheWay(o, g) = OnTheWay(o, f) \ {b} /\ b \in OnTheWay(o, f)
  BY DEF OnTheWay
<1> QED BY <1>1, GoingType, FS_RemoveElement DEF Going

(* The queue starts with nobody waiting. *)
LEMMA QueueStarts == Init => QueueInv
<1> SUFFICES ASSUME Init PROVE QueueInv
  OBVIOUS
<1>1. QueueType
  BY QueueAssumption DEF Init, QueueType, State
<1>2. AllExact(waiters, pc) /\ Spoils /\ Cover
  BY DEF Init, AllExact, Exact, Distinct, ToSet, Spoils, Cover, Waits
<1> QED BY <1>1, <1>2 DEF QueueInv

(* An agent that is ready is in no deque; back to idle it changes none. *)
LEMMA ToIdle ==
  ASSUME QueueInv, NEW a \in Agent, Ready(a), NEW f, f = [pc EXCEPT ![a] = "idle"]
  PROVE  /\ f \in [Agent -> State]
         /\ AllExact(waiters, f)
         /\ \A b \in Agent : f[b] = "cancelled" => OpOf(b) \in spoiled
         /\ \A b \in Agent : f[b] = "waiting" <=> pc[b] = "waiting"
         /\ \A o \in Op : Going(o, f) \in Nat /\ Going(o, pc) \in Nat
         /\ \A o \in Op : OpOf(a) # o => Going(o, f) = Going(o, pc)
         /\ \A o \in Op : Going(o, f) >= Going(o, pc) - 1
<1> USE DEF QueueInv
<1>1. f \in [Agent -> State] /\ \A b \in Agent \ {a} : f[b] = pc[b]
  BY DEF QueueType, State
<1>2. pc[a] \in {"idle", "woken"} /\ f[a] = "idle"
  BY DEF Ready, QueueType
<1>3. AllExact(waiters, f)
  BY <1>1, <1>2 DEF AllExact, Exact
<1>4. \A b \in Agent : f[b] = "cancelled" => OpOf(b) \in spoiled
  BY <1>1, <1>2 DEF Spoils
<1>5. \A b \in Agent : f[b] = "waiting" <=> pc[b] = "waiting"
  BY <1>1, <1>2
<1>6. ASSUME NEW o \in Op
      PROVE  /\ Going(o, f) \in Nat /\ Going(o, pc) \in Nat
             /\ OpOf(a) # o => Going(o, f) = Going(o, pc)
             /\ Going(o, f) >= Going(o, pc) - 1
  <2>1. pc \in [Agent -> State]
    BY DEF QueueType
  <2>2. Going(o, f) \in Nat /\ Going(o, pc) \in Nat
    BY GoingType
  <2>3. OpOf(a) # o => Going(o, f) = Going(o, pc)
    BY <1>1, GoingSame
  <2>4. CASE pc[a] = "idle"
    <3>1. f = pc
      BY <2>1, <2>4
    <3> QED BY <2>2, <3>1
  <2>5. CASE pc[a] = "woken" /\ OpOf(a) = o
    <3>1. Going(o, f) = Going(o, pc) - 1
      BY <2>5, <1>1, <1>2, GoingDown
    <3> QED BY <2>2, <2>5, <3>1
  <2> QED BY <2>2, <2>3, <2>4, <2>5, <1>2
<1> QED BY <1>1, <1>3, <1>4, <1>5, <1>6

(* A put or a get: one more is offered to the other side o, which is woken *)
(* if somebody waits there, and one less to the side x of the agent.       *)
LEMMA Exchange ==
  ASSUME QueueInv, NEW a \in Agent, Ready(a), NEW o \in {"get", "put"}, NEW x \in {"get", "put"},
         x # o, OpOf(a) = x, UNCHANGED spoiled,
         size' \in Nat, _maxsize > 0 => size' <= _maxsize,
         Offered(o)' \in Int, Offered(x)' \in Int, Offered(o) \in Int, Offered(x) \in Int,
         Offered(o)' = Offered(o) + 1 \/ Offered(o)' = 0,
         Offered(x)' = Offered(x) - 1 \/ Offered(x)' = 0,
         \/ Wake(o, [pc EXCEPT ![a] = "idle"])
         \/ Offered(o)' = 0 /\ pc' = [pc EXCEPT ![a] = "idle"] /\ UNCHANGED waiters
  PROVE  QueueInv'
<1> DEFINE f == [pc EXCEPT ![a] = "idle"]
<1> USE DEF QueueInv
<1>0. pc \in [Agent -> State] /\ waiters \in [Op -> Seq(Agent)] /\ spoiled \subseteq Op
      /\ o \in Op /\ x \in Op /\ Cover /\ Spoils
  BY DEF QueueType, Op
<1>1. /\ f \in [Agent -> State]
      /\ AllExact(waiters, f)
      /\ \A b \in Agent : f[b] = "cancelled" => OpOf(b) \in spoiled
      /\ \A b \in Agent : f[b] = "waiting" <=> pc[b] = "waiting"
      /\ Going(o, f) \in Nat /\ Going(o, pc) \in Nat /\ Going(o, f) = Going(o, pc)
      /\ Going(x, f) \in Nat /\ Going(x, pc) \in Nat /\ Going(x, f) >= Going(x, pc) - 1
  BY <1>0, ToIdle
<1>x. x \notin spoiled /\ Waits(x) => Going(x, f) >= Offered(x)'
  <2>1. x \notin spoiled /\ Waits(x) => Going(x, pc) >= Offered(x)
    BY <1>0 DEF Cover
  <2> QED BY <2>1, <1>1
<1>2. CASE /\ pc' = f /\ AllExact(waiters', pc') /\ waiters' \in [Op -> Seq(Agent)]
           /\ \/ Offered(o)' = 0
              \/ o \in spoiled \/ \A b \in Agent : OpOf(b) = o => f[b] # "waiting"
  <2>1. QueueType' /\ Spoils'
    BY <1>0, <1>1, <1>2 DEF QueueType, Spoils
  <2>2. \A y : Waits(y)' <=> Waits(y)
    BY <1>1, <1>2 DEF Waits
  <2>3. o \notin spoiled' /\ Waits(o)' => Going(o, pc') >= Offered(o)'
    <3>1. CASE Offered(o)' = 0
      BY <3>1, <1>1, <1>2
    <3>2. CASE o \in spoiled \/ \A b \in Agent : OpOf(b) = o => f[b] # "waiting"
      BY <3>2, <1>1, <1>2 DEF Waits
    <3> QED BY <3>1, <3>2, <1>2
  <2>4. x \notin spoiled' /\ Waits(x)' => Going(x, pc') >= Offered(x)'
    BY <1>2, <1>x, <2>2
  <2>5. Cover'
    BY <2>3, <2>4 DEF Cover
  <2> QED BY <1>2, <2>1, <2>5
<1>3. ASSUME AllExact(waiters', pc'), waiters' \in [Op -> Seq(Agent)],
             NEW b \in Agent, NEW l \in {"scheduled", "woken"},
             OpOf(b) = o, f[b] = "waiting", pc' = [f EXCEPT ![b] = l]
      PROVE  QueueInv'
  <2> HIDE DEF f
  <2>1. /\ pc' \in [Agent -> State] /\ pc'[b] = l
        /\ \A c \in Agent \ {b} : pc'[c] = f[c]
    BY <1>1, <1>3 DEF State
  <2>2. QueueType'
    BY <1>0, <1>3, <2>1 DEF QueueType
  <2>3. Spoils'
    BY <1>1, <2>1 DEF Spoils
  <2>4. Going(o, pc') = Going(o, f) + 1
    <3>1. f[b] \in {"idle", "waiting"} /\ pc'[b] \in {"scheduled", "woken"}
      BY <1>3, <2>1
    <3>2. OpOf(b) = o /\ \A c \in Agent \ {b} : pc'[c] = f[c]
      BY <1>3, <2>1
    <3> QED BY <3>1, <3>2, GoingUp
  <2>5. Going(x, pc') = Going(x, f)
    <3>1. \A c \in Agent : OpOf(c) = x => pc'[c] = f[c]
      BY <1>3, <2>1
    <3> QED BY <3>1, GoingSame
  <2>6. \A y : Waits(y)' => Waits(y)
    BY <1>1, <2>1 DEF Waits
  <2>7. o \notin spoiled' /\ Waits(o)' => Going(o, pc') >= Offered(o)'
    <3>1. o \notin spoiled /\ Waits(o) => Going(o, pc) >= Offered(o)
      BY <1>0 DEF Cover
    <3> QED BY <3>1, <2>4, <2>6, <1>1
  <2>8. x \notin spoiled' /\ Waits(x)' => Going(x, pc') >= Offered(x)'
    BY <2>5, <2>6, <1>x
  <2>9. Cover'
    BY <2>7, <2>8 DEF Cover
  <2> QED BY <1>3, <2>2, <2>3, <2>9
<1>4. CASE Wake(o, f)
  <2> HIDE DEF f
  <2>1. /\ waiters' \in [Op -> Seq(Agent)]
        /\ AllExact(waiters', pc')
        /\ \/ /\ pc' = f
              /\ o \in spoiled \/ \A b \in Agent : OpOf(b) = o => f[b] # "waiting"
           \/ \E b \in Agent, l \in {"scheduled", "woken"} :
                /\ OpOf(b) = o /\ f[b] = "waiting"
                /\ pc' = [f EXCEPT ![b] = l]
    BY <1>0, <1>1, <1>4, Wakes
  <2> QED BY <2>1, <1>2, <1>3
<1>5. CASE Offered(o)' = 0 /\ pc' = f /\ UNCHANGED waiters
  BY <1>5, <1>0, <1>1, <1>2
<1> QED BY <1>4, <1>5

(* Steps of one agent a that offer no more: to wait when nothing is        *)
(* offered, to run on after a callback, or to leave after a cancel.        *)
LEMMA Quiet ==
  ASSUME QueueInv, NEW a \in Agent, pc' \in [Agent -> State], size' = size,
         \A b \in Agent \ {a} : pc'[b] = pc[b],
         waiters' \in [Op -> Seq(Agent)], AllExact(waiters', pc'),
         spoiled' = IF pc'[a] = "cancelled" THEN spoiled \cup {OpOf(a)} ELSE spoiled,
         \/ /\ pc'[a] = "waiting"
            /\ OpOf(a) \in {"get", "put"} => Offered(OpOf(a)) <= 0
         \/ pc[a] = "scheduled" /\ pc'[a] = "woken"
         \/ pc'[a] = "cancelled"
         \/ pc[a] = "cancelled" /\ pc'[a] = "idle"
         \/ OpOf(a) = "join"
  PROVE  QueueInv'
<1> USE DEF QueueInv
<1>1. QueueType'
  BY OpOfType DEF QueueType
<1>2. Spoils'
  BY DEF Spoils
<1>3. ASSUME NEW o \in {"get", "put"}, o \notin spoiled', Waits(o)'
      PROVE  Going(o, pc') >= Offered(o)'
  <2>1. Offered(o)' = Offered(o) /\ Offered(o) \in Int /\ Going(o, pc') \in Nat /\ Going(o, pc) \in Nat
    BY QueueAssumption, GoingType DEF Offered, QueueType
  <2>2. o \notin spoiled
    BY <1>3
  <2>3. CASE OpOf(a) # o
    <3>1. \A b \in Agent : OpOf(b) = o => pc'[b] = pc[b]
      BY <2>3
    <3>2. Going(o, pc') = Going(o, pc)
      BY <3>1, GoingSame
    <3>3. Waits(o)
      BY <3>1, <1>3 DEF Waits
    <3> QED BY <2>1, <2>2, <3>2, <3>3 DEF Cover
  <2>4. CASE OpOf(a) = o /\ pc'[a] = "waiting" /\ Offered(o) <= 0
    BY <2>1, <2>4
  <2>5. CASE OpOf(a) = o /\ pc[a] = "scheduled" /\ pc'[a] = "woken"
    <3>1. OnTheWay(o, pc') = OnTheWay(o, pc)
      BY <2>5 DEF OnTheWay
    <3>2. Waits(o)
      BY <2>5, <1>3 DEF Waits
    <3> QED BY <2>1, <2>2, <3>1, <3>2 DEF Cover, Going
  <2>6. CASE OpOf(a) = o /\ pc[a] = "cancelled"
    BY <2>2, <2>6 DEF Spoils
  <2>7. CASE OpOf(a) = o /\ pc'[a] = "cancelled"
    BY <1>3, <2>7
  <2> QED BY <2>3, <2>4, <2>5, <2>6, <2>7
<1>4. Cover'
  BY <1>3 DEF Cover
<1> QED BY <1>1, <1>2, <1>4

(* A wait: the agent joins the end of its deque, or sleeps in a condition. *)
LEMMA Registers ==
  ASSUME QueueInv, NEW a \in Agent, Ready(a), Register(a),
         OpOf(a) \in {"get", "put"} => Offered(OpOf(a)) <= 0
  PROVE  QueueInv'
<1> USE DEF QueueInv
<1>1. /\ pc' \in [Agent -> State] /\ pc'[a] = "waiting" /\ \A b \in Agent \ {a} : pc'[b] = pc[b]
      /\ pc[a] \in {"idle", "woken"} /\ OpOf(a) \in Op /\ size' = size /\ spoiled' = spoiled
  BY OpOfType DEF Register, QueueType, State, Ready
<1>2. CASE a \notin Coroutine
  <2>1. waiters' = waiters
    BY <1>2 DEF Register
  <2>2. AllExact(waiters', pc')
    BY <1>1, <1>2, <2>1 DEF AllExact, Exact
  <2> QED BY <1>1, <2>1, <2>2, Quiet DEF QueueType
<1>3. CASE a \in Coroutine
  <2> DEFINE o == OpOf(a)
             s == waiters[o]
             t == Append(s, a)
             n == Len(s)
  <2>1. waiters' = [waiters EXCEPT ![o] = t]
    BY <1>3 DEF Register
  <2>2. s \in Seq(Agent) /\ Exact(o, s, pc) /\ n \in Nat /\ DOMAIN s = 1 .. n
    BY <1>1 DEF QueueType, AllExact
  <2>3. a \notin ToSet(s)
    BY <1>1, <2>2 DEF Exact
  <2>4. /\ t \in Seq(Agent) /\ DOMAIN t = 1 .. n + 1
        /\ t[n + 1] = a /\ \A i \in 1 .. n : t[i] = s[i]
    BY <2>2
  <2> HIDE DEF t, n, s
  <2>5. \A i \in 1 .. n : t[i] \in ToSet(s) /\ t[i] # a
    BY <2>2, <2>3, <2>4 DEF ToSet
  <2>6. ToSet(t) = ToSet(s) \cup {a}
    <3>1. ToSet(t) \subseteq ToSet(s) \cup {a}
      <4> SUFFICES ASSUME NEW i \in 1 .. n + 1 PROVE t[i] \in ToSet(s) \cup {a}
        BY <2>4 DEF ToSet
      <4>1. i \in 1 .. n \/ i = n + 1
        BY <2>2
      <4> QED BY <4>1, <2>4, <2>5
    <3>2. ToSet(s) \subseteq ToSet(t)
      <4> SUFFICES ASSUME NEW i \in 1 .. n PROVE s[i] \in ToSet(t)
        BY <2>2 DEF ToSet
      <4>1. i \in 1 .. n + 1
        BY <2>2
      <4> QED BY <4>1, <2>4 DEF ToSet
    <3>3. a \in ToSet(t)
      <4>1. n + 1 \in 1 .. n + 1
        BY <2>2
      <4> QED BY <4>1, <2>4 DEF ToSet
    <3> QED BY <3>1, <3>2, <3>3
  <2>7. Distinct(t)
    <3> SUFFICES ASSUME NEW i \in 1 .. n + 1, NEW j \in 1 .. n + 1, t[i] = t[j]
                 PROVE  i = j
      BY <2>4 DEF Distinct
    <3>1. (i \in 1 .. n \/ i = n + 1) /\ (j \in 1 .. n \/ j = n + 1)
      BY <2>2
    <3>2. CASE i \in 1 .. n /\ j \in 1 .. n
      BY <3>2, <2>2, <2>4 DEF Exact, Distinct
    <3> QED BY <3>1, <3>2, <2>4, <2>5
  <2>8. Exact(o, t, pc')
    BY <1>1, <1>3, <2>2, <2>4, <2>6, <2>7 DEF Exact
  <2>9. ASSUME NEW x \in Op, x # o PROVE Exact(x, waiters[x], pc')
    <3>1. Exact(x, waiters[x], pc)
      BY DEF AllExact
    <3>2. \A b \in Agent : OpOf(b) = x => pc'[b] = pc[b]
      BY <1>1, <2>9
    <3> QED BY <3>1, <3>2 DEF Exact
  <2>10. waiters' \in [Op -> Seq(Agent)] /\ AllExact(waiters', pc')
    BY <1>1, <2>1, <2>4, <2>8, <2>9 DEF QueueType, AllExact
  <2> QED BY <1>1, <2>10, Quiet
<1> QED BY <1>2, <1>3

(* Every agent keeps to its kind of call. *)
LEMMA Kinds ==
  /\ \A a \in Getter : a \in Agent /\ OpOf(a) = "get"
  /\ \A a \in Putter : a \in Agent /\ OpOf(a) = "put"
  /\ \A a \in Joiner : a \in Agent /\ OpOf(a) = "join"
BY QueueAssumption DEF Agent, OpOf

(* The steps of put keep the invariant. *)
LEMMA Puts ==
  ASSUME QueueInv, NEW a \in Agent, PutItem(a)
  PROVE  QueueInv'
<1>1. /\ Ready(a) /\ OpOf(a) = "put" /\ size' = size + 1 /\ spoiled' = spoiled
      /\ Wake("get", [pc EXCEPT ![a] = "idle"]) /\ ~Full
  BY Kinds DEF PutItem
<1>2. size \in Nat /\ _maxsize \in Nat /\ (_maxsize > 0 => size' <= _maxsize)
  BY <1>1, QueueAssumption DEF QueueInv, QueueType, Full
<1>3. /\ Offered("get")' = Offered("get") + 1
      /\ Offered("put")' = Offered("put") - 1 \/ Offered("put")' = 0
      /\ Offered("get") \in Int /\ Offered("put") \in Int
      /\ Offered("get")' \in Int /\ Offered("put")' \in Int
  BY <1>1, <1>2 DEF Offered
<1> QED BY <1>1, <1>2, <1>3, Exchange

(* The steps of get keep the invariant. *)
LEMMA Gets ==
  ASSUME QueueInv, NEW a \in Agent, GetItem(a)
  PROVE  QueueInv'
<1>1. /\ Ready(a) /\ OpOf(a) = "get" /\ size' = size - 1 /\ size > 0 /\ spoiled' = spoiled
      /\ IF _maxsize > 0
         THEN Wake("put", [pc EXCEPT ![a] = "idle"])
         ELSE pc' = [pc EXCEPT ![a] = "idle"] /\ UNCHANGED waiters
  BY Kinds DEF GetItem
<1>2. /\ size \in Nat /\ size' \in Nat /\ _maxsize \in Nat
      /\ _maxsize > 0 => size <= _maxsize /\ size' <= _maxsize
  BY <1>1, QueueAssumption DEF QueueInv, QueueType
<1>3. /\ Offered("get")' = Offered("get") - 1
      /\ IF _maxsize > 0 THEN Offered("put")' = Offered("put") + 1 ELSE Offered("put")' = 0
      /\ Offered("get") \in Int /\ Offered("put") \in Int
      /\ Offered("get")' \in Int /\ Offered("put")' \in Int
  BY <1>1, <1>2 DEF Offered
<1> QED BY <1>1, <1>2, <1>3, Exchange

(* task_done touches the agents in join only. *)
LEMMA Dones ==
  ASSUME QueueInv, TaskDone
  PROVE  QueueInv'
<1> USE DEF QueueInv
<1>1. size' = size /\ spoiled' = spoiled
  BY DEF TaskDone
<1>2. CASE UNCHANGED <<pc, waiters>>
  BY <1>1, <1>2 DEF QueueType, Spoils, Cover, Waits, Offered
<1>3. CASE WakeupNext("join", [a \in Agent |-> IF a \in Sleepers("join") THEN "woken" ELSE pc[a]])
  <2> DEFINE f == [a \in Agent |-> IF a \in Sleepers("join") THEN "woken" ELSE pc[a]]
  <2>1. /\ f \in [Agent -> State] /\ waiters \in [Op -> Seq(Agent)] /\ "join" \in Op
        /\ \A a \in Agent : OpOf(a) # "join" => f[a] = pc[a]
        /\ \A a \in Agent : a \in Coroutine => f[a] = pc[a]
        /\ \A a \in Agent : f[a] = "cancelled" => pc[a] = "cancelled"
    BY DEF QueueType, State, Op, Sleepers
  <2> HIDE DEF f
  <2>2. AllExact(waiters, f)
    BY <2>1 DEF AllExact, Exact
  <2>3. /\ waiters' \in [Op -> Seq(Agent)]
        /\ AllExact(waiters', pc')
        /\ \/ pc' = f
           \/ \E b \in Agent : OpOf(b) = "join" /\ pc' = [f EXCEPT ![b] = "scheduled"]
    <3>1. WakeupNext("join", f)
      BY <1>3 DEF f
    <3>2. \/ /\ pc' = f
             /\ \A a \in ToSet(waiters["join"]) : f[a] = "cancelled"
          \/ \E b \in Agent : /\ OpOf(b) = "join" /\ f[b] = "waiting"
                             /\ pc' = [f EXCEPT ![b] = "scheduled"]
      BY <2>1, <2>2, <3>1, Pops
    <3>3. waiters' \in [Op -> Seq(Agent)] /\ AllExact(waiters', pc')
      BY <2>1, <2>2, <3>1, Pops
    <3> QED BY <3>2, <3>3
  <2>4. /\ pc' \in [Agent -> State]
        /\ \A a \in Agent : OpOf(a) # "join" => pc'[a] = pc[a]
        /\ \A a \in Agent : pc'[a] = "cancelled" => pc[a] = "cancelled"
    BY <2>1, <2>3 DEF State
  <2>5. QueueType' /\ Spoils'
    BY <1>1, <2>3, <2>4 DEF QueueType, Spoils
  <2>6. ASSUME NEW o \in {"get", "put"}, o \notin spoiled', Waits(o)'
        PROVE  Going(o, pc') >= Offered(o)'
    <3>1. \A a \in Agent : OpOf(a) = o => pc'[a] = pc[a]
      BY <2>4
    <3>2. Going(o, pc') = Going(o, pc)
      BY <3>1, GoingSame
    <3>3. Waits(o)
      BY <3>1, <2>6 DEF Waits
    <3> QED BY <1>1, <2>6, <3>2, <3>3 DEF Cover, Offered
  <2> QED BY <2>3, <2>5, <2>6 DEF Cover
<1> QED BY <1>2, <1>3 DEF TaskDone

(* Every step keeps the invariant. *)
LEMMA QueueSteps == QueueInv /\ [Next]_vars => QueueInv'
<1> SUFFICES ASSUME QueueInv, [Next]_vars PROVE QueueInv'
  OBVIOUS
<1> USE DEF QueueInv
<1>0. size \in Nat /\ _maxsize \in Nat /\ (_maxsize > 0 => size <= _maxsize)
      /\ pc \in [Agent -> State] /\ waiters \in [Op -> Seq(Agent)]
  BY QueueAssumption DEF QueueType
<1>1. ASSUME NEW a \in Agent, PutItem(a) PROVE QueueInv'
  BY <1>1, Puts
<1>2. ASSUME NEW a \in Agent, GetItem(a) PROVE QueueInv'
  BY <1>2, Gets
<1>3. ASSUME NEW a \in Agent, PutWaits(a) PROVE QueueInv'
  <2>1. OpOf(a) = "put" /\ Offered("put") <= 0
    BY <1>0, <1>3, Kinds DEF PutWaits, Full, Offered
  <2> QED BY <1>3, <2>1, Registers DEF PutWaits
<1>4. ASSUME NEW a \in Agent, GetWaits(a) PROVE QueueInv'
  <2>1. OpOf(a) = "get" /\ Offered("get") <= 0
    BY <1>0, <1>4, Kinds DEF GetWaits, Offered
  <2> QED BY <1>4, <2>1, Registers DEF GetWaits
<1>5. ASSUME NEW a \in Agent, JoinWaits(a) PROVE QueueInv'
  <2>1. OpOf(a) = "join"
    BY <1>5, Kinds DEF JoinWaits
  <2> QED BY <1>5, <2>1, Registers DEF JoinWaits
<1>6. ASSUME NEW a \in Agent, Joins(a) PROVE QueueInv'
  <2>1. OpOf(a) = "join" /\ Ready(a) /\ pc' = [pc EXCEPT ![a] = "idle"]
        /\ UNCHANGED <<size, waiters, spoiled>>
    BY <1>6, Kinds DEF Joins
  <2>2. pc' \in [Agent -> State] /\ AllExact(waiters, pc')
    BY <2>1, ToIdle
  <2>3. pc'[a] = "idle" /\ \A b \in Agent \ {a} : pc'[b] = pc[b]
    BY <2>1, <1>0
  <2> QED BY <1>0, <2>1, <2>2, <2>3, Quiet
<1>7. ASSUME NEW a \in Agent, RunCallback(a) PROVE QueueInv'
  <2>1. /\ pc' \in [Agent -> State] /\ pc[a] = "scheduled" /\ pc'[a] = "woken"
        /\ \A b \in Agent \ {a} : pc'[b] = pc[b]
        /\ UNCHANGED <<size, waiters, spoiled>>
    BY <1>7, <1>0 DEF RunCallback, State
  <2>2. AllExact(waiters', pc')
    BY <2>1 DEF AllExact, Exact
  <2> QED BY <1>0, <2>1, <2>2, Quiet
<1>8. ASSUME NEW a \in Agent, Cancel(a) PROVE QueueInv'
  <2>1. /\ pc' \in [Agent -> State] /\ pc'[a] = "cancelled"
        /\ \A b \in Agent \ {a} : pc'[b] = pc[b]
        /\ UNCHANGED <<size, waiters>> /\ spoiled' = spoiled \cup {OpOf(a)}
    BY <1>8, <1>0 DEF Cancel, State
  <2>2. AllExact(waiters', pc')
    BY <2>1 DEF AllExact, Exact
  <2> QED BY <1>0, <2>1, <2>2, Quiet
<1>9. ASSUME NEW a \in Agent, HandleCancel(a) PROVE QueueInv'
  <2> DEFINE o == OpOf(a)
             s == waiters[o]
             t == Removed(s, a)
  <2>1. /\ pc' \in [Agent -> State] /\ pc'[a] = "idle" /\ pc[a] = "cancelled"
        /\ \A b \in Agent \ {a} : pc'[b] = pc[b]
        /\ UNCHANGED <<size, spoiled>> /\ waiters' = [waiters EXCEPT ![o] = t]
    BY <1>9, <1>0 DEF HandleCancel, State
  <2>2. o \in Op /\ s \in Seq(Agent) /\ Exact(o, s, pc)
    BY <1>0, OpOfType DEF AllExact
  <2> HIDE DEF t, s
  <2>3. t \in Seq(Agent) /\ Distinct(t) /\ ToSet(t) = ToSet(s) \ {a}
    BY <2>2, RemovedFacts DEF t, Exact
  <2>4. Exact(o, t, pc')
    BY <2>1, <2>2, <2>3 DEF Exact
  <2>5. ASSUME NEW x \in Op, x # o PROVE Exact(x, waiters[x], pc')
    <3>1. Exact(x, waiters[x], pc)
      BY DEF AllExact
    <3>2. \A b \in Agent : OpOf(b) = x => pc'[b] = pc[b]
      BY <2>1, <2>5
    <3> QED BY <3>1, <3>2 DEF Exact
  <2>6. waiters' \in [Op -> Seq(Agent)] /\ AllExact(waiters', pc')
    BY <1>0, <2>1, <2>2, <2>3, <2>4, <2>5 DEF AllExact
  <2> QED BY <2>1, <2>6, Quiet
<1>10. CASE TaskDone
  BY <1>10, Dones
<1>11. CASE UNCHANGED vars
  BY <1>11 DEF vars, QueueType, Spoils, Cover, Waits, Offered
<1> QED
  BY <1>1, <1>2, <1>3, <1>4, <1>5, <1>6, <1>7, <1>8, <1>9, <1>10, <1>11 DEF Next, Runs

(* The invariant holds in every state of the mixed queue. *)
LEMMA QueueInvariant == Spec => []QueueInv
BY QueueStarts, QueueSteps, PTL DEF Spec

(* The deques of futures hold the waiting coroutines, each once, and       *)
(* otherwise only cancelled ones whose handler has still to run, whatever  *)
(* the interleaving of threads, callbacks and cancellations.               *)
THEOREM DequesAreExact == Spec => []DequeExact
<1>1. QueueInv => DequeExact
  <2> SUFFICES ASSUME QueueInv, NEW o \in Op
               PROVE  /\ \A i, j \in DOMAIN waiters[o] : waiters[o][i] = waiters[o][j] => i = j
                      /\ InState(o, {"waiting"}) \cap Coroutine \subseteq ToSet(waiters[o])
                      /\ ToSet(waiters[o]) \subseteq InState(o, {"waiting", "cancelled"}) \cap Coroutine
    BY DEF DequeExact
  <2>1. Exact(o, waiters[o], pc)
    BY DEF QueueInv, AllExact
  <2> QED BY <2>1 DEF Exact, Distinct, InState
<1> QED BY <1>1, QueueInvariant, PTL

(* No wakeup is lost between threads and coroutines: what is offered to    *)
(* agents that wait is covered by agents on their way, until a waiting     *)
(* call of that kind is cancelled.                                         *)
THEOREM WakeupsAreCovered == Spec => []WakeupsCover
<1>1. QueueInv => WakeupsCover
  <2> SUFFICES ASSUME QueueInv, NEW o \in {"get", "put"}, o \notin spoiled,
                      InState(o, {"waiting"}) # {}
               PROVE  Cardinality(InState(o, {"scheduled", "woken"})) >= Offered(o)
    BY DEF WakeupsCover, Offered
  <2>1. Waits(o)
    BY DEF InState, Waits
  <2>2. InState(o, {"scheduled", "woken"}) = OnTheWay(o, pc)
    BY DEF InState, OnTheWay
  <2> QED BY <2>1, <2>2 DEF QueueInv, Cover, Going
<1> QED BY <1>1, QueueInvariant, PTL
=============================================================================
