---------------------------- MODULE ContextQueue ----------------------------
(***************************************************************************)
(* The context queue of shutils/dag/context_queue.py: a heap of            *)
(* PrioritizedItem ordered by (priority, sequence) and one sequence        *)
(* counter per priority, which counts down for LIFO and up for the others. *)
(* A put pushes and then moves the counter, both under the queue's         *)
(* SmartLock; a get takes only the mutex of the heap, so it may fall       *)
(* between the two.                                                        *)
(***************************************************************************)
EXTENDS ContextLanes, Integers, FiniteSets

CONSTANTS
  Context,
  Producer, NoProducer,   \* the threads and coroutines that put; the lock is free
  MaxPuts              \* bound: number of puts

ASSUME ContextQueueAssumption == MaxPuts \in Nat /\ NoProducer \notin Producer

VARIABLES
  heap,           \* the items of _priority_queue, each with its arrival
  _counter_dict,
  holder,         \* who holds _lock between the push and the counter
  pending,        \* the priority of the holder's put
  arrivals        \* history: puts so far

heapVars == <<heap, _counter_dict, holder, pending, arrivals>>

PrioritizedItem ==
  [priority : ContextPriority, sequence : Int, item : Context, arrival : Nat]

HeapInit ==
  /\ heap = {}
  /\ _counter_dict = [p \in ContextPriority |-> 0]
  /\ holder = NoProducer
  /\ pending = LIFO
  /\ arrivals = 0

(* Mutant: the lock is not taken. *)
PushUnlocked(u, c, p) ==
  /\ holder # u
  /\ arrivals < MaxPuts
  /\ heap' = heap \cup {[priority |-> p, sequence |-> _counter_dict[p],
                         item |-> c, arrival |-> arrivals]}
  /\ holder' = u
  /\ pending' = p
  /\ arrivals' = arrivals + 1
  /\ UNCHANGED _counter_dict

(* put takes the lock and pushes the item under the current counter. *)
Push(u, c, p) ==
  /\ holder = NoProducer
  /\ arrivals < MaxPuts
  /\ heap' = heap \cup {[priority |-> p, sequence |-> _counter_dict[p],
                         item |-> c, arrival |-> arrivals]}
  /\ holder' = u
  /\ pending' = p
  /\ arrivals' = arrivals + 1
  /\ UNCHANGED _counter_dict

(* Mutant: the counter counts up for every priority. *)
BumpUp(u) ==
  /\ holder = u
  /\ _counter_dict' = [_counter_dict EXCEPT ![pending] = @ + 1]
  /\ holder' = NoProducer
  /\ UNCHANGED <<heap, pending, arrivals>>

(* The second half of put: the counter moves and the lock is released. *)
Bump(u) ==
  /\ holder = u
  /\ _counter_dict' = [_counter_dict EXCEPT ![pending] = IF pending = LIFO THEN @ - 1 ELSE @ + 1]
  /\ holder' = NoProducer
  /\ UNCHANGED <<heap, pending, arrivals>>

(* Mutant: items compare by sequence only. *)
BeforeBySequence(x, y) == x.sequence < y.sequence

(* PrioritizedItem compares by priority, then by sequence. *)
Before(x, y) ==
  \/ x.priority < y.priority
  \/ x.priority = y.priority /\ x.sequence < y.sequence

(* get pops an item that no other comes before. *)
Get ==
  \E x \in heap :
    /\ \A y \in heap : ~Before(y, x)
    /\ heap' = heap \ {x}
    /\ UNCHANGED <<_counter_dict, holder, pending, arrivals>>

HeapNext ==
  \/ \E u \in Producer : Bump(u) \/ \E c \in Context, p \in ContextPriority : Push(u, c, p)
  \/ Get

HeapSpec == HeapInit /\ [][HeapNext]_heapVars

-----------------------------------------------------------------------------
TypeOK ==
  /\ heap \subseteq PrioritizedItem
  /\ _counter_dict \in [ContextPriority -> Int]
  /\ holder \in Producer \cup {NoProducer}
  /\ pending \in ContextPriority
  /\ arrivals \in Nat

(* Within a priority the sequence numbers follow the order of the puts,    *)
(* backwards for LIFO, and no two puts share one: the heap has no ties to  *)
(* break.                                                                  *)
ArrivalOrder ==
  \A x, y \in heap :
    x.priority = y.priority /\ x.arrival < y.arrival =>
      IF x.priority = LIFO THEN y.sequence < x.sequence ELSE x.sequence < y.sequence

(* The numbers in the heap lie on the used side of the counters; only the  *)
(* item of a put that still holds the lock sits on its counter.            *)
CountersFresh ==
  \A x \in heap :
    /\ x.arrival < arrivals
    /\ LET n == _counter_dict[x.priority]
       IN  \/ IF x.priority = LIFO THEN n < x.sequence ELSE x.sequence < n
           \/ /\ x.sequence = n
              /\ holder # NoProducer /\ pending = x.priority /\ x.arrival = arrivals - 1

(* One put, one item. *)
OneItemEach == \A x, y \in heap : x.arrival = y.arrival => x = y

GetsInOrder ==
  \A x \in heap : heap' = heap \ {x} =>
    \A y \in heap \ {x} :
      /\ x.priority <= y.priority
      /\ x.priority = y.priority =>
           IF x.priority = LIFO THEN y.arrival < x.arrival ELSE x.arrival < y.arrival

(* What get gives out came first: nothing of a higher priority is in the   *)
(* queue, and within its priority nothing that arrived later (LIFO) or     *)
(* earlier (the others).                                                   *)
ServedInOrder == [][GetsInOrder]_heapVars

(* A lane of the abstract queue: the contexts of one priority in the order *)
(* in which the heap gives them out.                                       *)
Lane(p) ==
  LET items == {x \in heap : x.priority = p}
      Rank(x) == Cardinality({y \in items : Before(y, x)}) + 1
  IN  [i \in 1 .. Cardinality(items) |-> (CHOOSE x \in items : Rank(x) = i).item]

LQ == INSTANCE LaneQueue WITH lanes <- [p \in ContextPriority |-> Lane(p)]

(* The heap implements the three lanes. *)
Implements == LQ!Spec
=============================================================================
