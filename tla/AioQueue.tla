------------------------------ MODULE AioQueue ------------------------------
(***************************************************************************)
(* The mixed queue of shutils/dag/lib/aio_queue.py: threads use the        *)
(* blocking interface sync_q, coroutines the awaitable one async_q, over   *)
(* one mutex.  A thread waits in a threading.Condition, a coroutine on a   *)
(* future in a deque.  Which item a get returns is the business of the     *)
(* subclass (a deque or a heap); here the items are counted.               *)
(*                                                                         *)
(* What happens under the mutex is one action.  The wakeup of a coroutine  *)
(* is not: the future leaves the deque, a callback scheduled on the event  *)
(* loop resolves it, and only then the coroutine runs on.                  *)
(***************************************************************************)
EXTENDS Naturals, Sequences, FiniteSets, SequencesExt

CONSTANTS
  Getter, Putter, Joiner,  \* the agents that call get, put and join
  Coroutine,               \* those that are coroutines; the others are threads
  Cancellable,             \* coroutines that may be cancelled while they wait
  _maxsize,                \* 0 means unbounded
  MaxPut                   \* bound: number of puts

Agent == Getter \cup Putter \cup Joiner

ASSUME QueueAssumption ==
  /\ IsFiniteSet(Agent)
  /\ Cancellable \subseteq Coroutine
  /\ _maxsize \in Nat /\ MaxPut \in Nat
  \* an agent keeps to one kind of call
  /\ Getter \cap Putter = {} /\ Getter \cap Joiner = {} /\ Putter \cap Joiner = {}

Op == {"get", "put", "join"}

OpOf(a) == IF a \in Getter THEN "get" ELSE IF a \in Putter THEN "put" ELSE "join"

VARIABLES
  size,               \* _qsize()
  _unfinished_tasks,
  pc,       \* "idle", "waiting", "scheduled" (its callback is on the event loop),
            \* "woken", or "cancelled" (with the handler still to run)
  waiters,  \* _async_getters, _async_putters and _async_all_tasks_done
  got,      \* items taken and not yet reported by task_done
  puts,     \* history: puts so far
  spoiled   \* history: the operations of which a waiting call was cancelled

vars == <<size, _unfinished_tasks, pc, waiters, got, puts, spoiled>>

Init ==
  /\ size = 0 /\ _unfinished_tasks = 0 /\ got = 0 /\ puts = 0 /\ spoiled = {}
  /\ pc = [a \in Agent |-> "idle"]
  /\ waiters = [o \in Op |-> <<>>]

(* The threads in the wait set of the condition for o. *)
Sleepers(o) == {a \in Agent \ Coroutine : OpOf(a) = o /\ pc[a] = "waiting"}

(* _wakeup_next: futures that are done are dropped from the deque up to    *)
(* the first that is not, whose callback is scheduled.  pcs is the value   *)
(* of pc so far in this step.                                              *)
WakeupNext(o, pcs) ==
  LET live == {i \in DOMAIN waiters[o] : pcs[waiters[o][i]] # "cancelled"}
      first == CHOOSE i \in live : \A j \in live : i <= j
  IN  IF live = {}
      THEN /\ waiters' = [waiters EXCEPT ![o] = <<>>]
           /\ pc' = pcs
      ELSE /\ waiters' = [waiters EXCEPT ![o] = SubSeq(@, first + 1, Len(@))]
           /\ pc' = [pcs EXCEPT ![waiters[o][first]] = "scheduled"]

(* Condition.notify. *)
Notify(o, pcs) ==
  /\ IF Sleepers(o) = {}
     THEN pc' = pcs
     ELSE \E a \in Sleepers(o) : pc' = [pcs EXCEPT ![a] = "woken"]
  /\ UNCHANGED waiters

(* Mutant: threads only. *)
WakeThreads(o, pcs) == Notify(o, pcs)

(* A put or get wakes one agent of the other side, coroutines first. *)
Wake(o, pcs) == IF waiters[o] # <<>> THEN WakeupNext(o, pcs) ELSE Notify(o, pcs)

Ready(a) == pc[a] \in {"idle", "woken"}

Full == _maxsize > 0 /\ size >= _maxsize

(* The agent has to wait: a thread in its condition, a coroutine on a new  *)
(* future at the end of its deque.                                         *)
Register(a) ==
  /\ pc' = [pc EXCEPT ![a] = "waiting"]
  /\ waiters' = IF a \in Coroutine THEN [waiters EXCEPT ![OpOf(a)] = Append(@, a)] ELSE waiters
  /\ UNCHANGED <<size, _unfinished_tasks, got, puts, spoiled>>

PutItem(a) ==
  /\ a \in Putter /\ Ready(a) /\ ~Full
  /\ puts < MaxPut
  /\ size' = size + 1
  /\ _unfinished_tasks' = _unfinished_tasks + 1
  /\ puts' = puts + 1
  /\ Wake("get", [pc EXCEPT ![a] = "idle"])
  /\ UNCHANGED <<got, spoiled>>

PutWaits(a) ==
  /\ a \in Putter /\ Ready(a) /\ Full
  /\ puts < MaxPut
  /\ Register(a)

(* Mutant: putters are not told of the free slot. *)
GetItemQuietly(a) ==
  /\ a \in Getter /\ Ready(a) /\ size > 0
  /\ size' = size - 1
  /\ got' = got + 1
  /\ pc' = [pc EXCEPT ![a] = "idle"]
  /\ UNCHANGED <<waiters, _unfinished_tasks, puts, spoiled>>

GetItem(a) ==
  /\ a \in Getter /\ Ready(a) /\ size > 0
  /\ size' = size - 1
  /\ got' = got + 1
  /\ IF _maxsize > 0
     THEN Wake("put", [pc EXCEPT ![a] = "idle"])
     ELSE pc' = [pc EXCEPT ![a] = "idle"] /\ UNCHANGED waiters
  /\ UNCHANGED <<_unfinished_tasks, puts, spoiled>>

GetWaits(a) ==
  /\ a \in Getter /\ Ready(a) /\ size = 0
  /\ Register(a)

(* task_done for an item taken earlier; the last one wakes every thread    *)
(* and the next coroutine in join.                                         *)
TaskDone ==
  /\ got > 0
  /\ got' = got - 1
  /\ _unfinished_tasks' = _unfinished_tasks - 1
  /\ IF _unfinished_tasks = 1
     THEN WakeupNext("join", [a \in Agent |-> IF a \in Sleepers("join") THEN "woken" ELSE pc[a]])
     ELSE UNCHANGED <<pc, waiters>>
  /\ UNCHANGED <<size, puts, spoiled>>

Joins(a) ==
  /\ a \in Joiner /\ Ready(a) /\ _unfinished_tasks = 0
  /\ pc' = [pc EXCEPT ![a] = "idle"]
  /\ UNCHANGED <<size, _unfinished_tasks, waiters, got, puts, spoiled>>

JoinWaits(a) ==
  /\ a \in Joiner /\ Ready(a) /\ _unfinished_tasks # 0
  /\ Register(a)

(* _set_result_unless_done runs on the event loop. *)
RunCallback(a) ==
  /\ pc[a] = "scheduled"
  /\ pc' = [pc EXCEPT ![a] = "woken"]
  /\ UNCHANGED <<size, _unfinished_tasks, waiters, got, puts, spoiled>>

(* asyncio cancels a coroutine that awaits its future, or that was woken   *)
(* and has not run yet.                                                    *)
Cancel(a) ==
  /\ a \in Cancellable /\ pc[a] \in {"waiting", "scheduled", "woken"}
  /\ pc' = [pc EXCEPT ![a] = "cancelled"]
  /\ spoiled' = spoiled \cup {OpOf(a)}
  /\ UNCHANGED <<size, _unfinished_tasks, waiters, got, puts>>

(* Mutant: the future stays in the deque. *)
HandleCancelLeaves(a) ==
  /\ pc[a] = "cancelled"
  /\ pc' = [pc EXCEPT ![a] = "idle"]
  /\ UNCHANGED <<waiters, size, _unfinished_tasks, got, puts, spoiled>>

(* The deque s without a, which is in it at most once. *)
Removed(s, a) ==
  IF a \in ToSet(s) THEN RemoveAt(s, CHOOSE i \in DOMAIN s : s[i] = a) ELSE s

(* The except clauses: the future leaves the deque if it is still there. *)
HandleCancel(a) ==
  /\ pc[a] = "cancelled"
  /\ pc' = [pc EXCEPT ![a] = "idle"]
  /\ waiters' = [waiters EXCEPT ![OpOf(a)] = Removed(@, a)]
  /\ UNCHANGED <<size, _unfinished_tasks, got, puts, spoiled>>

Runs(a) == PutItem(a) \/ PutWaits(a) \/ GetItem(a) \/ GetWaits(a) \/ Joins(a) \/ JoinWaits(a)

Next ==
  \/ \E a \in Agent : Runs(a) \/ RunCallback(a) \/ Cancel(a) \/ HandleCancel(a)
  \/ TaskDone

Spec == Init /\ [][Next]_vars

(* Fairness.  A woken agent runs, the event loop runs its callbacks and    *)
(* the handlers of cancelled coroutines, and items taken are reported.     *)
(* Nobody is obliged to call.                                              *)
Fairness ==
  /\ \A a \in Agent : /\ WF_vars(pc[a] = "woken" /\ Runs(a))
                      /\ WF_vars(RunCallback(a))
                      /\ WF_vars(HandleCancel(a))
  /\ WF_vars(TaskDone)

FairSpec == Spec /\ Fairness

-----------------------------------------------------------------------------
InState(o, S) == {a \in Agent : OpOf(a) = o /\ pc[a] \in S}

(* A coroutine waits on a future exactly while the future is in its deque, *)
(* once.                                                                   *)
DequeExact ==
  \A o \in Op :
    /\ \A i, j \in DOMAIN waiters[o] : waiters[o][i] = waiters[o][j] => i = j
    /\ InState(o, {"waiting"}) \cap Coroutine \subseteq ToSet(waiters[o])
    /\ ToSet(waiters[o]) \subseteq InState(o, {"waiting", "cancelled"}) \cap Coroutine

(* While an agent waits to get, as many others are on their way to the     *)
(* queue as there are items in it, and while one waits to put into a       *)
(* bounded queue, as many as there are free slots: nothing lies there that *)
(* everybody sleeps on.  Not so once such a call was cancelled: it may     *)
(* have had the wakeup.                                                    *)
WakeupsCover ==
  \A o \in {"get", "put"} :
    o \notin spoiled /\ InState(o, {"waiting"}) # {} =>
      LET offered == IF o = "get" THEN size ELSE IF _maxsize > 0 THEN _maxsize - size ELSE 0
      IN  Cardinality(InState(o, {"scheduled", "woken"})) >= offered

(* An item that someone waits for is taken, unless a get was cancelled. *)
ItemsTaken ==
  "get" \notin spoiled /\ size > 0 /\ InState("get", {"waiting"}) # {}
    ~> "get" \in spoiled \/ size = 0 \/ InState("get", {"waiting"}) = {}

(* "Interface mimicking asyncio.Queue" (_AsyncAdapter): every call of join *)
(* returns when the work is done and no new work comes.  task_done wakes   *)
(* one coroutine of those that wait in join, and nobody wakes the next.    *)
JoinReturns ==
  \A a \in Joiner :
    pc[a] # "idle" /\ _unfinished_tasks = 0 ~> pc[a] = "idle" \/ _unfinished_tasks # 0
=============================================================================
