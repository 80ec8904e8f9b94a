---------------------------- MODULE TaskExecutor ----------------------------
(***************************************************************************)
(* The executor that schedules single tasks, shutils/dag/task_executor.py, *)
(* over its queue of tasks, shutils/dag/task_queue.py.                     *)
(*                                                                         *)
(* Its workers are coroutines too.  They are suspended in the wait on an   *)
(* empty queue and in the run of a task's own code.  The sink node runs    *)
(* without a suspension, unless the lock of the data it copies is taken.   *)
(***************************************************************************)
EXTENDS Contexts, ContextLanes

CONSTANT
  Worker       \* range(task_worker_num)

ASSUME WorkerAssumption == IsFiniteSet(Worker)

VARIABLES
  config,      \* Executor._config and the like, chosen once
  ctx,         \* every context ever created, oldest first
  counter,     \* Runtime._context_counter
  queue,       \* TaskExecutor._task_queue: (context, task) pairs in three lanes
  pc,          \* where each worker's _worker_loop is
  item,        \* the (context, task) pair each worker took last
  output,      \* the OutputContexts the workers collected
  ran          \* history: the tasks whose code ran for each context

vars == <<config, ctx, counter, queue, pc, item, output, ran>>

LIFO_HIGH == LIFO

(* What a worker's step makes of the contexts, the counter and the queue.  *)
State == [ctx |-> ctx, counter |-> counter, queue |-> queue]

Becomes(s) == ctx' = s.ctx /\ counter' = s.counter /\ queue' = s.queue

(* AsyncContext.destory. *)
DestoryContext(s, c) ==
  LET D == Doomed(s.ctx, c)
  IN  [s EXCEPT !.ctx = Destory(@, D), !.counter = @ - Cardinality(D)]

-----------------------------------------------------------------------------
(* TaskPriorityQueue.  The sequence number of every lane grows, that of    *)
(* LIFO_HIGH too: all three are first-in first-out.                        *)

async_put_task(s, c, t, priority) == [s EXCEPT !.queue[priority] = Append(@, <<c, t>>)]

(* Mutant: only one of the available tasks is queued. *)
async_put_context_tasks_first(s, c, priority) ==
  IF s.ctx[c].destory \/ s.ctx[c].available = {} THEN {s}
  ELSE {async_put_task(s, c, t, priority) : t \in s.ctx[c].available}

(* The states that may follow when every available task of c is queued, in *)
(* an order the set does not define.                                       *)
async_put_context_tasks(s, c, priority) ==
  IF s.ctx[c].destory THEN {s}
  ELSE {[s EXCEPT !.queue[priority] = @ \o [i \in DOMAIN order |-> <<c, order[i]>>]] :
          order \in SetToSeqs(s.ctx[c].available)}

(* One context that the loop handles with in_context c: the worker's own   *)
(* goes on, or ends when nothing is left to run for it; the tasks of a     *)
(* loop context wait behind all others.  Frozen contexts were dropped      *)
(* before.                                                                 *)
HandleOutput(s, x, c) ==
  IF s.ctx[x].freezing \/ s.ctx[x].kind = "output" THEN {s}
  ELSE IF x # c
  THEN async_put_context_tasks(s, x, IF s.ctx[x].kind = "loop" THEN FIFO_LOW ELSE FIFO_HIGH)
  ELSE {IF r.ctx[c].destory \/ r.ctx[c].available = {} THEN DestoryContext(r, c) ELSE r :
          r \in async_put_context_tasks(s, c, LIFO_HIGH)}

(* The contexts of out one after the other. *)
HandleOutputs(s, out, c) ==
  FoldLeft(LAMBDA S, x : UNION {HandleOutput(r, x, c) : r \in S}, {s}, out)

-----------------------------------------------------------------------------
(* run(): the input contexts get in_task completed and their tasks queued, *)
(* as the loop does with contexts that are not its own.                    *)
Init ==
  /\ config \in Config
  /\ LET inputs == [c \in 1 .. config.input_num |-> Complete(Context("plain", 0), in_task)]
         s0 == [ctx |-> inputs, counter |-> config.input_num, queue |-> EmptyLanes]
     IN  \E s \in HandleOutputs(s0, [c \in 1 .. config.input_num |-> c], 0) :
           ctx = s.ctx /\ counter = s.counter /\ queue = s.queue
  /\ pc = [w \in Worker |-> "poll"]
  /\ item = [w \in Worker |-> <<0, in_task>>]
  /\ output = {}
  /\ ran = [c \in DOMAIN ctx |-> {in_task}]

(* A worker in the sink lets another coroutine run only while it waits for *)
(* the data.                                                               *)
LoopFree(w) ==
  /\ UNCHANGED config
  /\ \A v \in Worker \ {w} : pc[v] = "running" => item[v][2] # out_task

-----------------------------------------------------------------------------
(* check_get_task and the first half of _worker_loop. *)

Stop(w) ==
  /\ pc[w] = "poll" /\ counter <= 0
  /\ pc' = [pc EXCEPT ![w] = "stopped"]
  /\ UNCHANGED <<ctx, counter, queue, item, output, ran>>

(* The counter is read here and not again while the get waits. *)
Wait(w) ==
  /\ pc[w] = "poll" /\ counter > 0 /\ IsEmpty(queue)
  /\ pc' = [pc EXCEPT ![w] = "waiting"]
  /\ UNCHANGED <<ctx, counter, queue, item, output, ran>>

Timeout(w) ==
  /\ config.has_timeout /\ pc[w] = "waiting"
  /\ pc' = [pc EXCEPT ![w] = "poll"]
  /\ UNCHANGED <<ctx, counter, queue, item, output, ran>>

(* The get of worker w succeeds; below, <<c, t>> is the first pair. *)
AtGet(w) ==
  /\ \/ pc[w] = "waiting"
     \/ pc[w] = "poll" /\ counter > 0
  /\ ~IsEmpty(queue)

Gets(w, c, t, label) ==
  /\ AtGet(w)
  /\ pc' = [pc EXCEPT ![w] = label]
  /\ item' = [item EXCEPT ![w] = <<c, t>>]
  /\ UNCHANGED <<output, ran>>

Popped == [State EXCEPT !.queue = Pop(queue)]

SkipDestroyed(w, c, t) ==
  Gets(w, c, t, "poll") /\ ctx[c].destory /\ Becomes(Popped)

DestroyStalled(w, c, t) ==
  /\ Gets(w, c, t, "poll") /\ ~ctx[c].destory /\ ctx[c].available = {}
  /\ Becomes(DestoryContext(Popped, c))

(* Mutant: the tasks of a destroyed context run as well. *)
CanRunDestroyed(c) == ctx[c].available # {}

(* Nothing asks whether the task itself is still available. *)
CanRun(c) == ~ctx[c].destory /\ ctx[c].available # {}

GetTask(w, c, t) ==
  /\ Gets(w, c, t, "running") /\ CanRun(c) /\ t \notin ctx[c].asleep
  /\ Becomes(Popped)

-----------------------------------------------------------------------------
(* _context_postprocess, with the live contexts related to the returned    *)
(* ones collected recursively.                                             *)

(* The contexts of S and all live ones reached through live parents and    *)
(* children; an OutputContext has neither.                                 *)
Referenced(cs, S) ==
  LET near(R) == R \cup {y \in Live(cs) : \E x \in R : cs[x].parent = y \/ cs[y].parent = x}
      reach[n \in 0 .. Len(cs)] == IF n = 0 THEN S ELSE near(reach[n - 1])
  IN  reach[Len(cs)]

(* The bypass tasks of the contexts X are masked, one context at a time.   *)
(* They are those of t, once t is completed in c.                          *)
MaskBypass(cs, X, c, t) ==
  FoldSet(LAMBDA x, acc : CompleteAll(acc, x, BypassTasks(all_upstream, all_downstream,
                            IF t \in acc[c].completed THEN {t} ELSE acc[c].completed)),
          cs, X)

context_postprocess(s, c, out, t) ==
  LET live == {x \in out : ~s.ctx[x].destory}
      kept == IF config.enable_context_gc THEN Referenced(s.ctx, live) ELSE live
      swept == IF config.enable_context_gc /\ c \notin kept /\ ~s.ctx[c].destory
               THEN DestoryContext(s, c) ELSE s
      fresh == {x \in Live(s.ctx) \ {c} : x \in kept /\ s.ctx[x].kind # "loop"}
  IN  IF config.enable_context_bypass
      THEN [swept EXCEPT !.ctx = MaskBypass(@, fresh, c, t)]
      ELSE swept

(* The rest of the loop's body, once _run_task has returned out in state s. *)
Handles(w, c, t, s, out) ==
  LET thawed == {x \in ToSet(out) : ~s.ctx[x].freezing}
  IN  /\ \E p \in HandleOutputs(s, out, c) : Becomes(context_postprocess(p, c, thawed, t))
      /\ output' = output \cup {x \in thawed : s.ctx[x].kind = "output"}
      /\ pc' = [pc EXCEPT ![w] = "poll"]

-----------------------------------------------------------------------------
(* _run_task.  A task that must not run yet is queued again, and what      *)
(* follows treats the context as one that no task returned.                *)
NotAwake(w, c, t) ==
  /\ AtGet(w) /\ CanRun(c) /\ t \in ctx[c].asleep
  /\ Handles(w, c, t, async_put_task(Popped, c, t, FIFO_HIGH), <<>>)
  /\ UNCHANGED <<item, ran>>

(* The code of the task ends with the result r. *)
Returns(w, c, t, r) ==
  /\ Handles(w, c, t, [State EXCEPT !.ctx = Told(r, t).ctx, !.counter = @ + r.delta], r.out)
  /\ ran' = [x \in DOMAIN r.ctx |->
               (IF x \in DOMAIN ran THEN ran[x] ELSE {})
                 \cup IF x \in ToSet(r.out) THEN ran[c] \cup {t} ELSE {}]
  /\ UNCHANGED item

Ends(w, c, t, outcome) ==
  /\ pc[w] = "running"
  /\ t # out_task /\ outcome \in config.behaviour[t]

(* A router also answers for the branches it masks. *)
Routes(w, c, t, r) ==
  /\ Handles(w, c, t, [State EXCEPT !.ctx = Told(r, t).ctx], r.out)
  /\ ran' = [ran EXCEPT ![c] = @ \cup Told(r, t).ctx[c].completed]
  /\ UNCHANGED item

ReturnSame(w, c, t) == Ends(w, c, t, "same") /\ Returns(w, c, t, SameResult(ctx, c))

ReturnNothing(w, c, t) == Ends(w, c, t, "drop") /\ Returns(w, c, t, NoResult(ctx))

ReturnNew(w, c, t) ==
  Ends(w, c, t, "new") /\ Room(ctx, 1) /\ Returns(w, c, t, NewResult(ctx))

ReturnBoth(w, c, t) ==
  Ends(w, c, t, "fork") /\ Room(ctx, 1) /\ Returns(w, c, t, ForkResult(ctx, c))

ReturnChildren(w, c, t) ==
  Ends(w, c, t, "children") /\ Room(ctx, 2) /\ Returns(w, c, t, ChildrenResult(ctx, c, 2))

ReturnFrozen(w, c, t) == Ends(w, c, t, "freeze") /\ Returns(w, c, t, FrozenResult(ctx, c))

Route(w, c, t) ==
  /\ Ends(w, c, t, "route")
  /\ \E R \in SUBSET downstream_tasks[t] : Routes(w, c, t, RouteResult(ctx, c, t, R))

Misroute(w, c, t) ==
  Ends(w, c, t, "misroute") /\ Returns(w, c, t, DestroyedResult(ctx, Doomed(ctx, c)))

LoopYield(w, c, t) ==
  Ends(w, c, t, "yield") /\ YieldRoom(ctx, c) /\ Returns(w, c, t, YieldResult(ctx, c, t))

LoopExhausted(w, c, t) == Ends(w, c, t, "exhaust") /\ Returns(w, c, t, ExhaustedResult(ctx, c))

(* The labels of a worker that holds a task. *)
AtTask == {"running", "copying"}

(* SinkNode.call waits for a read lock on the data of c.  Another worker   *)
(* runs a task that keeps it locked, or waits for it too.                  *)
SinkWaits(w, c, t) ==
  /\ pc[w] = "running" /\ t = out_task
  /\ \E v \in Worker \ {w} :
       /\ item[v][1] = c
       /\ \/ pc[v] = "copying"
          \/ pc[v] = "running" /\ item[v][2] \in config.holds
  /\ pc' = [pc EXCEPT ![w] = "copying"]
  /\ UNCHANGED <<ctx, counter, queue, item, output, ran>>

(* The copy, and what follows it.  After a wait the context may be gone.   *)
RunSink(w, c, t) ==
  /\ pc[w] \in AtTask /\ t = out_task
  /\ Returns(w, c, t, SinkResult(ctx, c))

(* The RateLimitContext is unwrapped and its task not completed. *)
RateLimited(w, c, t) ==
  /\ Ends(w, c, t, "limit")
  /\ Handles(w, c, t, State, <<c>>)
  /\ UNCHANGED <<item, ran>>

(* An exception.  SyncTasks that are not foreground tasks end here always: *)
(* __thread_pool is a private name of Executor and not of TaskExecutor.    *)
Retried(t, n) == config.retry_times[t] > 0 /\ n <= config.retry_times[t]

RaiseRetry(w, c, t) ==
  LET n == ctx[c].retry[t] + 1
      noted == [State EXCEPT !.ctx[c].retry[t] = n,
                             !.ctx[c].asleep = IF t \in config.retry_interval
                                               THEN @ \cup {t} ELSE @]
  IN  /\ Ends(w, c, t, "raise") /\ Retried(t, n)
      /\ Handles(w, c, t, async_put_task(noted, c, t, FIFO_HIGH), <<>>)
      /\ UNCHANGED <<item, ran>>

RaiseError(w, c, t) ==
  LET n == IF config.retry_times[t] > 0 THEN ctx[c].retry[t] + 1 ELSE 0
  IN  /\ Ends(w, c, t, "raise") /\ ~Retried(t, n)
      /\ Returns(w, c, t, DestroyedResult([ctx EXCEPT ![c].retry[t] = n], Doomed(ctx, c)))

(* The time in awake_time passes. *)
AwakeTimePasses(c, t) ==
  /\ t \in ctx[c].asleep
  /\ ctx' = [ctx EXCEPT ![c].asleep = @ \ {t}]
  /\ UNCHANGED <<config, counter, queue, pc, item, output, ran>>

-----------------------------------------------------------------------------
Polls(w) == LoopFree(w) /\ (Stop(w) \/ Wait(w))

TimesOut(w) == LoopFree(w) /\ Timeout(w)

Fetches(w) ==
  /\ LoopFree(w) /\ AtGet(w)
  /\ LET c == First(queue)[1]
         t == First(queue)[2]
     IN  \/ SkipDestroyed(w, c, t) \/ DestroyStalled(w, c, t)
         \/ GetTask(w, c, t) \/ NotAwake(w, c, t)

(* The code of a task runs to an end of its own. *)
Executes(w) ==
  LET c == item[w][1]
      t == item[w][2]
  IN  /\ LoopFree(w)
      /\ \/ RunSink(w, c, t) \/ ReturnSame(w, c, t) \/ ReturnNothing(w, c, t)
         \/ ReturnNew(w, c, t) \/ ReturnBoth(w, c, t) \/ ReturnChildren(w, c, t)
         \/ ReturnFrozen(w, c, t) \/ Route(w, c, t) \/ Misroute(w, c, t)
         \/ LoopYield(w, c, t) \/ LoopExhausted(w, c, t)
         \/ RaiseRetry(w, c, t) \/ RaiseError(w, c, t)

Suspends(w) == LoopFree(w) /\ SinkWaits(w, item[w][1], item[w][2])

Throttled(w) == LoopFree(w) /\ RateLimited(w, item[w][1], item[w][2])

(* run() returns once every worker has left its loop. *)
Returned == \A w \in Worker : pc[w] = "stopped"

Next ==
  \/ \E w \in Worker : Polls(w) \/ TimesOut(w) \/ Fetches(w) \/ Executes(w) \/ Suspends(w)
                        \/ Throttled(w)
  \/ \E c \in DOMAIN ctx, t \in Node : AwakeTimePasses(c, t)
  \/ Returned /\ UNCHANGED vars

(* Fairness.  The event loop runs every coroutine that can run, timers     *)
(* fire, the clock reaches every awake_time, a task's code ends, and a     *)
(* rate limiter that is asked again and again lets a call pass.            *)
Fairness ==
  /\ \A w \in Worker : /\ WF_vars(Polls(w)) /\ WF_vars(TimesOut(w)) /\ WF_vars(Fetches(w))
                       /\ SF_vars(Executes(w))
  /\ WF_vars(\E c \in DOMAIN ctx, t \in Node : AwakeTimePasses(c, t))

Spec == Init /\ [][Next]_vars

FairSpec == Spec /\ Fairness
-----------------------------------------------------------------------------
Alive == Counted(ctx)

InHand == {item[w] : w \in {v \in Worker : pc[v] \in AtTask}}

(* Runtime.counter is the number of contexts alive, and child_num that of  *)
(* the children alive, although a context may be destroyed by a worker     *)
(* while others still run tasks of it: the workers stop on that number.    *)
CounterCountsLive ==
  /\ counter = Cardinality(Alive)
  /\ \A c \in DOMAIN ctx :
       ctx[c].child_num = Cardinality({x \in Alive : ctx[x].parent = c})

(* "Task scheduling based on dependencies" (docs/dag/index.md): the code   *)
(* of a task runs for a context only after the code of each of its         *)
(* upstream tasks ran for it or for the context it was made from, or a     *)
(* router masked them.                                                     *)
DependenciesRan ==
  \A i \in InHand : ctx[i[1]].kind # "loop" => upstream_tasks[i[2]] \subseteq ran[i[1]]

(* A context gives at most one OutputContext, although the tasks behind a  *)
(* fork are queued, and run, several times.  It gives two when two workers *)
(* take its sink while a further run of a task keeps the data locked.      *)
OneOutputEach ==
  config.holds = {} =>
    \A x, y \in output : ctx[x].source = ctx[y].source => x = y

(* With context GC every available task of a live context is queued or in  *)
(* a worker's hands; a parent waits for its children instead, and a frozen *)
(* context is destroyed.  There is no idle detection: a task nobody queued *)
(* would keep run() from returning.                                        *)
NothingForgotten ==
  config.enable_context_gc =>
    \A c \in Alive :
      \/ ctx[c].child_num > 0
      \/ ctx[c].available # {} /\ \A t \in ctx[c].available : <<c, t>> \in Queued(queue) \cup InHand

(* "Used when a context first enters the system or when new tasks become   *)
(* available after task completion" (async_put_context_tasks): no live     *)
(* context that waits for no child has an available task that is neither   *)
(* queued nor run.  The code queues a new context before bypass completes  *)
(* tasks on it, and does not queue what that makes available.              *)
NewTasksQueued ==
  \A c \in Alive : ctx[c].child_num = 0 =>
    \A t \in ctx[c].available : <<c, t>> \in Queued(queue) \cup InHand

(* AsyncLoopTask "produces new contexts in a loop" to "push contexts into  *)
(* the DAG" (docs/dag/guide.md): a live context has not completed the      *)
(* sink, whose run replaces it.  Bypass completes every task on what a     *)
(* loop yields after its first context, as none is completed on the        *)
(* LoopContext.                                                            *)
LoopFeedsDag == \A c \in Alive : ctx[c].kind = "plain" => out_task \notin ctx[c].completed

(* run() returns. *)
RunReturns == <>Returned
=============================================================================
