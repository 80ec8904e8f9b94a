------------------------------ MODULE Executor ------------------------------
(***************************************************************************)
(* The batch executor, shutils/dag/executor.py, with the contexts          *)
(* (context.py), the runtime counter (runtime.py) and the task classes     *)
(* (task.py) it drives.                                                    *)
(*                                                                         *)
(* Workers are coroutines of one event loop: an action is what a coroutine *)
(* does between two points where it can really be suspended.  Those are    *)
(* the wait on an empty queue, the gather of the task coroutines, and the  *)
(* run of a task's own code.                                               *)
(***************************************************************************)
EXTENDS Contexts, ContextLanes

CONSTANT
  Worker       \* range(context_worker_num)

VARIABLES
  config,      \* Executor._config and the like, chosen once
  ctx,         \* every context ever created, oldest first
  counter,     \* Runtime._context_counter
  queue,       \* Executor._context_queue
  pc,          \* where each worker's _worker_loop is
  in_context,  \* the context each worker took last, 0 before the first
  todo,        \* its available tasks whose coroutine has not started
  active,      \* its tasks whose code is running
  results,     \* what its finished task coroutines returned
  worker_idle, \* Executor._worker_idle
  idle_count,  \* _worker_loop's local idle_count
  output       \* the OutputContexts the workers collected

vars == <<config, ctx, counter, queue, pc, in_context, todo, active, results,
          worker_idle, idle_count, output>>

has_timeout == config.has_timeout
task_worker_num == config.task_worker_num
enable_context_gc == config.enable_context_gc
enable_context_bypass == config.enable_context_bypass
worker_idle_times == config.worker_idle_times
retry_times == config.retry_times
retry_interval == config.retry_interval
behaviour == config.behaviour

-----------------------------------------------------------------------------
(* run(): each input context gets in_task completed and is queued; then    *)
(* the workers start.                                                      *)
Init ==
  /\ config \in Config
  /\ ctx = [c \in 1 .. config.input_num |-> Complete(Context("plain", 0), in_task)]
  /\ counter = config.input_num
  /\ queue = [EmptyLanes EXCEPT ![FIFO_HIGH] = [c \in 1 .. config.input_num |-> c]]
  /\ pc = [w \in Worker |-> "poll"]
  /\ in_context = [w \in Worker |-> 0]
  /\ todo = [w \in Worker |-> {}]
  /\ active = [w \in Worker |-> {}]
  /\ results = [w \in Worker |-> {}]
  /\ worker_idle = [w \in Worker |-> FALSE]
  /\ idle_count = [w \in Worker |-> 0]
  /\ output = {}

-----------------------------------------------------------------------------
(* check_get_context and the first half of _worker_loop.                   *)

(* The counter says no context is alive: StopContext, and the loop ends. *)
Stop(w) ==
  /\ pc[w] = "poll" /\ counter <= 0
  /\ pc' = [pc EXCEPT ![w] = "stopped"]
  /\ worker_idle' = [worker_idle EXCEPT ![w] = FALSE]
  /\ UNCHANGED <<ctx, counter, queue, in_context, todo, active, results, idle_count, output>>

(* The counter is read here and not again while the get waits. *)
Wait(w) ==
  /\ pc[w] = "poll" /\ counter > 0 /\ IsEmpty(queue)
  /\ pc' = [pc EXCEPT ![w] = "waiting"]
  /\ UNCHANGED <<ctx, counter, queue, in_context, todo, active, results,
                 worker_idle, idle_count, output>>

Gets(w) ==
  /\ \/ pc[w] = "waiting"
     \/ pc[w] = "poll" /\ counter > 0
  /\ ~IsEmpty(queue)
  /\ queue' = Pop(queue)
  /\ worker_idle' = [worker_idle EXCEPT ![w] = FALSE]

SkipDestroyed(w) ==
  /\ Gets(w)
  /\ ctx[First(queue)].destory
  /\ pc' = [pc EXCEPT ![w] = "poll"]
  /\ UNCHANGED <<ctx, counter, in_context, todo, active, results, idle_count, output>>

(* A context without an available task is destroyed. *)
DestroyStalled(w) ==
  LET c == First(queue)
      D == Doomed(ctx, c)
  IN  /\ Gets(w)
      /\ ~ctx[c].destory /\ ctx[c].available = {}
      /\ ctx' = Destory(ctx, D)
      /\ counter' = counter - Cardinality(D)
      /\ pc' = [pc EXCEPT ![w] = "poll"]
      /\ UNCHANGED <<in_context, todo, active, results, idle_count, output>>

GetContext(w) ==
  LET c == First(queue)
  IN  /\ Gets(w)
      /\ ~ctx[c].destory /\ ctx[c].available # {}
      /\ pc' = [pc EXCEPT ![w] = "running"]
      /\ in_context' = [in_context EXCEPT ![w] = c]
      /\ todo' = [todo EXCEPT ![w] = ctx[c].available]
      /\ UNCHANGED <<ctx, counter, active, results, idle_count, output>>

(* Mutants: the other workers are not asked; the worker is not marked      *)
(* idle.                                                                   *)
TimeoutAlone(w) ==
  LET count == idle_count[w] + 1
  IN  /\ has_timeout /\ pc[w] = "waiting"
      /\ worker_idle' = [worker_idle EXCEPT ![w] = TRUE]
      /\ idle_count' = [idle_count EXCEPT ![w] = count]
      /\ pc' = [pc EXCEPT ![w] = IF count >= worker_idle_times THEN "stopped" ELSE "poll"]
      /\ UNCHANGED <<ctx, counter, queue, in_context, todo, active, results, output>>

TimeoutNotIdle(w) ==
  /\ has_timeout /\ pc[w] = "waiting"
  /\ pc' = [pc EXCEPT ![w] = "poll"]
  /\ UNCHANGED <<ctx, counter, queue, in_context, todo, active, results,
                 worker_idle, idle_count, output>>

(* The get timed out.  Only when every worker is idle does the worker      *)
(* count, and stop once it has counted worker_idle_times.                  *)
Timeout(w) ==
  LET idle == [worker_idle EXCEPT ![w] = TRUE]
      count == idle_count[w] + 1
  IN  /\ has_timeout /\ pc[w] = "waiting"
      /\ worker_idle' = idle
      /\ IF \A v \in Worker : idle[v]
         THEN /\ idle_count' = [idle_count EXCEPT ![w] = count]
              /\ pc' = [pc EXCEPT ![w] = IF count >= worker_idle_times
                                         THEN "stopped" ELSE "poll"]
         ELSE /\ pc' = [pc EXCEPT ![w] = "poll"]
              /\ UNCHANGED idle_count
      /\ UNCHANGED <<ctx, counter, queue, in_context, todo, active, results, output>>

-----------------------------------------------------------------------------
(* _run_task for one available task, under the worker's semaphore.         *)

MayStart(w, t) ==
  /\ t \in todo[w]
  /\ task_worker_num = 0 \/ Cardinality(active[w]) < task_worker_num

Report(w, t, out, succeed) ==
  results' = [results EXCEPT ![w] =
                @ \cup {[task |-> t, contexts |-> out, succeed |-> succeed]}]

(* awake_time lies in the future: the context goes back to the queue. *)
NotAwake(w, t) ==
  /\ MayStart(w, t) /\ t \in ctx[in_context[w]].asleep
  /\ todo' = [todo EXCEPT ![w] = @ \ {t}]
  /\ queue' = Put(queue, in_context[w], FIFO_HIGH)
  /\ Report(w, t, <<>>, FALSE)
  /\ UNCHANGED <<ctx, counter, pc, in_context, active, worker_idle, idle_count, output>>

StartTask(w, t) ==
  /\ MayStart(w, t) /\ t \notin ctx[in_context[w]].asleep
  /\ todo' = [todo EXCEPT ![w] = @ \ {t}]
  /\ active' = [active EXCEPT ![w] = @ \cup {t}]
  /\ UNCHANGED <<ctx, counter, queue, pc, in_context, results, worker_idle, idle_count, output>>

(* The task's code ends with the result r; complete(task) follows. *)
Returns(w, t, r) ==
  /\ ctx' = Told(r, t).ctx
  /\ counter' = counter + r.delta
  /\ active' = [active EXCEPT ![w] = @ \ {t}]
  /\ Report(w, t, r.out, TRUE)
  /\ UNCHANGED <<queue, pc, in_context, todo, worker_idle, idle_count, output>>

Ends(w, t, outcome) ==
  /\ t \in active[w] /\ t # out_task /\ outcome \in behaviour[t]

ReturnSame(w, t) == Ends(w, t, "same") /\ Returns(w, t, SameResult(ctx, in_context[w]))

ReturnNothing(w, t) == Ends(w, t, "drop") /\ Returns(w, t, NoResult(ctx))

ReturnNew(w, t) == Ends(w, t, "new") /\ Room(ctx, 1) /\ Returns(w, t, NewResult(ctx))

ReturnBoth(w, t) ==
  Ends(w, t, "fork") /\ Room(ctx, 1) /\ Returns(w, t, ForkResult(ctx, in_context[w]))

ReturnChildren(w, t) ==
  /\ Ends(w, t, "children")
  /\ \E k \in 1 .. 2 :
       Room(ctx, k) /\ Returns(w, t, ChildrenResult(ctx, in_context[w], k))

ReturnFrozen(w, t) == Ends(w, t, "freeze") /\ Returns(w, t, FrozenResult(ctx, in_context[w]))

Route(w, t) ==
  /\ Ends(w, t, "route")
  /\ \E R \in SUBSET downstream_tasks[t] :
       Returns(w, t, RouteResult(ctx, in_context[w], t, R))

Misroute(w, t) ==
  /\ Ends(w, t, "misroute")
  /\ Returns(w, t, DestroyedResult(ctx, Doomed(ctx, in_context[w])))

LoopYield(w, t) ==
  /\ Ends(w, t, "yield") /\ YieldRoom(ctx, in_context[w])
  /\ Returns(w, t, YieldResult(ctx, in_context[w], t))

LoopExhausted(w, t) ==
  Ends(w, t, "exhaust") /\ Returns(w, t, ExhaustedResult(ctx, in_context[w]))

RunSink(w) ==
  out_task \in active[w] /\ Returns(w, out_task, SinkResult(ctx, in_context[w]))

(* call_before returned a RateLimitContext, which is unwrapped: the        *)
(* context comes back without the task being completed.                    *)
RateLimited(w, t) ==
  /\ Ends(w, t, "limit")
  /\ active' = [active EXCEPT ![w] = @ \ {t}]
  /\ Report(w, t, <<in_context[w]>>, TRUE)
  /\ UNCHANGED <<ctx, counter, queue, pc, in_context, todo, worker_idle, idle_count, output>>

(* The exception handler: another attempt while the retry count allows it. *)
Retried(t, n) == retry_times[t] > 0 /\ n <= retry_times[t]

RaiseRetry(w, t) ==
  LET c == in_context[w]
      n == ctx[c].retry[t] + 1
  IN  /\ Ends(w, t, "raise") /\ Retried(t, n)
      /\ ctx' = [ctx EXCEPT ![c].retry[t] = n,
                            ![c].asleep = IF t \in retry_interval THEN @ \cup {t} ELSE @]
      /\ active' = [active EXCEPT ![w] = @ \ {t}]
      /\ queue' = Put(queue, c, FIFO_HIGH)
      /\ Report(w, t, <<>>, FALSE)
      /\ UNCHANGED <<counter, pc, in_context, todo, worker_idle, idle_count, output>>

RaiseError(w, t) ==
  LET c == in_context[w]
      n == IF retry_times[t] > 0 THEN ctx[c].retry[t] + 1 ELSE 0
  IN  /\ Ends(w, t, "raise") /\ ~Retried(t, n)
      /\ Returns(w, t, DestroyedResult([ctx EXCEPT ![c].retry[t] = n], Doomed(ctx, c)))

-----------------------------------------------------------------------------
(* The second half of _worker_loop: gather, deduplicate, drop the frozen   *)
(* contexts, _context_postprocess, and queue what is left.                 *)

Gathered(w) == pc[w] = "running" /\ todo[w] = {} /\ active[w] = {}

(* Mutant: what several tasks returned is not deduplicated. *)
ContextListsTwice(w) ==
  {FlattenSeq([i \in DOMAIN s |-> s[i].contexts]) : s \in SetToSeqs(results[w])}

(* context_list.  Deduplication goes through a set, whose order is not     *)
(* defined.                                                                *)
ContextLists(w) ==
  LET lists == {r.contexts : r \in results[w]}
  IN  IF Cardinality(results[w]) > 1 THEN SetToSeqs(UNION {ToSet(l) : l \in lists})
                                     ELSE lists

(* What is left of it without the frozen contexts. *)
Thawed(out) == {x \in ToSet(out) : ~ctx[x].freezing}

(* The tasks whose coroutine reported success. *)
Succeeded(w) == {r.task : r \in {q \in results[w] : q.succeed}}

(* The parents of c that the loops of _context_postprocess collect: they   *)
(* stop at the first destroyed one.                                        *)
LiveAncestors(cs, c) ==
  LET up[n \in 0 .. Len(cs)] ==
        IF n = 0 THEN {} ELSE IF cs[n].destory THEN {} ELSE {n} \cup up[cs[n].parent]
  IN  up[cs[c].parent]

(* The bypass tasks of the contexts X are masked, one context at a time. *)
MaskBypass(cs, X, run) ==
  FoldSet(LAMBDA x, acc : CompleteAll(acc, x, BypassTasks(all_upstream, all_downstream,
                                                          acc[x].completed \cap run)),
          cs, X)

(* _context_postprocess with in_context c, output_context out and          *)
(* running_tasks run.  Its two collecting loops run `while` the number of  *)
(* children is not zero without changing it and without ever suspending:   *)
(* entered with a child alive, they hold the event loop for good.          *)
PostProcess(c, out, run) ==
  LET applies == /\ enable_context_gc \/ enable_context_bypass
                 /\ run # {} /\ run # {out_task}
      live == Live(ctx)
      gc == applies /\ enable_context_gc /\ c \in live
      gcSpins == gc /\ \E x \in out : ctx[x].child_num # 0
      outSet == live \cap (out \cup
                           IF gc THEN UNION {LiveAncestors(ctx, x) : x \in out} ELSE {})
      D == IF gc /\ ~gcSpins /\ c \notin outSet THEN Doomed(ctx, c) ELSE {}
      swept == Destory(ctx, D)
      bypass == applies /\ enable_context_bypass /\ outSet # {}
      bypassSpins == bypass /\ ~gcSpins /\ swept[c].child_num # 0
      inSet == ({c} \cap live) \cup LiveAncestors(swept, c)
      fresh == {x \in outSet \ inSet : ctx[x].kind # "loop"}
  IN  [doomed |-> D,
       blocked |-> gcSpins \/ bypassSpins,
       ctx |-> IF bypass /\ ~gcSpins /\ ~bypassSpins THEN MaskBypass(swept, fresh, run)
                                                     ELSE swept]

(* Back to the queue: the worker's own context on top of it, a LoopContext *)
(* below everything else; an OutputContext and a frozen one stay out.      *)
PutOut(q, x, c) ==
  IF ctx[x].freezing \/ ctx[x].kind = "output" THEN q
  ELSE Put(q, x, IF x = c THEN LIFO ELSE IF ctx[x].kind = "loop" THEN FIFO_LOW ELSE FIFO_HIGH)

PutAll(q, out, c) == FoldLeft(LAMBDA acc, x : PutOut(acc, x, c), q, out)

Collected(out) == {x \in Thawed(out) : ctx[x].kind = "output"}

(* Mutant: the worker's own context is not put back. *)
RequeueOthers(w, out) ==
  LET c == in_context[w]
  IN  /\ queue' = FoldLeft(LAMBDA q, x : IF x = c THEN q ELSE PutOut(q, x, c), queue, out)
      /\ output' = output \cup Collected(out)

Requeue(w, out) ==
  /\ queue' = PutAll(queue, out, in_context[w])
  /\ output' = output \cup Collected(out)

Gather(w) ==
  /\ Gathered(w)
  /\ \E out \in ContextLists(w) :
       LET post == PostProcess(in_context[w], Thawed(out), Succeeded(w))
       IN  /\ ~post.blocked
           /\ ctx' = post.ctx
           /\ counter' = counter - Cardinality(post.doomed)
           /\ Requeue(w, out)
  /\ pc' = [pc EXCEPT ![w] = "poll"]
  /\ results' = [results EXCEPT ![w] = {}]
  /\ UNCHANGED <<in_context, todo, active, worker_idle, idle_count>>

Spin(w) ==
  /\ Gathered(w)
  /\ \E out \in ContextLists(w) :
       LET post == PostProcess(in_context[w], Thawed(out), Succeeded(w))
       IN  /\ post.blocked
           /\ ctx' = post.ctx
           /\ counter' = counter - Cardinality(post.doomed)
  /\ pc' = [pc EXCEPT ![w] = "blocked"]
  /\ UNCHANGED <<queue, in_context, todo, active, results, worker_idle, idle_count, output>>

-----------------------------------------------------------------------------
(* The time in awake_time passes. *)
AwakeTimePasses(c, t) ==
  /\ t \in ctx[c].asleep
  /\ ctx' = [ctx EXCEPT ![c].asleep = @ \ {t}]
  /\ UNCHANGED <<config, counter, queue, pc, in_context, todo, active, results,
                 worker_idle, idle_count, output>>

(* A coroutine makes a step only while no other one holds the event loop. *)
LoopRuns == UNCHANGED config /\ \A w \in Worker : pc[w] # "blocked"

Fetch(w) ==
  LoopRuns /\ (Stop(w) \/ Wait(w) \/ SkipDestroyed(w) \/ DestroyStalled(w) \/ GetContext(w))

TimesOut(w) == LoopRuns /\ Timeout(w)

Starts(w) == LoopRuns /\ \E t \in Node : NotAwake(w, t) \/ StartTask(w, t)

(* A task's code runs to an end of its own. *)
Executes(w, t) ==
  /\ LoopRuns
  /\ \/ ReturnSame(w, t) \/ ReturnNothing(w, t) \/ ReturnNew(w, t) \/ ReturnBoth(w, t)
     \/ ReturnChildren(w, t) \/ ReturnFrozen(w, t) \/ Route(w, t) \/ Misroute(w, t)
     \/ LoopYield(w, t) \/ LoopExhausted(w, t) \/ RaiseRetry(w, t) \/ RaiseError(w, t)
     \/ t = out_task /\ RunSink(w)

Throttled(w) == LoopRuns /\ \E t \in Node : RateLimited(w, t)

Collects(w) == LoopRuns /\ (Gather(w) \/ Spin(w))

(* The collecting loop goes round and changes nothing. *)
KeepsSpinning == (\E w \in Worker : pc[w] = "blocked") /\ UNCHANGED vars

(* run() returns once every worker has left its loop. *)
Returned == \A w \in Worker : pc[w] = "stopped"

Next ==
  \/ \E w \in Worker :
       \/ Fetch(w) \/ TimesOut(w) \/ Starts(w) \/ Throttled(w) \/ Collects(w)
       \/ \E t \in Node : Executes(w, t)
  \/ \E c \in DOMAIN ctx : \E t \in Node : AwakeTimePasses(c, t)
  \/ Returned /\ UNCHANGED vars
  \/ KeepsSpinning

(* Fairness.  The event loop runs every coroutine that can run, timers     *)
(* fire, a task's code ends, the clock reaches every awake_time, and a     *)
(* rate limiter that is asked again and again lets the task pass.          *)
Fairness ==
  /\ \A w \in Worker :
       /\ WF_vars(Fetch(w)) /\ WF_vars(TimesOut(w)) /\ WF_vars(Starts(w))
       /\ WF_vars(Collects(w))
       /\ \A t \in Node : WF_vars(Executes(w, t))
  /\ \A t \in {n \in Node : \E f \in Config : "limit" \in f.behaviour[n]} :
       SF_vars(\E w \in Worker : Executes(w, t))
  /\ WF_vars(\E c \in DOMAIN ctx : \E t \in Node : AwakeTimePasses(c, t))

Spec == Init /\ [][Next]_vars

FairSpec == Spec /\ Fairness
-----------------------------------------------------------------------------
Alive == Counted(ctx)

(* Runtime.counter is the number of contexts that are alive, and child_num *)
(* the number of children that are, across creation, cascading destruction *)
(* and the destruction of a parent with its last child: the workers stop   *)
(* on that number.                                                         *)
CounterCountsLive ==
  /\ counter = Cardinality(Alive)
  /\ \A c \in DOMAIN ctx :
       ctx[c].child_num = Cardinality({x \in Alive : ctx[x].parent = c})

(* A worker's task lists are what its coroutines hold. *)
Held == {in_context[w] : w \in {v \in Worker : pc[v] \in {"running", "blocked"}}}
        \cup UNION {ToSet(r.contexts) : r \in UNION {results[w] : w \in Worker}}

(* No context is forgotten: with context GC on, one that is alive is       *)
(* queued, or in a worker's hands, or the ancestor of such a context.  Not *)
(* so a parent whose last child failed; hence the tasks without children.  *)
NoContextForgotten ==
  enable_context_gc /\ (\A t \in Node : "children" \notin behaviour[t]) =>
    \A c \in Alive : \E x \in Alive \cap (Queued(queue) \cup Held) : c \in Lineage(ctx, x)

(* The code of a task runs on a context only after every upstream task has *)
(* completed there, and never again once the task itself has; a            *)
(* LoopContext exists to run its loop task again and again.                *)
RunsInOrder ==
  \A w \in Worker : \A t \in active[w] :
    LET c == ctx[in_context[w]]
    IN  c.kind # "loop" => t \notin c.completed /\ upstream_tasks[t] \subseteq c.completed

(* Two workers never have tasks of the same context in hand at once,       *)
(* although parallel branches return it several times.  Not so where a     *)
(* task that may fail is retried.                                          *)
ExclusiveContext ==
  \A v, w \in Worker :
    v # w /\ in_context[v] = in_context[w] => todo[v] \cup active[v] = {}
                                              \/ todo[w] \cup active[w] = {}

(* task.py:90, "Maximum number of retry attempts on failure": a task fails *)
(* once and once per attempt.                                              *)
RetriesWithin ==
  \A c \in DOMAIN ctx : \A t \in Node :
    retry_times[t] > 0 => ctx[c].retry[t] <= retry_times[t] + 1

(* A worker counts an idle check only when nothing can ever run again: the *)
(* queue is empty and no worker holds a context.  So giving up after       *)
(* worker_idle_times checks abandons no runnable context.                  *)
IdleMeansStuck ==
  (\E w \in Worker : idle_count[w] > 0) =>
    IsEmpty(queue) /\ \A w \in Worker : pc[w] # "running"

(* run() returns, unless the collecting loops of bypass meet children.      *)
RunReturns ==
  \/ enable_context_bypass /\ \E t \in Node : "children" \in behaviour[t]
  \/ <>Returned

(* With context GC every context, once created, is destroyed: by the sink, *)
(* by an error, or because no task returned it.  Not so a parent whose     *)
(* last child failed; hence the tasks without children.                    *)
ContextsEnd ==
  \A c \in 1 .. MaxContext :
    /\ c \in Alive /\ enable_context_gc
    /\ \A t \in Node : "children" \notin behaviour[t]
    ~> c \notin Alive
=============================================================================
