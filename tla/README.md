# shutils: a verification development

TLA+ models, TLC runs and TLAPS proofs for the DAG execution framework of
`shutils`, the locks, queues and limiters under it, and its persistent caches.
`PROJECT.json` lists components, runs, mutants, the map from definitions to
source lines, findings, hazards and theorems.

## 1. The system

`shutils.dag` runs *contexts* through a graph of *tasks*. A task may keep a
context, drop it, replace it, split it into children, produce contexts in a
loop or route them; an executor schedules contexts on worker coroutines until
none is alive. Threads and coroutines share contexts, queues and locks.

| Part (under `src/shutils`) | State | Operations | What makes it correct |
|---|---|---|---|
| `dag/dag.py` task graph | dependencies, memo of both closures | `add_task`, `build`, closure and bypass queries | memo entries are never partial and none is missing, in whatever order sets are iterated; bypass sets release the right tasks |
| `dag/task_state.py` task state | completed and available tasks, retry counts | `_complete`, `avaliable_task`, `retry` | available = ready; completion is for good |
| `dag/context.py` contexts | parent, children, flags | `create`, `create_child`, `complete`, `destory`, `freeze` | parents learn what children complete; the counters are exact under cascading destruction |
| `dag/runtime.py` counter | number of live contexts | `increase`, `decrease` | equals the number of live contexts |
| `dag/context_queue.py` | heap of (priority, sequence), counters | `put`, `get` | LIFO, then FIFO_HIGH, then FIFO_LOW, each in its own order |
| `dag/lib/aio_queue.py` mixed queue | items, futures of coroutines, condition wait sets | `put`, `get`, `task_done`, `join` | no lost wakeup between threads and coroutines; `join` returns |
| `dag/executor.py` batch executor | queue, workers, idle marks | `run`, worker loop, `_run_task`, GC and bypass | no context forgotten, tasks in order, the run returns |
| `dag/task.py` tasks | running count, limiter, generators | `call_before`, `call`, `call_after` | outcome of a task reaches the contexts |
| `dag/lib/smart_lock.py` | reader and writer counts, wait set | `read`, `write`, `async_read`, `async_write`, `*_run` | a read-write lock with writer priority, no lost wakeup |
| `rwlock.py` | reader count, condition | `read`, `write`, sync and async | a read-write lock; a cancelled wait costs nothing |
| `dag/data_white_board.py` | data of a context behind two locks | dictionary operations, `rlock`, `wlock`, `copy` | exclusive writes, no self-deadlock |
| `dag/task_executor.py`, `dag/task_queue.py` | a queue of (context, task) pairs | worker loop, GC and bypass after each task | duplicates in the queue do no harm, dependencies ran, nothing forgotten, the run returns |
| `dag/serve_executor.py` | status and future per submitted context | `submit_task`, `get_task_status`, `get_task_result` | each future is resolved, once |
| `dag/lib/limiter.py`, `rate_limiter.py` | tokens, slots, windows, time | `try_acquire`, `acquire`, `acquire_async`, `release`, `allow` | bounded bursts and calls, no slot miscounted, no lost wakeup |
| `cache.py` | entries, MD5 of the file, write count, the file | get, set, delete, clear, load, merge, save, signals, exit | a crash costs at most a save interval, an exit nothing; other processes keep their entries; eviction by recency |
| `dag/utils.py`, `utils.py` | resource pool, singletons | acquire/close, construction | one instance; no stuck waiter |
| `dag/helper.py`, `visualizer.py`, `global_data.py`, `param.py`, `imagesize.py` | none that changes | conversions, rendering, parsing | not modelled |

How they interact: the executor takes contexts from the context queue (built on
the mixed queue), asks the task state which tasks are available, runs them,
completes them on the contexts they return (through `context.py`, which goes on
to the parents under `SmartRWLock` and `RWLock`), then collects garbage, masks
bypassed tasks on new contexts and queues again. The runtime counter, changed
by every creation and destruction, is what stops the workers. The task executor
does the same with a queue of single tasks. Every call of a task passes
`call_before`, which counts it and asks its limiter. The caches stand alone;
processes meet in their file.

Hard parts: interleavings of workers, of task coroutines within a worker and of
threads; values read before a wait (the counter, idle marks); queue entries
that double after retries; cascading destruction; wakeups that travel through
the event loop; cancellation, also of a release; loops that hold the event loop;
clocks read outside a lock; crashes and signals in the middle of a load or a
write; files hashed at one moment and read at another.

## 2. Modules

| Module | Models | Notes |
|---|---|---|
| `DagGraph` | the graph as a function to upstream tasks, reference closures, bypass sets | operators only |
| `Dag` | `add_task`, `build`, the recursive `collect` as an explicit call stack, any set iteration order | checked against `DagGraph`; `DagLockProofs` |
| `TaskState` | `_complete` on one task state | operators only |
| `ContextState` | completion on a context tree, one locked step per level | `ContextStateProofs` |
| `ContextLanes`, `LaneQueue` | what the context queue promises | abstract specification |
| `ContextQueue` | the heap, the counters, put in two steps | refines `LaneQueue`; `QueueProofs` |
| `Contexts` | contexts as both executors see them: creation, counting, completion, destruction, what a task's outcome does | operators only; uses `TaskState`, `DagGraph`; `ContextsProofs` |
| `Executor` | the batch executor: queue, workers, tasks, idle detection | uses `Contexts`, `ContextLanes`; `ExecutorProofs` |
| `TaskExecutor` | the executor that queues tasks, and its queue | uses `Contexts`, `ContextLanes`; `TaskExecutorProofs` |
| `ReadWriteLock` | any number of readers or one writer | abstract specification |
| `SmartRWLock` | `SmartRWLock` with threads, coroutines, a pool, cancellation | refines `ReadWriteLock`; `DagLockProofs` |
| `RWLock` | `RWLock` and `AsyncRWLock`: the queue for the condition's lock, its wait set, cancellation in each | refines `ReadWriteLock`; `ContextStateProofs` |
| `AioQueue` | the mixed queue, items counted | `QueueProofs` |
| `QpsLimiter` | the QPS strategy of `Limiter`: bucket, refill, sleep, timeout | `LimiterProofs` |
| `TaskCall` | `call_before`, `call_after` and the CONCURRENCY and TOKEN_BUCKET strategies: slots, condition, cancellation | `LimiterProofs` |
| `RateWindow` | `rate_limiter.py`: fixed window, decorator | `LimiterProofs` |
| `Cache` | `PresistentMixin`, `TTLCache`, `LRUCache` in several processes over one file | `CacheProofs` |
| `MCExecutor`, `MCTaskExecutor`, `MCCache`, `MCTaskCall` | graphs, task behaviours, configurations for TLC | |
| `MCDagLock`, `MCContextState`, `MCQueues`, `MCHelpers` | several components in one run: each behaviour exercises one of them | |

Grain of atomicity. In `Executor` an action is what a coroutine does between
two points where it can be suspended: the wait on an empty queue, the gather,
the code of a task. The awaits on uncontended locks in between do not suspend.
What a task's code does is one of the `Outcome`s, chosen freely from
`behaviour[t]`; every outcome is the whole effect of the task class (creation
and counting of contexts, masks of a router, the replacement by an
OutputContext in the sink). In the locks and queues an action is one critical
section, or the part of it up to a wait. In `ContextQueue` a put is two steps,
because a get may fall between the push and the counter. Definitions named as
mutants in their comments are altered forms of the next definition; they take
part in no specification and serve to show that the properties can fail.

In `TaskExecutor` the sink runs without a suspension unless another worker runs,
for the same context, a task that keeps the data locked across an await
(`config.holds`: `ProcessTask`, `task.py:295`, or the user's `wlock`), or waits in
the sink itself; then it is suspended before its copy (`SinkWaits`,
`data_white_board.py:231`), and other workers go on. A step of `_worker_loop`
after the task's code (completion, GC, bypass, queueing) is one action with the
end of the task. Sets whose iteration order is not defined are queued in every
order.

In `RWLock` the lock of the condition is an agent's for the length of an action,
except a writer's, who keeps it. An agent that does not get it at once queues, in
each of the five places where the code waits for it, and may be cancelled there;
a coroutine cancelled in `wait()` takes it back before it raises. The queue serves
in any order, which includes the first-in first-out order of `asyncio.Lock`, and
nobody takes the lock past the queue.

In the limiters, time is an integer and a token costs `Cost` ticks, so that a
tick is a fraction of a token. Reading the clock and taking the lock are two
steps of `_try_acquire_qps`, and so are a passed timeout and the moment its
thread has the lock again. In `TaskCall` the statements of `call_before` between
two calls are one step; `running_task_num += 1` is not torn.

In `Cache` the MD5 of a file stands for its content and an entry keeps its place in
the dictionary. A start is three steps: the handlers are installed, the MD5 is
taken (`cache.py:107`), the file is read (108). A save is four or five: compare,
read and merge if the file changed, truncate, write, take the MD5. A crash
arrives between any two, a signal too, also during the saves that an earlier
signal or the exit began; several processes interleave between them. A signal
inside the write leaves it open while the handler saves; `sys.exit` then closes
it, which puts a part of the data, or all, over the file (`Closes`). Pickling is
what it does to values: a value is picklable or the write ends after the
truncation.

Not part of the executor models: `SyncTask`s that run in threads, where contexts
are created and destroyed concurrently with the event loop; `thraw`.

## 3. Runs

Passing runs:

| Run | Instance | Shows |
|---|---|---|
| `dag_lock` | `Dag`: all graphs over 4 tasks; or `SmartRWLock`: 5 agents, 1 in both roles, 2 cancellable, pool of 2 | memo exact and complete, bypass sets release exactly the downstream tasks on graphs without shortcut edges; refinement of `ReadWriteLock`, exact fields, no lost wakeup, nobody starves |
| `context_state` | `ContextState`: 2 contexts, 2 callers, fork; or `RWLock`: 4 agents, 2 cancellable in every wait | available = ready, completed for good, parents learn; `rwlock.py` refines `ReadWriteLock`, exact fields, no lost wakeup |
| `executor` | a task that fans out to two, 2 workers, 6 configurations: branches that keep, replace, drop, or lose their context, after a router; a loop task; children with bypass on and, failing, off; frozen contexts without GC; retries with an interval, then a branch with a rate limit | counters exact under creation and cascading destruction, nothing forgotten, order, one worker per context, idle detection gives up only what is stuck, contexts end, the run returns |
| `task_executor` | diamond, 2 workers, 9 configurations: branches that lose, drop, freeze their context, limits, router, new contexts, loop, retries with and without GC, children without bypass, a join that keeps the data locked | counters exact, dependencies ran, one output per context although tasks are queued and run twice, nothing forgotten, the run returns |
| `queues` | `AioQueue`: 3 getters, 2 putters, 2 joiners, one of each cancellable, one slot; or `ContextQueue`: 2 contexts, 2 putters, 4 puts | deques exact under cancellation, wakeups match items and slots, items taken; order of the heap, refinement of the lanes |
| `helpers` | `Cache`: 1 process with restarts and 3 keys over 2 places, 2 processes over a file, entries that expire and a value that cannot be pickled; or QPS with 2 agents, limits 0 and 2; or 3 calls and 2 waiting agents over 1 to 3 slots; or 2 threads over 3 windows | recency, what a crash costs, what an exit saves, what other processes keep; burst bound with clock readings out of order, counts and slots exact under exceptions and cancellation, no lost wakeup, two windows' worth of calls and no more in one period |

An executor, limiter or cache run explores several configurations: `config`
(`setup`, `limit`) is a variable chosen in `Init` and never changed.

Six runs show a disagreement between code and documentation.

`executor_retry`: a retry queues its context (`executor.py:218`), and the worker
queues it again when a parallel branch returned it. Two workers take it and both
run the branch: with `retry_times` 1 it is run three times (`task.py:90`: "Maximum
number of retry attempts"). `ExclusiveContext` is checked where retried tasks
do not run in parallel.

`task_executor_join`: with bypass on, the second context that a branch of the
diamond makes is queued (`task_executor.py:234`) before its bypass tasks are
completed (240). The join that only these make available is queued by nobody
(`task_executor.py:159` says that postprocessing comes before the check for new
tasks, `task_queue.py:109` that what becomes available is queued), and, as
there is no idle detection, `run()` does not return.

`task_executor_loop`: from its second run on a LoopContext is the input context,
and no task is ever completed on it. The bypass tasks of the empty set (356) are
all tasks, so that every context the loop yields but the first is destroyed
without being processed, against `docs/dag/guide.md:189`. Bypass is on by
default. The passing run `task_executor` has room for one yield only; with
bypass off both properties hold on the instances of these two runs.

`queue_join`: `task_done` wakes one coroutine in `join` (`aio_queue.py:237`), and
the one that returns wakes no other; a second one waits for ever, unlike those of
`asyncio.Queue`, which the class mimics (246).

`limiters_parallel`: `call_before` compares `running_task_num` with `>` before it
adds the call (`task.py:135`), so that `parallel_num` + 1 calls run at once; 92
calls it the maximum.

`cache_signal`: a signal during the write in `save_cache` (`cache.py:144`) starts a
second save in the handler. It finds the file changed and unreadable if the MD5
of a file was ever taken, and else overwrites it; closing the interrupted write
then leaves a truncated file in either case. `cache.py:176` promises a save before
the exit.

### Disagreements without a run

Each was met while modelling and follows from the code; the passing runs take
what the code does and are stated so that they hold beside it.

Batch executor:

* After `create_child` with bypass on, the loop at `executor.py:382` tests a
  number that nothing in it changes and never suspends: `run()` does not return
  (`docs/dag/guide.md:298`: "processes all contexts until completion").
* In a graph with a shortcut edge (the one of `docs/dag/guide.md:288`) a new
  context is queued with nothing to run and then destroyed (`executor.py:391`);
  hence `IsReduced` in `BypassReleases`.
* `executor.py:317` puts a LoopContext that was run again on top of the queue,
  before the contexts it yielded; `docs/dag/guide.md:189` says the opposite.
* With GC on, a frozen context is destroyed, since `executor.py:302` has dropped
  it from the output; `context.py:135` promises that `thraw` works.
* Without `context_queue_timeout`, a worker that waits on the empty queue is not
  told that the last context is gone (`executor.py:243`).

Task executor (`task_executor.py`):

* Every available task is queued again after each task (216), so that a task
  behind a fork runs twice, with one worker too.
* When the duplicate of the last task keeps the data locked, the sink that one
  worker took waits for it (`data_white_board.py:231`) with the context alive; a
  second worker takes the same sink from the queue, and both give an output.
  `OneOutputEach` is stated for runs in which no task keeps the data locked.
* A context that replaces its own in a branch is not bypassed: the task is not
  completed on the input context, so the bypass tasks are those of all completed
  tasks (356). It waits at the join for ever. A sibling is
  taken for a new context and bypassed (346): `d` runs although `c` did not
  (`docs/dag/index.md:7`). The passing run has new contexts before the branches,
  and children without bypass.
* With GC a retry never happens: the context is destroyed first. A last child
  that fails leaves its parent alive and `run()` waiting.
* The LIFO_HIGH lane is first-in first-out: its sequence number grows. With
  `task_worker_num` 0 there is no worker. `self.__thread_pool` is a mangled name
  that does not exist in the subclass: a `SyncTask` that is not foreground fails.

Queues and limiters:

* A getter that was woken for an item and is cancelled before it runs does not
  pass the wakeup on (`aio_queue.py:317`), as `asyncio.Queue` does; another
  getter sleeps beside the item. A put that finds only cancelled futures wakes
  no thread (190). `WakeupsCover` and `ItemsTaken` therefore end with the first
  cancelled call of their kind.
* A limit of 0 divides by zero in `acquire` (`limiter.py:253`). An `acquire` with
  a timeout gives up when a token has just become available (`limiter.py:146`).
* A call refused by `parallel_num` hands its context on as completed. An exception
  in a task skips `call_after`: count and slot are gone. A TOKEN_BUCKET slot taken
  by a task is never given back, since `release` gets no name.
* `RateLimiter` admits `2 * calls` calls within one period.

Locks:

* A reader cancelled while it waits for the condition's lock in `_release_read`
  (`rwlock.py:129`) stays counted, and no writer enters again. `FieldsExact` of
  `RWLock` counts it as what it is, a reader that never left.
* A coroutine cancelled while a pool thread acquires a `SmartRWLock` for it leaves
  the lock taken (`smart_lock.py:615`).

Cache (`cache.py`):

* One value that cannot be pickled destroys the saved file, and every later save
  fails until the process restarts. A torn file left by a crashed writer makes
  the saves of all other running processes fail for good.
* A process that found no file when it started overwrites, without merging, what
  another one saved meanwhile (the docstring at 125 says changes are merged).
  Values in memory win over newer ones on disk, deleted keys come back with a
  merge, and a merge exceeds `max_size` and loses the order of use.
* The MD5 that `load_cache` takes (107) may be that of another content than it
  reads (108): a process that hashed a file, read it while another one had
  truncated it, and finds the same content again when it saves, takes it for
  unchanged and removes keys it never had. Saves that overlap may record the
  other process's MD5 as their own. `OthersKept` ends with the first overlap of
  a load or save with another process's.
* A signal that arrives before the file is loaded makes the handler, installed
  first (`cache.py:56-94`), write the cache as it is, empty, over the file when no
  MD5 was taken yet; `sys.exit` then ends the process. `OthersKept` ends there too.

Bounds. `MaxContext` (3 or 4 contexts besides outputs) lets two contexts
coexist with a replacement, a pair of children or a loop and its yields.
Two workers give every pairwise race; a third adds no kind of step. `MaxPut`
lets a queue of one or two slots fill, drain and fill again. `worker_idle_times`
is 2, so that an early and a late stop differ. Two levels of contexts suffice in
`ContextState` since a caller moves one level at a time; the theorem covers any
number. `MaxTime` 4 with a bucket of 2 lets it empty, refill and overflow;
`MaxClock` 6 spans three windows. The cache configurations give two restarts of a
process and more writes than a save interval. Each violation run has the smallest
instance on which the disagreement occurs. `CHECK_DEADLOCK FALSE` stands where the
system may stop: bounded puts (`MCQueues`, `AioQueue`), a lock or slot leaked by a
cancelled coroutine (`MCDagLock`, `MCContextState`, `MCHelpers`, `MCTaskCall`), the
ends of the clock and of the starts (`MCHelpers`, `MCCache`). Tasks of the graph,
contexts, callers, cancellable and other agents, keys and processes are
interchangeable in the runs that declare a `SYMMETRY`; the one of these with a
liveness property, `dag_lock`, permutes only tasks, which no behaviour of the lock
has. In `Executor` the two ways to stop are actions that change
nothing: the run has returned, or the collecting loop holds the event loop.

Fairness. `Executor`: the event loop runs every coroutine that can run (weak),
timers fire, a task's code ends, the clock reaches `awake_time`; strong fairness
only for tasks with a rate limiter, which refills with time while the context
asks again and again. `SmartRWLock`: a woken thread gets the short internal
lock, holders leave, and the pool is first-in first-out, which gives strong
fairness to a queued acquire. `TaskExecutor`: as `Executor`, with strong fairness
for the code of a task, which a rate limiter may postpone again and again and
the sink keeps from running. `AioQueue`: callbacks and woken agents run, taken items
are reported; nobody is obliged to call. The other specifications state none.

## 4. Proofs

All for every value of the constants under the named `ASSUME`s.

* `ContextStateProofs`: `TypeCorrect`, `AvailableExact`, `NeverAgain`,
  `ParentsLearn`. `AvailableIsReady` is inductive with the type invariant: a
  completion adds exactly the tasks whose last missing upstream task it is. For
  `ParentLearns` the calls under way carry the obligation from child to parent.
* `DagLockProofs`, about `Dag`: `EntriesAreExact`, `BypassReleasesDownstream`, for
  any finite set of tasks, any graph `add_task` can build and any order in which
  the sets are iterated.
  * A graph is acyclic because its tasks can be numbered, each after those it
    depends on (`Acyclic`, which users keep when they call `add_task`, also for a
    task that is there; `build` puts one task at each end). On such a graph `Closure` is a fixed point of one step from
    either end, no task is in its own entry, and it commutes with `Converse`
    (`ClosureFixed`, `ConverseClosure`).
  * `EntriesExact` alone is not inductive in its second half. `NoneMissed` says
    that a task without an entry whose sources have theirs is among those the
    calls of `collect` under way have still to visit; when none is under way, a
    lowest task left out contradicts it.
  * `BypassReleases` follows from the exact entries: what is not done is above or
    below the task, and a shortcut edge is the only way for a task downstream to
    have another upstream task among those.
* `DagLockProofs`, about `SmartRWLock`, and the part of `ContextStateProofs` about
  `RWLock`: exact fields, no lost wakeup, and step simulation of `ReadWriteLock`. The inductive
  invariant ties each counter to the cardinality of a set of agents, which is
  what turns "the count reached zero" into "nobody holds it", and adds the
  exclusion of readers by a writer. The steps that only queue or cancel change
  neither field nor who is counted in.
* `QueueProofs`, about `ContextQueue`: `HeapInArrivalOrder`, `GetServesInOrder`,
  `HeapImplementsLanes`.
  The order of the heap is not inductive: that the next number is fresh depends
  on where the counters stand (`CountersFresh`), except for the one item whose
  put still holds the lock.
  For the refinement, `LaneOrder` numbers the items of a lane by their rank; a
  push in the lane's order appends at its end, or puts in front of it for
  LIFO_HIGH, and what a get takes has rank one in the first lane not empty.
* `LimiterProofs`, for any limits, periods, numbers of agents, calls and threads:
  * `BurstBounded`, for any order of the agents' clock readings. `BurstBound`
    compares two grants and is not inductive. The invariant `Paid` says of each
    earlier grant that what was taken since, and the tokens left, are covered by
    the capacity and by how far `last_update` has moved since: a reading that
    moves it backwards takes back tokens that moving forward again will add.
    With a limit of 0 nothing is ever granted.
  * `CountsAreExact`, `ParallelBounded` (`parallel_num` + 1: by how much the
    documented maximum is missed), `NoWakeupLost`. The counts are
    cardinalities of sets of program labels (`Counted`). `SleepersCovered` alone
    is not inductive: the condition's wait set must be exactly the agents that
    sleep (`AsleepExact`), or a notify could go to nobody. The bound on parallel
    calls rests on the bound at the moment of entry (`Entered`).
  * `TwoWindowsAtMost`. `Windows` says which of the admitted calls are in the
    open window and that its predecessors lie a whole period apart.
* `QueueProofs`, about `AioQueue`: `DequesAreExact`, `WakeupsAreCovered`, for any
  number of agents of each kind and any size of the queue. Put and get exchange one item
  for one slot, and both wake somebody if somebody sleeps; the proof treats them
  as one step (`Exchange`) seen from two sides. The invariant adds that whoever
  was cancelled has been recorded in `spoiled`.
* `ContextsProofs`: lemmas about the operators both executors are built from,
  for any finite graph. `Shape` says that a parent is older than its child, which
  makes the recursions over parents well-founded, and `Tally` that the counter
  and every child count are cardinalities. What each outcome of a task does is
  summed up as a `Good` result: it keeps `Shape` and `Tally`, tells how the counter
  must change, and `Grows` the contexts, so that nothing completed is undone and
  nothing destroyed lives again. `Turns`
  says which contexts a step may freeze or complete tasks in, `Yields` what an
  outcome may return. `Doomed`, `LiveAncestors` and the folds over tasks
  and contexts are recursive functions; that they are well defined and what they
  preserve is proved by taking a least counterexample (`Least`, `Reaches`),
  which needs no induction schema.
* `ExecutorProofs`, for any number of workers, any behaviour of the tasks and any
  bound on the contexts:
  * `IdleChecksMeanStuck`. `SomeoneComes` is the strengthening: while a context is
    queued, some worker is neither marked idle nor already in its get.
  * `CounterIsExact`. `HoldsContexts` keeps the queue, the hands of the workers
    and the results within the contexts that exist.
  * `UpstreamFirst`: the first half of `RunsInOrder`. That a task is available
    only when its upstream tasks are completed is part of `Shape`; `Grows` keeps
    it true of the tasks a worker took earlier.
  * `OneWorkerPerContext`, `NoneForgotten`, `RunsOnce`: `ExclusiveContext`,
    `NoContextForgotten` and `RunsInOrder`, each on the configurations it can hold
    of. `NeverRetries`: no task that may fail is retried; a retry queues a context
    its worker still has. `NoChildren`: no task makes children; a parent whose last
    child failed is alive and nowhere, and a child that completes a task on its
    parent may do so while the parent's runs. `NoRouters`: where paths join, the
    second of two routers masks a task that the first one's mask has released.
    TLC finds each of these on a small graph; tasks may otherwise keep, drop, replace,
    freeze, lose or yield, in parallel, under any limit.

    The three share an invariant, `HandInv`: what a worker's tasks made and returned
    is nowhere else before it gathers (`MadeOnce`), a context is queued once or in one
    worker's hands (`OnePlace`), one that is alive is queued or will come back
    (`Somewhere`), and a task in hand is not completed (`NotYet`). `PostTurns` shows
    that without parents `_context_postprocess` neither spins nor touches a context
    the worker does not hold, and destroys the worker's own if no task returned it.
* `TaskExecutorProofs`, with the same generality:
  * `TaskCounterIsExact`. One step of a worker passes through several states
    (result, queueing of each context, collection, bypass), so the lemmas are
    about such a state as a record (`Whole`, and `Sound` when it grew without a
    new output).
  * `OneOutputPerContext`, while no task keeps the data locked (`Unheld`): only then
    is the sink never suspended. It is not inductive: nothing in it keeps a sink that
    is queued twice from running again. `Sourced` says that the source of an output is destroyed, `SinkAlive`
    that a sink in hand is that of a live context; the sink destroys its context
    in the step that creates the output.
  * `TaskUpstreamFirst`. `HoldsTasks`: every pair queued or in hand is a task
    ready on that context, however the context changed meanwhile.
  * `NoTaskForgotten`, `DependenciesFirst`: `NothingForgotten` and `DependenciesRan`,
    on the configurations they can hold of. `NoChildren`: no task makes children; a
    parent whose last child failed is alive and nowhere, and a child may complete a
    task on its parent. `NoMasks`: bypass is off, or no task makes contexts, because of
    the two disagreements above. `Releases`, for the first only: some task depends
    on `in_task` alone (as `build` sees to), and on each creating task alone; a new
    context with nothing available is in no pair and stays alive. On any graph
    the theorems cover tasks that keep, drop, freeze, lose, retry or limit their
    context, routers, and with bypass off new contexts, forks and loops.

    The invariant is `TendInv`. `Attended` says that a live context has available
    tasks and each is queued or in hand, `Credited` that what is completed
    on a plain context ran for it, `Rooted` that no context has a parent. One
    step takes a pair, completes a task and queues several contexts in turn: `Tame`
    says that what follows in the step neither completes a task nor drops a
    pair, `Tended` that a context's available tasks are queued or that it is through,
    and each part of the step keeps what an earlier one tended. A duplicate pair is
    why `Attended` need not say who queued what: dropping a worker's pair is safe
    once its task is completed, or the context destroyed.
* `CacheProofs`, for any number of processes, keys, values, sizes and save
  intervals, restarts, signals and crashes included:
  * `CacheKeepsRecent`. The cached keys are a suffix of the order of use. A
    restart reads the file, and what crash and signal can leave in it is any
    dictionary without double keys (`Dictionaries`).
  * `OthersAreKept`. Until a load or save overlaps another process's, or a signal
    comes before the file is loaded (`Undisturbed`), one process at a time is
    between the MD5 and the end of either (`OneSaver`); a process whose MD5 is the
    file's has seen every key of it (`Knows`), and one whose MD5 is not merges
    before it writes.
  * `CrashesLoseLittle`, `ExitsAreSaved`. For a process that has the file for
    itself, the file differs from what it knows only after a signal past the
    write, or while one inside it has left it open or closed it (`torn`); the merge
    that follows a signal past the write brings back nothing, and a save cannot
    fail (`Settled`). A process that has not loaded the file yet has nothing to
    lose (`Fresh`), and what it hashed is what it reads.

The assumptions are those in the modules: finite sets of agents (their numbers are
counted), tasks that form a finite graph, limits and sizes that are natural
numbers, labels that are not agents. Every part of each inductive invariant was
checked by TLC on the run's instance before it was proved.

Checked by TLC only:

* Liveness: that locks are granted, items taken, `run()` returns, contexts end.
* `NothingForgotten`, `DependenciesRan`, `ExclusiveContext` and `RunsInOrder`
  on the configurations outside their theorems' conditions, as far as they hold
  there: children, and in the task executor contexts created before the branches
  with bypass on.

## 5. Not modelled

* `ServeExecutor`: its worker loop takes the pairs `_run_task` returns for lists
  of contexts (`serve_executor.py:109`) and fails on its first result; a model
  would be of a program that does not run.
* `DataWhiteBoard`: dictionary operations under the two modelled read-write
  locks; that the sink waits for its read lock is part of `TaskExecutor`. Data
  used inside `wlock` waits for itself, as neither lock is
  re-entrant (`data_white_board.py:221`).
* Thread, process and service tasks, and contexts shared with their threads
  (`SyncContext.destory` is a test and a set, `context.py:144`): they need
  threads inside a task, which the executor models abstract to an outcome.
* `SmartLock` and `AdaptiveMetrics`: a mutex whose strategy depends on measured
  durations; its users take it as one atomic step.
* Cache wrappers, `DISABLE_CACHE` and the construction of keys: how a call
  becomes a key is formatting; a result of `None` is never cached.
* `ResourcePool` (a layer over `asyncio.Queue`), singletons (one lock, one test),
  helpers, visualizer, parameters, image sizes: no protocol of their own.

## 6. Plan

1. Next proofs: `NothingForgotten` with children, which needs to say who of the
   parent and its children goes on.
2. Next models: threaded `destory` of contexts; thread and service tasks.

The hazards of the parts left out are in `PROJECT.json` with a note.
