----------------------------- MODULE MCExecutor -----------------------------
(* Instances of Executor for TLC: graphs, what their tasks may do, and the *)
(* configurations of a run.                                                *)
EXTENDS Executor

Graph(deps) == Build(deps, "source", "sink")

(* a fans out to b and c, which the sink joins. *)
Fork == Graph([a |-> {}, b |-> {"a"}, c |-> {"a"}])

ForkNode == DOMAIN Fork

(* Tasks that b does not name return their context. *)
Running(n, b) ==
  [input_num |-> n, has_timeout |-> TRUE, task_worker_num |-> 0,
   enable_context_gc |-> TRUE, enable_context_bypass |-> TRUE, worker_idle_times |-> 2,
   retry_times |-> [t \in Node |-> 0], retry_interval |-> {}, holds |-> {},
   behaviour |-> [t \in Node |-> IF t \in DOMAIN b THEN b[t] ELSE {"same"}]]

Retrying(f, t, n) == [f EXCEPT !.retry_times[t] = n]

(* Parallel branches that keep, replace, drop or lose the context they     *)
(* share, after a router; a loop task; children with bypass and without;   *)
(* frozen contexts without GC; retries with an interval, before a branch   *)
(* with a rate limit.                                                      *)
Configs ==
  {Running(1, [a |-> {"same", "route", "misroute"}, b |-> {"same", "new", "fork", "raise"},
               c |-> {"same", "drop"}]),
   Running(1, [a |-> {"yield", "exhaust"}]),
   Running(1, [a |-> {"same", "children"}, b |-> {"same", "raise"}]),
   [Running(1, [a |-> {"same", "children"}, b |-> {"same", "raise"}])
      EXCEPT !.enable_context_bypass = FALSE],
   [Running(2, [a |-> {"same", "freeze"}]) EXCEPT !.enable_context_gc = FALSE],
   [Retrying(Running(2, [a |-> {"same", "raise"}, b |-> {"same", "limit"}]), "a", 2)
      EXCEPT !.task_worker_num = 1, !.retry_interval = {"a"}]}

(* A branch that is retried beside another. *)
RetryConfigs == {Retrying(Running(1, [b |-> {"same", "raise"}]), "b", 1)}
=============================================================================
