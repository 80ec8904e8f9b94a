--------------------------- MODULE MCTaskExecutor ---------------------------
(* Instances of TaskExecutor for TLC. *)
EXTENDS TaskExecutor

(* a fans out to b and c, which d joins. *)
Diamond == Build([a |-> {}, b |-> {"a"}, c |-> {"a"}, d |-> {"b", "c"}], "source", "sink")
DiamondNode == DOMAIN Diamond

(* Tasks that b does not name return their context. *)
Running(n, b) ==
  [input_num |-> n, has_timeout |-> TRUE, task_worker_num |-> Cardinality(Worker),
   enable_context_gc |-> TRUE, enable_context_bypass |-> TRUE, worker_idle_times |-> 1,
   retry_times |-> [t \in Node |-> 0], retry_interval |-> {}, holds |-> {},
   behaviour |-> [t \in Node |-> IF t \in DOMAIN b THEN b[t] ELSE {"same"}]]

(* Branches that keep, drop, freeze or lose the context they share; a rate *)
(* limit; a router; new contexts and a loop before the branches; retries   *)
(* without and with context GC; children without bypass; a join that keeps *)
(* the data locked.                                                        *)
Configs ==
  {Running(2, [b |-> {"same", "raise"}]),
   Running(1, [a |-> {"new", "fork", "misroute"}]),
   Running(1, [b |-> {"same", "freeze", "limit"}, c |-> {"same", "drop"}]),
   Running(1, [a |-> {"same", "route"}, d |-> {"same", "new"}]),
   Running(1, [a |-> {"yield", "exhaust"}]),
   [Running(1, [b |-> {"same", "raise"}])
      EXCEPT !.retry_times["b"] = 1, !.retry_interval = {"b"}],
   [Running(1, [b |-> {"same", "raise"}])
      EXCEPT !.retry_times["b"] = 1, !.retry_interval = {"b"}, !.enable_context_gc = FALSE],
   [Running(1, [a |-> {"same", "children"}]) EXCEPT !.enable_context_bypass = FALSE],
   [Running(1, [b |-> {"same", "drop"}]) EXCEPT !.holds = {"d"}]}

(* A branch of the diamond keeps its context and makes a second one. *)
Forks == {Running(1, [b |-> {"fork"}])}

(* Before the branches a loop yields contexts. *)
Loops == {Running(1, [a |-> {"yield", "exhaust"}])}
=============================================================================
