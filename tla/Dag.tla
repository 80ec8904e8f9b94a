-------------------------------- MODULE Dag --------------------------------
(***************************************************************************)
(* The construction of a graph, shutils/dag/dag.py: add_task, build, and   *)
(* the memoising traversals that collect, on the first query of each       *)
(* direction, all tasks below and above every task.                        *)
(*                                                                         *)
(* The traversals iterate over Python sets: the order in which a task's    *)
(* neighbours are visited is arbitrary.                                    *)
(***************************************************************************)
EXTENDS DagGraph, Sequences

CONSTANTS
  Task,      \* the tasks a user may add
  in_task,   \* DAG.in_task
  out_task   \* DAG.out_task

ASSUME DagAssumption ==
  /\ IsFiniteSet(Task)
  /\ in_task \notin Task /\ out_task \notin Task /\ in_task # out_task

VARIABLES
  phase,           \* "open" until build(), then "built"
  upstream_tasks,  \* TaskBase.upstream_tasks of the tasks in DAG.tasks
  start_tasks,
  end_tasks,
  memo,            \* _downstream_tasks and _upstream_tasks
  stack,           \* the collect() calls in progress, innermost first
  direction        \* which of the two traversals they belong to

dagVars == <<phase, upstream_tasks, start_tasks, end_tasks, memo, stack, direction>>

Tasks == DOMAIN upstream_tasks

downstream_tasks == Converse(upstream_tasks)

DagInit ==
  /\ phase = "open"
  /\ upstream_tasks = [t \in {} |-> {}]
  /\ start_tasks = {} /\ end_tasks = {}
  /\ memo = [dir \in {"down", "up"} |-> [t \in {} |-> {}]]
  /\ stack = <<>>
  /\ direction = "down"

(* add_task(task, dependencies), of a new task or once more of one that is *)
(* there, which adds to its dependencies.  Users keep the graph acyclic.   *)
AddTask(t, deps) ==
  /\ phase = "open"
  /\ upstream_tasks' = [x \in Tasks \cup {t} |->
                           IF x # t THEN upstream_tasks[x]
                           ELSE IF t \in Tasks THEN upstream_tasks[t] \cup deps ELSE deps]
  /\ Acyclic(upstream_tasks')
  /\ start_tasks' = IF deps = {} THEN start_tasks \cup {t} ELSE start_tasks
  /\ UNCHANGED <<phase, end_tasks, memo, stack, direction>>

(* build(): the start tasks get in_task as their upstream, and the tasks   *)
(* nothing depends on become the upstream of out_task.                     *)
BuildGraph ==
  LET ends == {t \in Tasks : downstream_tasks[t] = {}}
  IN  /\ phase = "open" /\ start_tasks # {}
      /\ phase' = "built"
      /\ end_tasks' = ends
      /\ upstream_tasks' = [t \in Tasks \cup {in_task, out_task} |->
                              IF t = in_task THEN {}
                              ELSE IF t = out_task THEN ends
                              ELSE IF t \in start_tasks THEN upstream_tasks[t] \cup {in_task}
                              ELSE upstream_tasks[t]]
      /\ UNCHANGED <<start_tasks, memo, stack, direction>>

(* The neighbours a task's entry is computed from, and those visited next. *)
Sources(dir) == IF dir = "down" THEN downstream_tasks ELSE upstream_tasks
Visits(dir) == IF dir = "down" THEN upstream_tasks ELSE downstream_tasks

(* Mutant: an entry is computed from the sources that happen to be known. *)
CollectPartial(dir, t, rest) ==
  LET known == memo[dir]
      from == Sources(dir)[t]
  IN  /\ memo' = [memo EXCEPT ![dir] =
                    [x \in DOMAIN known \cup {t} |->
                       IF x = t THEN from \cup UNION {known[d] : d \in from \cap DOMAIN known}
                       ELSE known[x]]]
      /\ stack' = <<[task |-> t, next |-> Visits(dir)[t]]>> \o rest

(* collect(t) above the calls rest: it returns at once unless all of t's   *)
(* sources have their entry; otherwise it stores t's entry and goes on to  *)
(* the tasks on the other side of t.                                       *)
Collect(dir, t, rest) ==
  LET from == Sources(dir)[t]
      known == memo[dir]
  IN  IF from \subseteq DOMAIN known
      THEN /\ memo' = [memo EXCEPT ![dir] =
                         [x \in DOMAIN known \cup {t} |->
                            IF x = t THEN from \cup UNION {known[d] : d \in from}
                            ELSE known[x]]]
           /\ stack' = <<[task |-> t, next |-> Visits(dir)[t]]>> \o rest
      ELSE /\ stack' = rest
           /\ UNCHANGED memo

(* The first query of a direction starts its traversal from one end. *)
Query(dir) ==
  /\ phase = "built" /\ stack = <<>> /\ DOMAIN memo[dir] = {}
  /\ Collect(dir, IF dir = "down" THEN out_task ELSE in_task, <<>>)
  /\ direction' = dir
  /\ UNCHANGED <<phase, upstream_tasks, start_tasks, end_tasks>>

(* The innermost call visits its next task, or returns. *)
Visit ==
  /\ stack # <<>>
  /\ \E t \in Head(stack).next :
       Collect(direction, t, <<[Head(stack) EXCEPT !.next = @ \ {t}]>> \o Tail(stack))
  /\ UNCHANGED <<phase, upstream_tasks, start_tasks, end_tasks, direction>>

Return ==
  /\ stack # <<>> /\ Head(stack).next = {}
  /\ stack' = Tail(stack)
  /\ UNCHANGED <<phase, upstream_tasks, start_tasks, end_tasks, memo, direction>>

Collected(dir) == phase = "built" /\ stack = <<>> /\ DOMAIN memo[dir] # {}

DagNext ==
  \/ \E t \in Task : \E deps \in SUBSET Tasks : AddTask(t, deps)
  \/ BuildGraph
  \/ \E dir \in {"down", "up"} : Query(dir)
  \/ Visit
  \/ Return
  \/ Collected("down") /\ Collected("up") /\ UNCHANGED dagVars

DagSpec == DagInit /\ [][DagNext]_dagVars

-----------------------------------------------------------------------------
(* An entry of the memo is never partial: from the moment it is stored, it *)
(* holds exactly the tasks reachable in its direction, in whatever order   *)
(* the sets were iterated; and when a traversal has returned, every task   *)
(* has its entry: the lookups of _get_all_downstream_tasks and             *)
(* _get_all_upstream_tasks find their key.                                 *)
EntriesExact ==
  \A dir \in {"down", "up"} :
    /\ \A t \in DOMAIN memo[dir] : memo[dir][t] = Closure(Sources(dir))[t]
    /\ Collected(dir) => DOMAIN memo[dir] = Tasks

(* The purpose of _get_bypass_tasks: on a context created by task t, with  *)
(* t and its bypass tasks completed and nothing else, exactly the          *)
(* downstream tasks of t are ready.  It takes a graph without shortcuts.   *)
BypassReleases ==
  Collected("down") /\ Collected("up") /\ IsReduced(upstream_tasks) =>
    \A t \in Tasks \ {out_task} :
      LET done == {t} \cup BypassTasks(memo["up"], memo["down"], {t})
          ready == {d \in Tasks \ done : upstream_tasks[d] # {} /\ upstream_tasks[d] \subseteq done}
      IN  ready = downstream_tasks[t]
=============================================================================
