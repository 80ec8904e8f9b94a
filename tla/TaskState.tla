----------------------------- MODULE TaskState -----------------------------
(***************************************************************************)
(* The completion bookkeeping of one context, shutils/dag/task_state.py.   *)
(* A task state is a record with the fields                                *)
(*    completed   _completed_tasks                                         *)
(*    available   _available_tasks                                         *)
(*    skip        _skip_complete                                           *)
(* The operators below work on any record that has these fields, so that a *)
(* context (ContextState, Executor) can carry them next to its own.         *)
(***************************************************************************)
EXTENDS DagGraph

CONSTANTS
  Node,            \* every task of the built DAG, the two end nodes included
  upstream_tasks,  \* TaskBase.upstream_tasks of every task
  in_task,         \* DAG.in_task, the SourceNode
  out_task         \* DAG.out_task, the SinkNode

ASSUME GraphAssumption ==
  /\ IsFiniteSet(Node)
  /\ upstream_tasks \in [Node -> SUBSET Node]
  /\ in_task \in Node
  /\ out_task \in Node
  /\ in_task # out_task

downstream_tasks == Converse(upstream_tasks)

TaskStates == [completed : SUBSET Node, available : SUBSET Node, skip : BOOLEAN]

NewTaskState(skip) == [completed |-> {}, available |-> {}, skip |-> skip]

(* Mutants: one completed upstream task is enough; a completed task is     *)
(* released again.                                                         *)
ReleasedEarly(done, t) == downstream_tasks[t] \ done

ReleasedAgain(done, t) == {d \in downstream_tasks[t] : upstream_tasks[d] \subseteq done}

(* The downstream tasks that completing t makes ready, when done is the    *)
(* set of completed tasks with t already in it.                            *)
Released(done, t) ==
  {d \in downstream_tasks[t] : d \notin done /\ upstream_tasks[d] \subseteq done}

(* TaskStateMixin._complete.  The first call on a context created with     *)
(* skip_complete only consumes the flag.                                   *)
Complete(s, t) ==
  IF s.skip THEN [s EXCEPT !.skip = FALSE]
  ELSE IF t \in s.completed THEN s
  ELSE LET done == s.completed \cup {t}
       IN  [s EXCEPT !.completed = done,
                     !.available = (@ \ {t}) \cup Released(done, t)]
=============================================================================
