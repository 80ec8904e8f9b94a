------------------------------ MODULE Contexts ------------------------------
(***************************************************************************)
(* The contexts of shutils/dag/context.py and what a call of a task of     *)
(* shutils/dag/task.py does to them.  The executors (Executor and          *)
(* TaskExecutor) keep all contexts ever created in a sequence cs, oldest   *)
(* first, and schedule the tasks.                                          *)
(***************************************************************************)
EXTENDS Integers, TaskState, SequencesExt

CONSTANTS
  MaxContext,  \* bound: contexts ever created
  Config       \* the configurations to run: ExecutorConfig, TaskConfig, input and tasks

(* What the code behind a task may do with the context it is called with:  *)
(*   same      return the context                                          *)
(*   drop      return None or an empty list                                *)
(*   new       return a context it created (AsyncContext.create)           *)
(*   fork      return the context and one it created                       *)
(*   children  create child contexts and return them                       *)
(*   freeze    freeze the context and return it                            *)
(*   raise     raise an exception                                          *)
(*   limit     not run: TaskBase.call_before found the rate limit exceeded *)
(*   route     be an AsyncRouterTask and name downstream tasks             *)
(*   misroute  be an AsyncRouterTask and name any other task               *)
(*   yield     be a loop task whose generator yields a new context         *)
(*   exhaust   be a loop task whose generator is exhausted                 *)
Outcome == {"same", "drop", "new", "fork", "children", "freeze", "raise", "limit",
            "route", "misroute", "yield", "exhaust"}

ASSUME ConfigAssumption ==
  /\ MaxContext \in Nat
  /\ Config \subseteq
       [input_num : 0 .. MaxContext,           \* number of contexts given to run()
        has_timeout : BOOLEAN,                 \* context_queue_timeout is not None
        task_worker_num : Nat,                 \* 0 means no limit
        enable_context_gc : BOOLEAN,
        enable_context_bypass : BOOLEAN,
        worker_idle_times : Nat \ {0},
        retry_times : [Node -> Nat],           \* TaskConfig.retry_times of every task
        retry_interval : SUBSET Node,          \* the tasks whose retry_interval is not 0
        holds : SUBSET Node,                   \* the tasks that wait inside wlock()
        behaviour : [Node -> SUBSET Outcome]]  \* what the code of each task may do

all_downstream == Closure(downstream_tasks)
all_upstream == Closure(upstream_tasks)

-----------------------------------------------------------------------------
(* Contexts.  parent is 0 for a root.  asleep holds the tasks whose entry  *)
(* in awake_time lies in the future; retry is _retry_dict; source is, for  *)
(* an OutputContext, the context whose id and data it copied.              *)

Context(kind, parent) ==
  [completed |-> {}, available |-> {}, skip |-> FALSE,
   kind |-> kind, parent |-> parent, child_num |-> 0,
   destory |-> FALSE, freezing |-> FALSE,
   retry |-> [t \in Node |-> 0], asleep |-> {},
   source |-> 0]

LoopContext(task) == [Context("loop", 0) EXCEPT !.available = {task}]

(* OutputContext() followed by acopy(c); it has no runtime to count it. *)
OutputContext(c) == [Context("output", 0) EXCEPT !.source = c]

Live(cs) == {c \in DOMAIN cs : ~cs[c].destory}

(* The contexts the runtime counter is about. *)
Counted(cs) == {c \in Live(cs) : cs[c].kind # "output"}

(* c and its parents, up to the root. *)
Lineage(cs, c) ==
  LET up[n \in 0 .. Len(cs)] == IF n = 0 THEN {} ELSE {n} \cup up[cs[n].parent]
  IN  up[c]

(* AsyncContext.complete on each context of C: the task is completed there *)
(* and in every ancestor.                                                  *)
CompleteIn(cs, C, t) ==
  LET reached == UNION {Lineage(cs, c) : c \in C}
  IN  [x \in DOMAIN cs |-> IF x \in reached THEN Complete(cs[x], t) ELSE cs[x]]

(* Each task of T is completed in c in this way. *)
CompleteAll(cs, c, T) ==
  FoldSet(LAMBDA t, acc : CompleteIn(acc, {c}, t), cs, T \cap Node)

(* The contexts AsyncContext.destory marks: c unless it is destroyed       *)
(* already, then its children in the same way.                             *)
Doomed(cs, c) ==
  LET doomed[n \in 1 .. Len(cs)] ==
        IF cs[n].destory THEN {}
        ELSE {n} \cup UNION {doomed[x] : x \in {y \in n + 1 .. Len(cs) : cs[y].parent = n}}
  IN  doomed[c]

(* With destory_parent, the parent follows when c was its last child. *)
DoomedWithParent(cs, c) ==
  LET p == cs[c].parent
  IN  Doomed(cs, c) \cup
      IF ~cs[c].destory /\ p # 0 /\ cs[p].child_num = 1 THEN Doomed(cs, p) ELSE {}

Destory(cs, D) ==
  [x \in DOMAIN cs |->
     [cs[x] EXCEPT !.destory = @ \/ x \in D,
                   !.child_num = @ - Cardinality({y \in D : cs[y].parent = x})]]

-----------------------------------------------------------------------------
(* What a call leaves behind: the contexts, the ones it returns, and by    *)
(* how much the runtime counter moved.                                     *)
Result(cs, out, delta) == [ctx |-> cs, out |-> out, delta |-> delta]

(* Room for k more contexts under the bound. *)
Room(cs, k) == Cardinality({c \in DOMAIN cs : cs[c].kind # "output"}) + k <= MaxContext

SameResult(cs, c) == Result(cs, <<c>>, 0)

NoResult(cs) == Result(cs, <<>>, 0)

(* The result of a call that destroyed the contexts of D. *)
DestroyedResult(cs, D) == Result(Destory(cs, D), <<>>, -Cardinality(D))

(* Mutant: the new context is not counted. *)
NewResultUncounted(cs) == Result(Append(cs, Context("plain", 0)), <<Len(cs) + 1>>, 0)

NewResult(cs) == Result(Append(cs, Context("plain", 0)), <<Len(cs) + 1>>, 1)

ForkResult(cs, c) == [NewResult(cs) EXCEPT !.out = <<c>> \o @]

(* create_child(k). *)
ChildrenResult(cs, c, k) ==
  Result([cs EXCEPT ![c].child_num = @ + k] \o [i \in 1 .. k |-> Context("plain", c)],
         [i \in 1 .. k |-> Len(cs) + i], k)

FrozenResult(cs, c) == Result([cs EXCEPT ![c].freezing = TRUE], <<c>>, 0)

(* AsyncRouterTask.call: the branches not routed to are masked, that is    *)
(* completed, as far as no routed task is above them.                      *)
RouteResult(cs, c, t, R) ==
  LET below(T) == T \cup UNION {all_downstream[d] : d \in T}
  IN  Result(CompleteAll(cs, c, below(downstream_tasks[t] \ R) \ below(R)), <<c>>, 0)

(* AsyncLoopTask.call: the first call adds a LoopContext to what the       *)
(* generator yielded, a later one hands the LoopContext on.                *)
YieldResult(cs, c, t) ==
  LET n == Len(cs)
  IN  IF cs[c].kind = "loop"
      THEN Result(Append(cs, Context("plain", 0)), <<n + 1, c>>, 1)
      ELSE Result(cs \o <<Context("plain", 0), LoopContext(t)>>, <<n + 1, n + 2>>, 2)

YieldRoom(cs, c) == Room(cs, IF cs[c].kind = "loop" THEN 1 ELSE 2)

ExhaustedResult(cs, c) ==
  DestroyedResult(cs, IF cs[c].kind = "loop" THEN Doomed(cs, c) ELSE {})

(* Mutant: the context stays alive next to its output. *)
SinkResultKeeps(cs, c) == Result(Append(cs, OutputContext(c)), <<Len(cs) + 1>>, 0)

(* SinkNode.call: an OutputContext takes the context's place. *)
SinkResult(cs, c) ==
  LET D == DoomedWithParent(cs, c)
  IN  Result(Append(Destory(cs, D), OutputContext(c)), <<Len(cs) + 1>>, -Cardinality(D))

(* complete(task) on every returned context that is not a LoopContext. *)
Told(r, t) ==
  [r EXCEPT !.ctx = CompleteIn(@, {c \in ToSet(r.out) : r.ctx[c].kind # "loop"}, t)]
=============================================================================
