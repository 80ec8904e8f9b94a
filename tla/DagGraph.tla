------------------------------ MODULE DagGraph ------------------------------
(***************************************************************************)
(* The queries of shutils/dag/dag.py over a finished graph.  A graph is    *)
(* the function from every task to its upstream_tasks; everything else is  *)
(* derived from it.  These are the reference definitions: Dag.tla models   *)
(* the traversal by which the code computes them.                          *)
(***************************************************************************)
EXTENDS Naturals, FiniteSets

(* TaskBase.downstream_tasks, kept by add_upstream as the converse of      *)
(* upstream_tasks.                                                         *)
Converse(up) == [t \in DOMAIN up |-> {d \in DOMAIN up : t \in up[d]}]

(* DAG.build over the dependencies given to add_task: tasks without any    *)
(* hang below the source node, tasks nobody depends on above the sink.     *)
Build(deps, in, out) ==
  [t \in DOMAIN deps \cup {in, out} |->
     IF t = in THEN {}
     ELSE IF t = out THEN {e \in DOMAIN deps : \A d \in DOMAIN deps : e \notin deps[d]}
     ELSE IF deps[t] = {} THEN {in} ELSE deps[t]]

(* Everything reachable in one or more steps of next.                      *)
Closure(next) ==
  LET reach[n \in Nat] ==
        IF n = 0
        THEN next
        ELSE LET shorter == reach[n - 1]
             IN  [t \in DOMAIN next |->
                    shorter[t] \cup UNION {next[d] : d \in shorter[t]}]
  IN  reach[Cardinality(DOMAIN next)]

(* The tasks can be numbered, each after those it depends on.              *)
Acyclic(up) ==
  /\ IsFiniteSet(DOMAIN up) /\ up \in [DOMAIN up -> SUBSET DOMAIN up]
  /\ \E f \in [DOMAIN up -> 1 .. Cardinality(DOMAIN up)] :
       \A t \in DOMAIN up : \A d \in up[t] : f[d] < f[t]

(* No edge joins two tasks that a longer path joins already.               *)
IsReduced(up) ==
  \A t \in DOMAIN up : \A u, v \in up[t] : u \notin Closure(up)[v]

(* Mutant: the difference is taken the wrong way round. *)
BypassTasksNone(allUp, allDown, S) == (S \cup UNION {allDown[t] : t \in S}) \ DOMAIN allUp

(* DAG._get_bypass_tasks, given the closures of both directions: the tasks *)
(* that are neither in S nor above nor below a task of S.                  *)
BypassTasks(allUp, allDown, S) ==
  DOMAIN allUp \ (S \cup UNION {allUp[t] \cup allDown[t] : t \in S})
=============================================================================
