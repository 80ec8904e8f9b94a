----------------------------- MODULE MCDagLock -----------------------------
(* The graph and the lock of the contexts for TLC: a behaviour exercises   *)
(* one of them.                                                            *)
EXTENDS Dag, SmartRWLock, TLC

VARIABLE which

DagLockInit == which \in {"graph", "lock"} /\ DagInit /\ Init

DagLockNext ==
  /\ UNCHANGED which
  /\ \/ which = "graph" /\ DagNext /\ UNCHANGED vars
     \/ which = "lock" /\ Next /\ UNCHANGED dagVars

DagLockSpec == DagLockInit /\ [][DagLockNext]_<<which, dagVars, vars>> /\ Fairness

(* Sound for the liveness of the lock too: no task is there to be renamed  *)
(* in its behaviours.                                                      *)
Symmetry == Permutations(Task)
=============================================================================
