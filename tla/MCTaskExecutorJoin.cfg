SPECIFICATION Spec
CONSTANTS
  Node <- DiamondNode
  upstream_tasks <- Diamond
  in_task = "source"
  out_task = "sink"
  Worker = {w1, w2}
  MaxContext = 3
  Config <- Forks
INVARIANTS
  NewTasksQueued
