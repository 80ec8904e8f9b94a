SPECIFICATION Spec
CONSTANTS
  Node <- ForkNode
  upstream_tasks <- Fork
  in_task = "source"
  out_task = "sink"
  Worker = {w1, w2}
  MaxContext = 1
  Config <- RetryConfigs
INVARIANT
  RetriesWithin
