SPECIFICATION FairSpec
CONSTANTS
  Node <- ForkNode
  upstream_tasks <- Fork
  in_task = "source"
  out_task = "sink"
  Worker = {w1, w2}
  MaxContext = 3
  Config <- Configs
INVARIANTS
  CounterCountsLive
  NoContextForgotten
  RunsInOrder
  ExclusiveContext
  IdleMeansStuck
PROPERTIES
  RunReturns
  ContextsEnd
