SPECIFICATION FairSpec
CONSTANTS
  Node <- DiamondNode
  upstream_tasks <- Diamond
  in_task = "source"
  out_task = "sink"
  Worker = {w1, w2}
  MaxContext = 3
  Config <- Configs
INVARIANTS
  CounterCountsLive
  DependenciesRan
  OneOutputEach
  NothingForgotten
PROPERTIES
  RunReturns
