SPECIFICATION Spec
CONSTANTS
  Node <- DiamondNode
  upstream_tasks <- Diamond
  in_task = "source"
  out_task = "sink"
  Worker = {w1, w2}
  MaxContext = 4
  Config <- Loops
INVARIANTS
  LoopFeedsDag
