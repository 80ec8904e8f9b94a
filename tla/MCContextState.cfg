SPECIFICATION TreeSpec
CONSTANTS
  Node <- ForkNode
  upstream_tasks <- Fork
  in_task = "source"
  out_task = "sink"
  Ctx = {x, y}
  NoCtx = none
  Caller = {k1, k2}
  Agent = {a1, a2, a3, a4}
  NoAgent = nobody
  Cancellable = {a1, a2}
SYMMETRY Symmetry
CHECK_DEADLOCK FALSE
INVARIANTS
  AvailableIsReady
  ParentLearns
  FieldsExact
  WaitersBlocked
PROPERTIES
  CompletedForGood
  Implements
