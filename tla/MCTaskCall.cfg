SPECIFICATION CallSpec
CONSTANTS
  Call = {c1, c2, c3}
  User = {u1}
  Async = {u1}
  Setup <- ParallelSetups
INVARIANTS
  ParallelMax
CHECK_DEADLOCK FALSE
