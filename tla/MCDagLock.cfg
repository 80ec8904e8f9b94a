SPECIFICATION DagLockSpec
CONSTANTS
  Task = {a, b, c, d}
  in_task = source
  out_task = sink
  Reader = {r1, r2, x}
  Writer = {w1, w2, x}
  Coroutine = {r2, w2, x}
  Cancellable = {r2, w2}
  PoolSize = 2
SYMMETRY Symmetry
CHECK_DEADLOCK FALSE
INVARIANTS
  EntriesExact
  BypassReleases
  FieldsExact
  WaitersBlocked
PROPERTIES
  Implements
  AllServed
