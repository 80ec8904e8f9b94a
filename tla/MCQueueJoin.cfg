SPECIFICATION FairSpec
CONSTANTS
  Getter = {g1}
  Putter = {p1}
  Joiner = {j1, j2}
  Coroutine = {j1, j2}
  Cancellable = {}
  _maxsize = 0
  MaxPut = 2
PROPERTIES
  JoinReturns
CHECK_DEADLOCK FALSE
