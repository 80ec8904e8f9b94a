SPECIFICATION QueuesSpec
CONSTANTS
  Context = {c1, c2}
  Producer = {u1, u2}
  NoProducer = NoProducer
  MaxPuts = 4
  Getter = {g1, g2, g3}
  Putter = {p1, p2}
  Joiner = {j1, j2}
  Coroutine = {g2, g3, p2, j2}
  Cancellable = {g3, p2, j2}
  _maxsize = 1
  MaxPut = 3
CHECK_DEADLOCK FALSE
INVARIANTS
  ArrivalOrder
  DequeExact
  WakeupsCover
PROPERTIES
  ServedInOrder
  Implements
  ItemsTaken
