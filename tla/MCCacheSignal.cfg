SPECIFICATION Spec
CONSTANTS
  p1 = p1
  p2 = p2
  k1 = k1
  k2 = k2
  k3 = k3
  v = v
  bad = bad
  Process = {p1, p2}
  Unpicklable = {bad}
  Config <- SignalConfigs
INVARIANTS
  SignalSaves
CHECK_DEADLOCK FALSE
