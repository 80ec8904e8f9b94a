SPECIFICATION HelpersSpec
CONSTANTS
  p1 = p1
  p2 = p2
  k1 = k1
  k2 = k2
  k3 = k3
  v = v
  bad = bad
  Process = {p1, p2}
  Unpicklable = {bad}
  Config <- Configs
  Agent = {a1, a2}
  Cost = 2
  Limits = {0, 2}
  Timeouts = {1, Never, Once}
  Never = Never
  Once = Once
  MaxTime = 4
  Call = {c1, c2, c3}
  User = {u1, u2}
  Async = {u2}
  Setup <- Setups
  Thread = {t1, t2}
  calls = 2
  period = 2
  Sleeper = {t2}
  MaxClock = 6
INVARIANTS
  KeepsRecent
  CrashLosesLittle
  ExitSaved
  OthersKept
  BurstBound
  CountsExact
  SleepersCovered
  TwoWindows
SYMMETRY Alike
CHECK_DEADLOCK FALSE
