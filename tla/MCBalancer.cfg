CONSTANTS
  e1 = e1
  e2 = e2
  e3 = e3
  Endpoints = {e1, e2, e3}
  Requests = {r1, r2}
  Prober = prober
  Admin = admin
  Threads = {r1, r2, prober, admin}
  FirstPool <- TwoBackends
  SecondPool <- OneBackend
  Strategies <- AllStrategies
  Kinds = {"Do", "SelectHealthy"}
  Weights = {2}
  Solid = {e2}
  BadURLs = {e3}
  WithBody = {}
  MaxFails = 1
  RetryAfter = 1
  MaxTime = 1
  MaxBackground = 1
  Samples = {1, 2, 5}
  Capacity = 3
  Percentiles = {50, 95}
  Enough = 2
  Bounds <- FourTimes
  Alpha = 1
  Beta = 2
  MinCwnd = 2
  MaxCwnd = 4
  MaxSamples = 4
SPECIFICATION MCSpec
SYMMETRY Symmetry
CHECK_DEADLOCK FALSE
INVARIANTS CooldownKept TrackerExact RoundRobinSpreads FailoverServes LatencyIsCurrent
