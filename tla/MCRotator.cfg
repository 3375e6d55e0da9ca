CONSTANTS
  e1 = e1
  e2 = e2
  e3 = e3
  e4 = e4
  Endpoints = {e1, e2, e3, e4}
  Requests = {r1, r2}
  Prober = prober
  Admin = admin
  Threads = {r1, r2, prober, admin}
  FirstClients <- ThreeProxies
  SecondClients <- OneProxy
  Sessions = {s1}
  NoSession = NoSession
  Solid = {e2}
  CounterSize = 4
  MaxInFlight = 2
  MaxFails = 1
  RetryAfter = 1
  MaxTime = 1
  MaxBackground = 1
SPECIFICATION Spec
SYMMETRY Symmetry
VIEW WithoutGhosts
CHECK_DEADLOCK FALSE
INVARIANTS ProxyServes
