CONSTANTS
  ClientIds = {main, d1, d2}
  Root = main
  Sends = {s1}
  Contexts = {x1, x2}
  OwnContexts = {x2}
  Closers = {k1, k2}
  Doers = {"nil", "http", "tied", "wrapper", "custom"}
  RootOptions <- TwoRoots
  ChildOptions <- TwoChildren
  MaxUses = 1
  Rooms <- FewRooms
  Users = {u1, u2, u3}
  Batch = {u2, u3}
  Builders = {b1, b2, b3}
  Forms = {"raw", "to", "scoped", "either", "drain", "into", "ex", "result"}
  Wishes <- ThreeWishes
  Fasts = {c1, c2}
  Hosts = {"a", "sub", "b"}
  DomainOf <- Sites
  Related <- SameSite
  Styles = {"request", "own"}
  FastBodies = {"bytes"}
  RedirectLimit = 1
  Adapters = {a1, a2}
  MaxCookies = 1
SPECIFICATION MCSpec
SYMMETRY Symmetry
CHECK_DEADLOCK FALSE
INVARIANTS ClientsIndependent BuildersSettle FastCallsIsolated
