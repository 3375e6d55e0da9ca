CONSTANTS
  Requests = {r1, r2, r3}
  Origins = {o1}
  None = None
  Modes <- MuxModes
  MaxCloses = 1
  UringCalls = {u1, u2, u3}
  Chunks = 2
  RingSize = 2
  CounterWidth = 4
  MaxFailures = 2
  HeaderKeys = {"a", "b", "host", "none"}
  MaxLines = 4
  HeaderLimit = 3
  Orders <- FourOrders
  Plaintexts <- FourTexts
  ContentTypes = {22, 23}
  MaxRecords = 2
  Overhead = 1
  MaxPayload = 5
  Configs <- ThreeConfigs
  Finders = {f1, f2}
  Targets <- TwoURLs
  Rules <- ThreeRules
  MaxRules = 2
  DefaultRoute <- EmptyRoute
  Patterns <- SixPatterns
  Domains <- SevenDomains
  MaxRoutes = 4
  Handshakes = {h1, h2}
  ProxyKeys = {"p", "q"}
  Bindings = {"wrapper", "global"}
  MaxCaches = 3
SPECIFICATION MCSpec
SYMMETRY Symmetry
CHECK_DEADLOCK FALSE
INVARIANTS ExclusiveH1 NoDialLost RingKeepsOrder WireKeepsAll RoutersFollowRules
