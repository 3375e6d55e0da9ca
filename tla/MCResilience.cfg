CONSTANTS
  Requests = {r1, r2, r3}
  MaxRetries = 1
  HasRefresh = TRUE
  Repeatables = {TRUE, FALSE}
  Methods = {"reading", "allowed", "mutating", "undelayed"}
  Streams = {s1}
  Formats = {"sse", "grpc", "resumable"}
  Logs <- ThreeLogs
  MaxReconnects = 1
  OutCapacity = 2
  MaxConnections = 4
SPECIFICATION MCSpec
INVARIANTS SingleRefresh NoLostWakeup ReplayAfterRefresh FailuresAreCurrent RaceSettles
PROPERTIES ImplementsFeed CallsReturn
