CONSTANTS
  Requests = {r1, r2, r3}
  MaxRetries = 1
  HasRefresh = TRUE
  Repeatables = {TRUE}
  Methods = {"reading"}
  Streams = {s1}
  Formats = {"sse", "grpc", "resumable"}
  Logs <- ThreeLogs
  MaxReconnects = 1
  OutCapacity = 2
  MaxConnections = 4
SPECIFICATION ReAuthSpec
INVARIANT BlockedReplayedOnSuccess
