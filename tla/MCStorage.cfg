CONSTANTS
  Lookups = {l1}
  Refresher = bg
  Callers = {l1, bg}
  TTL = 1
  NegativeTTL = 1
  MaxStale = 1
  ClientTimeout = 1
  RecordTTL = 1
  Recheck = 1
  MaxTime = 6
  DefaultTTL = 1
  MaxExpired = 1
  StaleDelays = {0, 1}
  SizeOf <- TwoVersions
  Probes = {"etag", "bare", "error"}
  Faults = {"cancel", "read", "write", "status", "crash"}
  MaxRuns = 2
  MaxAttempts0 = 3
  Setters = {s1, s2}
  SetInputs <- EightCookies
  Proxies = {"p", "q"}
  Suffixes <- PublicSuffixes
  MaxJars = 2
  MaxCrashes = 1
  Posts = {p1, p2, p3}
  Arguments = {"none", "null", "value", "provider"}
  Modifiers <- AtMostOne
  Ways = {"std", "adapter"}
  Buffers = {m1}
  MaxSends = 2
SPECIFICATION MCSpec
CHECK_DEADLOCK FALSE
INVARIANTS NoResurrection ServedAreRecent OneVersionInFile CookiesKept BodiesAreOwn
