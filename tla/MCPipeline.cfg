CONSTANTS
  Requests = {r1, r2}
  Proxies <- ThreeProxies
  RetryLimit = 2
  CursorSize = 4
  MaxInFlight = 2
  Calls = {c1, c2, c3}
  Kinds <- FourKinds
  Answers <- SixAnswers
  CacheRules <- TrackingIgnored
  CookieIndices = {"sid"}
  SizeLimit = 3
  MaxDictionary = 4
  MaxRunning = 2
  Callers = {d1, d2}
  Inputs <- FourInputs
  MaxAttempts = 0
  MaxRetries0 = 1
  AutoKey = FALSE
  HonorRetryAfter = TRUE
  Announced <- SixDictionaries
  Seekers <- ThreeSeekers
  MaxBytes = 3
  MaxDictSize = 2
  DefaultTTL = 2
  MaxClock = 2
SPECIFICATION MCSpec
SYMMETRY Symmetry
INVARIANTS FailoverTriesAll NothingLeaks CacheIsSound BodyAsAnnounced ResendsAreSafe StoreIsExact
